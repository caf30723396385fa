\* The smallest instance in which the code departs from the comment.
CONSTANTS
  Keys = {k1}
  Workers = {w1}
  Runner = run
  Threads = {w1, run}
  NoKey = NoKey
  MaxRev = 2
  MaxNotifications = 2
SPECIFICATION Spec
INVARIANT DeletionsReachReconciler
