\* Liveness: two workers on one key that comes, goes and comes back.
CONSTANTS
  Keys = {k1}
  Workers = {w1, w2}
  Runner = run
  Threads = {w1, w2, run}
  NoKey = NoKey
  MaxRev = 3
  MaxNotifications = 2
SPECIFICATION FairSpec
PROPERTIES
  ShutdownCompletes
  Converges
