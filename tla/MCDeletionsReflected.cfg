\* The smallest instance in which the code departs from the comment.
CONSTANTS
  Keys = {p1}
  Unconvertible = {}
  MaxRV = 2
SPECIFICATION Spec
INVARIANT DeletionsReflected
