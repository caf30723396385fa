\* Two policies, one version of which cannot be converted.
CONSTANTS
  Keys = {p1, p2}
  Unconvertible = {3}
  MaxRV = 5
SPECIFICATION FairSpec
INVARIANTS
  TypeOK
  CaughtUpIsCurrent
PROPERTY StableWatchConverges
