\* Safety: two workers on two keys, two changes of each, and shutdown at any time.
CONSTANTS
  Keys = {k1, k2}
  Workers = {w1, w2}
  Runner = run
  Threads = {w1, w2, run}
  NoKey = NoKey
  MaxRev = 2
  MaxNotifications = 2
SPECIFICATION Spec
INVARIANTS
  TypeOK
  QueueConsistent
  SingleFlight
  NoLostUpdate
  NoLostWakeup
  BackoffOnlyWhilePending
  DrainedOnReturn
PROPERTIES
  KnownNeverGoesBack
  ImplementsReconciler
SYMMETRY KeysAndWorkers
