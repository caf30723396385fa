\* One caller and one update of a CRD.
CONSTANTS
  Callers = {c1}
  Kinds = {widget}
  Versions = {v1}
  EventKind = crdKind
  NoCaller = NoCaller
  MaxRev = 2
  MaxCalls = 1
SPECIFICATION Spec
INVARIANT PurgedWhenUpdated
