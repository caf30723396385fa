\* Two callers that miss at once, and a CRD that changes under them.
CONSTANTS
  Callers = {c1, c2}
  Kinds = {widget}
  Versions = {v1}
  EventKind = crdKind
  NoCaller = NoCaller
  MaxRev = 2
  MaxCalls = 3
SPECIFICATION FairSpec
INVARIANTS
  TypeOK
  ReadsNeverGoBack
PROPERTY CallsReturn
