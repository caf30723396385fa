\* Two validators, of which either may be the one that denies or stops first.
CONSTANTS
    N = 2
    Requests = {r1}
    MaxPolicies = 2
    Denying = {2}
SPECIFICATION FairSpec
INVARIANTS TypeOK FailClosed SnapshotPublished PoliciesExempt NoAllowAfterStop CleanExit
PROPERTIES ProcessStops RequestsEnd
