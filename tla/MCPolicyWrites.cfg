\* One client through the interceptor and the controller on one policy.
CONSTANTS
    Words = {"plain", "paramKind", "unparsed", "long"}
    LongWords = {"long"}
    ParamWords = {"paramKind", "unparsed"}
    UnparsedWords = {"unparsed"}
    Bodies <- MCBodies
    Clients = {c1}
    MaxWrites = 3
SPECIFICATION Spec
INVARIANTS TypeOK StatusDescribesSpec ConfigErrorOfSpec StoredAsSent
PROPERTIES StatusCatchesUp RequestsFinish
