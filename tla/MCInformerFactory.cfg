CONSTANTS
    Callers = {c1, c2}
    Stops = {s1, s2}
    None = None
SPECIFICATION Spec
INVARIANTS TypeOK ShutdownWaits HandlesServed AwaitedIsServed
PROPERTIES ShutdownReturns WaitReturns
