CONSTANTS
    Requests = {r1, r2, r3}
    Scopes = {s1}
    Bodies = {b1}
    None = None
    TTL = 2
    MaxTime = 4
    MaxFaults = 0
    MayOutlive = FALSE
SPECIFICATION Spec
INVARIANT NoSecondExecution
