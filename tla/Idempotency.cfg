CONSTANTS
    Requests = {r1, r2, r3}
    Scopes = {s1}
    Bodies = {b1, b2}
    None = None
    TTL = 1
    MaxTime = 2
    MaxFaults = 1
    MayOutlive = FALSE
SPECIFICATION FairSpec
INVARIANTS TypeOK ExclusiveClaim ReplayFaithful InFlightHeld
PROPERTIES StoredResponseSticks ImplementsContract KeyNeverStuck
