CONSTANTS
    s1 = s1
    s2 = s2
    k1 = k1
    k2 = k2
    None = None
    Publishers = {p1, p2}
    Subs = {s1}
    Keys = {k1}
    Entities = {e1, e2}
    Filter <- MCFilter
    Cap = 2
    MaxSent = 4
SPECIFICATION Spec
SYMMETRY Symmetry
INVARIANTS TypeOK NoSendOnClosed LineKept
PROPERTIES ImplementsQueue
CHECK_DEADLOCK FALSE
