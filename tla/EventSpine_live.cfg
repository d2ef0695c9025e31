CONSTANTS
    s1 = s1
    s2 = s2
    k1 = k1
    k2 = k2
    None = None
    Publishers = {p1, p2}
    Subs = {s1, s2}
    Keys = {k1, k2}
    Entities = {e1}
    Filter <- MCFilter
    Cap = 1
    MaxSent = 2
SPECIFICATION FairSpec
PROPERTIES PublishReturns
CHECK_DEADLOCK FALSE
