CONSTANTS
    a = a b = b
    Agents = {a, b}
    None = None
    MaxReads = 1
    MaxSaves = 2
    MaxActs = 5
    MaxFaults = 1
SPECIFICATION FairSpec
INVARIANTS TypeOK
PROPERTIES DanglingHealed
CHECK_DEADLOCK FALSE
