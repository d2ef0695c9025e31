CONSTANTS
    a = a b = b
    Agents = {a, b}
    None = None
    MaxReads = 1
    MaxSaves = 2
    MaxActs = 5
    MaxFaults = 1
SPECIFICATION Spec
PROPERTIES DropsOnlyDeleted
CHECK_DEADLOCK FALSE
