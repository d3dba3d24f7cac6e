SPECIFICATION Spec
CONSTANTS
    s1 = s1
    k1 = k1
    Agents = {}
    Sessions = {s1}
    Cleaners = {k1}
    Syncs = {}
    Nested = {s1, k1}
    MaxFaults = 0
CHECK_DEADLOCK FALSE
PROPERTIES
    DeletedStaysDeleted
