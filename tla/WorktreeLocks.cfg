SPECIFICATION LiveSpec
CONSTANTS
    a1 = a1
    s1 = s1
    s2 = s2
    k1 = k1
    y1 = y1
    Agents = {a1}
    Sessions = {s1, s2}
    Cleaners = {k1}
    Syncs = {y1}
    Nested = {a1, s1, k1}
    MaxFaults = 1
CHECK_DEADLOCK FALSE
INVARIANTS
    MutationsExclude
    BusyIsLocked
PROPERTIES
    PreemptionEnds
