SPECIFICATION Spec
CONSTANTS
    r1 = r1
    r2 = r2
    c1 = c1
    c2 = c2
    Runs = {r1, r2}
    Calls = {c1}
    MaxFaults = 1
CHECK_DEADLOCK FALSE
SYMMETRY Symmetry
PROPERTIES
    OneWriter
