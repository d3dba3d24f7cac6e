SPECIFICATION Spec
CONSTANTS
    r1 = r1
    r2 = r2
    c1 = c1
    c2 = c2
    Runs = {r1}
    Calls = {c1, c2}
    MaxFaults = 0
CHECK_DEADLOCK FALSE
PROPERTIES
    LaunchIsMonitored
