\* GitHub meets or loses every request within the grace.
SPECIFICATION Spec
CONSTANTS
    MaxSubmissions = 1
    MaxRounds = 1
    MaxHeads = 1
    MaxDrafts = 1
    MaxEdits = 0
    MaxFaults = 1
CHECK_DEADLOCK FALSE
PROPERTIES
    NoMatchIsTold
