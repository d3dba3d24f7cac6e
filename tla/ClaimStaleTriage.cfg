SPECIFICATION MCSpec
CONSTANTS
    c1 = c1
    c2 = c2
    r1 = r1
    r2 = r1
    Contents <- TheContents
    Repos <- TheRepos
    MaxEvents = 3
    MaxRequests = 4
INVARIANTS
    TriageIsOfSource
CHECK_DEADLOCK FALSE
