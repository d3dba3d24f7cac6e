SPECIFICATION MCLiveSpec
CONSTANTS
    c1 = c1
    c2 = c2
    r1 = r1
    r2 = r2
    Contents <- TheContents
    Repos <- TheRepos
    MaxEvents = 2
    MaxRequests = 2
ACTION_CONSTRAINT OneThing
INVARIANTS
    ActiveIsCurrent
    RunsArePending
    RevisionsAreAsked
    BaselineIsOfRepo
PROPERTIES
    PendingSettles
CHECK_DEADLOCK FALSE
