SPECIFICATION FairSpec
CONSTANTS
    None = None
    pull = pull
    PullRequests <- MCPullRequests
    Durations <- MCDurations
    CallerKinds = {"scope", "budget", "authority", "uncertainty", "environment"}
    Outcomes = {"merged", "cancelled"}
    MaxRepairs = 1
    TotalMs = 6
    InitialMs = 0
    MaxEffectMs = 1
    MaxAssessmentMs = 1
    MaxAssessments = 1
    MaxTries = 1
    MaxFeedback = 1
    MaxCrashes = 1
CHECK_DEADLOCK FALSE
PROPERTIES
    PausedPullIsObserved
