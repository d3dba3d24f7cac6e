\* The type invariant, and that what is looked at again is authorized.
SPECIFICATION CoordinatorSpec
CONSTANTS
    None = None
    pull = pull
    PullRequests <- MCPullRequests
    Durations <- MCDurations
    CallerKinds = {"scope", "budget", "authority", "uncertainty", "environment"}
    Outcomes = {"merged", "cancelled"}
    MaxRepairs = 2
    TotalMs = 8
    InitialMs = 0
    MaxEffectMs = 1
    MaxAssessmentMs = 1
    MaxAssessments = 2
    MaxTries = 2
    MaxFeedback = 1
    MaxCrashes = 1
CHECK_DEADLOCK FALSE
INVARIANTS
    CoordinatorTypeOK
PROPERTIES
    RecheckedWorkIsAuthorized
