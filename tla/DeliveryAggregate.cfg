SPECIFICATION Spec
CONSTANTS
    None = None
    pull1 = pull1
    pull2 = pull2
    PullRequests <- MCPullRequests
    Durations <- MCDurations
    CallerKinds = {"uncertainty"}
    Outcomes = {"merged"}
    MaxRepairs = 1
    TotalMs = 1
    InitialMs = 0
    MaxEffectMs = 1
    MaxAssessmentMs = 1
    MaxAssessments = 1
    MaxTries = 1
    MaxFeedback = 1
SYMMETRY Symmetry
CONSTRAINT CallerHolds
CHECK_DEADLOCK FALSE
INVARIANTS
    AtMostOneOutstanding
    OverspendIsHeld
    PublishedIsCertified
    GrantCoversPublication
    RepairIsApproved
