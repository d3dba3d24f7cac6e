\* What the store and the limit keep besides: the same instance without liveness.
SPECIFICATION SchedulerSpec
CONSTANTS
    Tasks <- SubmittedTasks
    Instructions <- SubmittedTasks
    OneShots <- Once
    Touched <- Once
    RunIds <- TwoReminders
    taskOf <- TaskOfTwo
    Processes = {p1, p2}
    MaxActive = 1
    MaxFaults = 2
    None = None
SYMMETRY Peers
INVARIANTS
    OneShotSubmittedOnce
    ActiveIsBounded
PROPERTIES
    TerminalRunsStay
CHECK_DEADLOCK FALSE
