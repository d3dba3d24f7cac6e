\* Two processes and a limit of one active submission: ticks that stall past
\* their lease, crash, or lose a call, against each other and the operator.
SPECIFICATION SchedulerSpec
CONSTANTS
    Tasks <- SubmittedTasks
    Instructions <- SubmittedTasks
    OneShots <- Once
    Touched <- Once
    RunIds <- TwoReminders
    taskOf <- TaskOfTwo
    Processes = {p1, p2}
    MaxActive = 1
    MaxFaults = 2
    None = None
SYMMETRY Peers
INVARIANTS
    OneUnsettledRun
    SubmissionIsTracked
CHECK_DEADLOCK FALSE
