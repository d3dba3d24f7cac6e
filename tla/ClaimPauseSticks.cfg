\* Without a single fault: a digest that is paused while its claim is deferred
\* for the limit is enabled again.
SPECIFICATION SchedulerSpec
CONSTANTS
    Tasks <- SubmittedTasks
    Instructions <- SubmittedTasks
    OneShots <- Once
    Touched <- SubmittedTasks
    RunIds <- TwoReminders
    taskOf <- TaskOfTwo
    Processes = {p1}
    MaxActive = 1
    MaxFaults = 0
    None = None
PROPERTIES
    PauseSticks
CHECK_DEADLOCK FALSE
