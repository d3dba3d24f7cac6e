\* No process stops for good: what the ticks lose in stalls, failed calls and
\* crashes, later ticks find again.  The limit defers nothing here.
SPECIFICATION FairSchedulerSpec
CONSTANTS
    Tasks <- OnceAndSweep
    Instructions <- Once
    OneShots <- Once
    Touched = {}
    RunIds <- CarriedRuns
    taskOf <- TaskOfCarried
    Processes = {p1, p2}
    MaxActive = 2
    MaxFaults = 1
    None = None
PROPERTIES
    OccurrenceIsCarried
    SubmissionsSettle
CHECK_DEADLOCK FALSE
