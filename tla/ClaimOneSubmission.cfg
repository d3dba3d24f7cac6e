\* An admission that gives up what a recovery has dispatched meanwhile.
SPECIFICATION BriefingsSpec
CONSTANTS
    Tasks <- Morning
    Instructions = {}
    OneShots = {}
    RunIds <- Numbers
    taskOf <- MorningRuns
    None = None
    MaxRuns = 1
    MaxBriefings = 2
    Commanded = {}
    MaxFaults = 1
INVARIANTS
    OneSubmission
