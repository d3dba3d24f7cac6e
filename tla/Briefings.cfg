\* A scheduled run and two briefings, the user's and the run's or both the user's,
\* with two faults; the second, if it is the user's, is asked for with a command.
SPECIFICATION FairBriefingsSpec
CONSTANTS
    Tasks <- Morning
    Instructions = {}
    OneShots = {}
    RunIds <- Numbers
    taskOf <- MorningRuns
    None = None
    MaxRuns = 1
    MaxBriefings = 2
    Commanded = {2}
    MaxFaults = 2
INVARIANTS
    RunTellsBriefing
PROPERTIES
    BriefingSettles
