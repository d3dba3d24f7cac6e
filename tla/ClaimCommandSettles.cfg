\* A crash between the settlement of a briefing and that of its command.
SPECIFICATION FairBriefingsSpec
CONSTANTS
    Tasks <- Morning
    Instructions = {}
    OneShots = {}
    RunIds <- Numbers
    taskOf <- MorningRuns
    None = None
    MaxRuns = 1
    MaxBriefings = 1
    Commanded = {1}
    MaxFaults = 1
PROPERTIES
    CommandSettles
