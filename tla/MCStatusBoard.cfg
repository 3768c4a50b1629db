CONSTANTS
    Clients = {c1, c2}
    MaxActive = 1
    MaxRestarts = 1
    Scenes <- MCScenes
    MaxFaults = 1
    MaxRuns = 2
    None = None
    Partial = Partial
SPECIFICATION FairSpec
INVARIANTS
    FileIsWhole
    ConnectedWithinActive
PROPERTIES
    FileCatchesUp
    TrayCatchesUp
    QuitEndsProcess
CHECK_DEADLOCK FALSE
