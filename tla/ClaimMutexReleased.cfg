CONSTANTS
    MaxRestarts = 1
    LazyStart = FALSE
    InitialBackoff = 1
    BackoffCap = 1
    MaxFailures = 1
    MaxQueue = 1
    PipeSize = 1
    ChildFaults = {"exited"}
    MaxSpawns = 2
    MaxProbes = 1
SPECIFICATION FairSpec
PROPERTIES
    ReaperProceeds
CHECK_DEADLOCK FALSE
