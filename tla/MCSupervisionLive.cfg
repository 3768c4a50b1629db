CONSTANTS
    MaxRestarts = 2
    LazyStart = TRUE
    InitialBackoff = 1
    BackoffCap = 1
    MaxFailures = 2
    MaxQueue = 1
    PipeSize = 1
    ChildFaults = {"mute", "deaf"}
    MaxSpawns = 3
    MaxProbes = 2
SPECIFICATION FairSpec
PROPERTIES
    HungChildReplaced
    ManagerStops
    ShutdownStopsChild
CHECK_DEADLOCK FALSE
