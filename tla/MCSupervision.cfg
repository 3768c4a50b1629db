CONSTANTS
    MaxRestarts = 2
    LazyStart = TRUE
    InitialBackoff = 1
    BackoffCap = 3
    MaxFailures = 2
    MaxQueue = 1
    PipeSize = 1
    ChildFaults = {"mute", "deaf", "exited"}
    MaxSpawns = 3
    MaxProbes = 3
SPECIFICATION Spec
INVARIANTS
    SpawnsWithinLimit
    SignalsNeedProbes
PROPERTIES
    ManagerImplementsLifecycle
CHECK_DEADLOCK FALSE
