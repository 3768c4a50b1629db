CONSTANTS
    Clients = {c1, c2}
    MaxReqs = 1
    MaxClients = 1
    MaxQueue = 1
    MaxPending = 1
    MaxRestarts = 2
    LazyStart = TRUE
    MaxEpoch = 2
    Environment = {"timeout", "write_failure", "oversized", "notification", "spawn_failure", "shutdown"}
SPECIFICATION Spec
SYMMETRY Symmetry
INVARIANTS
    TypeOK
    NoOrphanPending
PROPERTIES
    MuxImplementsService
CHECK_DEADLOCK FALSE
