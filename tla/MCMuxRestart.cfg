CONSTANTS
    Clients = {c1, c2}
    MaxReqs = 1
    MaxClients = 2
    MaxQueue = 1
    MaxPending = 2
    MaxRestarts = 0
    LazyStart = FALSE
    MaxEpoch = 2
    Environment = {"timeout", "duplicate"}
SPECIFICATION Spec
SYMMETRY Symmetry
INVARIANTS
    AtMostOneAnswer
    StaleCacheIsDoomed
    IdsNameRequests
CHECK_DEADLOCK FALSE
