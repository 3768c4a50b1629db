CONSTANTS
    Clients = {c1}
    MaxReqs = 2
    MaxClients = 1
    MaxQueue = 1
    MaxPending = 2
    MaxRestarts = 2
    LazyStart = TRUE
    MaxEpoch = 2
    Environment = {"timeout", "spawn_failure"}
SPECIFICATION FairSpec
INVARIANTS
    RequestsAccountedFor
PROPERTIES
    EveryRequestAnswered
    MuxImplementsLifecycle
CHECK_DEADLOCK FALSE
