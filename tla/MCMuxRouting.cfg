CONSTANTS
    Clients = {c1, c2}
    MaxReqs = 2
    MaxClients = 2
    MaxQueue = 2
    MaxPending = 2
    MaxRestarts = 0
    LazyStart = FALSE
    MaxEpoch = 1
    Environment = {"malformed"}
SPECIFICATION Spec
SYMMETRY Symmetry
INVARIANTS
    AnswersMatchRequests
    FifoPerClient
    HandshakeGatesRequests
CHECK_DEADLOCK FALSE
