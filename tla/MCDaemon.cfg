CONSTANTS
    Muxes = {m1, m2}
    SocketOf <- MCOwn
    NameOf <- MCOwn
    Queries = {q1, q2}
    MaxRuns = 2
    None = None
    Dead = Dead
SPECIFICATION FairSpec
INVARIANTS
    ReachableWhileServing
    ReplyCoversServing
PROPERTIES
    ExitRemovesSockets
    ShutdownEnds
    QueriesAnswered
CHECK_DEADLOCK FALSE
