CONSTANTS
    MaxRequests = 4
    MaxNotices = 2
    Environment = {"broken", "null_id"}
SPECIFICATION FairSpec
INVARIANTS
    PendingExact
    AnsweredAtExit
PROPERTIES
    ExitsAfterResponses
CHECK_DEADLOCK FALSE
