SPECIFICATION FairSpec
CONSTANTS
    MaxBody = 4
    MaxBehind = 2
    HighWM = 3
    AllocMayFail = TRUE
    Requests <- MCRequests
    Responses <- MCResponses
CHECK_DEADLOCK FALSE
INVARIANTS InStep WithinLimit
PROPERTIES ImplementsMessage HandedOn
