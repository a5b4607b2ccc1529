SPECIFICATION Spec
CONSTANTS
    s1 = s1
    Sessions = {s1}
    AllocMayFail = TRUE
    MaxAgain = 1
PROPERTIES PendingDataWritten
CHECK_DEADLOCK FALSE
