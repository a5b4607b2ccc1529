SPECIFICATION Spec
CONSTANTS
    s1 = s1
    Sessions = {s1}
    AllocMayFail = TRUE
    MaxAgain = 0
INVARIANTS ResolvesLater
CHECK_DEADLOCK FALSE
