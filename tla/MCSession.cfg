SPECIFICATION FairSpec
CONSTANTS
    s1 = s1
    Sessions = {s1}
    AllocMayFail = TRUE
    MaxAgain = 2
INVARIANTS TypeOK RefSafe NoFault CountersAgree ResponseComplete NoOrphan
PROPERTIES ResponseNotDiscarded Answered
CHECK_DEADLOCK FALSE
