SPECIFICATION FairSpec
CONSTANTS
    s1 = s1
    s2 = s2
    s3 = s3
    Node = {s1, s2, s3}
    NWorkers = 2
INVARIANTS MutexInv TypeOK ListAgrees FiniAlone FailureIsCaught JoinOnce NothingFreedUsed
PROPERTIES ImplementsRegistry Shutdown
