SPECIFICATION FairSpec
CONSTANTS
    k1 = k1
    k2 = k2
    k3 = k3
    b1 = b1
    b2 = b2
    NULL = NULL
    Threads = {t1, t2}
    Keys = {k1, k2, k3}
    Buckets = {b1, b2}
    Nodes = {n1, n2, n3}
    MaxCount = 3
    Hash <- MCHash
CHECK_DEADLOCK FALSE
INVARIANTS Exclusion OneValue ValuesFreed
PROPERTIES FoundStays ImplementsDictionary FindReturns
