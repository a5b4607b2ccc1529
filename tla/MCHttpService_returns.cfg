SPECIFICATION Spec
CONSTANTS
    s1 = s1
    s2 = s2
    s3 = s3
    Node = {s1}
    NWorkers = 2
INVARIANTS BlocksUntilSignal
