SPECIFICATION Spec
CONSTANT NWorkers = 3
CHECK_DEADLOCK FALSE
INVARIANTS BaseOutlives FaultAfterFailure AllFreed
