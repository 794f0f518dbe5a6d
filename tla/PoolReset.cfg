CONSTANTS
    Workers = {w1, w2}
    Jobs = {j1, j2}
    NoJob = NoJob
    Labels = {k1}
    Objects <- MCObjects
    Requests <- SignAndGet
    QueueDepth = 1
    FaultKinds = {"lost"}
    MaxFaults = 1
SPECIFICATION Spec
PROPERTY SessionFailureResets
CHECK_DEADLOCK FALSE
