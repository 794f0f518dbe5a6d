CONSTANTS
    Workers = {w1, w2}
    Jobs = {j1, j2}
    NoJob = NoJob
    Labels = {k1}
    Objects <- MCObjects
    Requests <- SignAndGet
    QueueDepth = 1
    FaultKinds = {"removed", "lost", "transient", "rotate", "panic", "spawn"}
    MaxFaults = 2
SYMMETRY Symmetry
SPECIFICATION Spec
INVARIANTS TypeOK WorkerConsistent JobCustody Accounting RightKey NoHalfBuiltPool LoginHeld
    WorkConserving DrainedAtExit
PROPERTY KeepsPromise
CHECK_DEADLOCK FALSE
