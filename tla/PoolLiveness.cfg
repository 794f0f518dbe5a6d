CONSTANTS
    Workers = {w1, w2}
    Jobs = {j1, j2}
    NoJob = NoJob
    Labels = {k1}
    Objects <- SecretOnly
    Requests <- DecryptAndGet
    QueueDepth = 1
    FaultKinds = {"lost", "panic"}
    MaxFaults = 1
SPECIFICATION FairSpec
 
PROPERTIES AcceptedJobRuns WorkersEnd
CHECK_DEADLOCK FALSE
