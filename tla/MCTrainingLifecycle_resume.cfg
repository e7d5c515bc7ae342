SPECIFICATION Spec
CONSTANTS
    Jobs = {j1}
    AttemptLimit = 2
    LeaseTTL = 1
    CompletionKeys = {k1}
    Digests = {d1}
    MetricSteps = {1}
    OperationKeys = {}
    Reapers = {r1}
    ReapLimit = 1
    MaxStall = 1
    MaxTime = 4
    MaxGeneration = 3
CHECK_DEADLOCK FALSE
INVARIANT
    QueuedJobCanRun
