SPECIFICATION DispatchSpec
CONSTANTS
    Jobs = {j1, j2}
    AttemptLimit = 1
    LeaseTTL = 1
    CompletionKeys = {k1}
    Digests = {d1}
    MetricSteps = {}
    OperationKeys = {}
    Reapers = {r1}
    ReapLimit = 1
    MaxStall = 0
    MaxTime = 2
    MaxGeneration = 1
    Workers = {w1}
    Present = 1
    FaultLimit = 0
CHECK_DEADLOCK FALSE
PROPERTIES
    EveryDispatchDelivered
