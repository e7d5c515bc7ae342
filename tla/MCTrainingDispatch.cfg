SPECIFICATION DispatchSpec
CONSTANTS
    Jobs = {j1}
    AttemptLimit = 2
    LeaseTTL = 1
    CompletionKeys = {k1}
    Digests = {d1}
    MetricSteps = {}
    OperationKeys = {}
    Reapers = {r1}
    ReapLimit = 1
    MaxStall = 0
    MaxTime = 2
    MaxGeneration = 2
    Workers = {w1, w2}
    Present = 2
    FaultLimit = 1
CHECK_DEADLOCK FALSE
INVARIANTS
    DispatchNotLost
PROPERTIES
    JobsMove
