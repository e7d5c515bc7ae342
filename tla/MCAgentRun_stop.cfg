SPECIFICATION Spec
CONSTANTS
    r1 = r1
    w1 = w1
    w2 = w2
    u1 = u1
    c1 = c1
    Runs = {r1}
    Owners = {u1}
    Threads = {c1}
    Runners = {w1}
    MaxRounds = 1
    MaxTools = 1
    RunningLimit = 1
    OwnerRunning = 1
    OwnerActive = 1
    QueueLimit = 1
    MaxEpoch = 3
    FaultLimit = 0
PROPERTIES
    StoppedRunEnds
CHECK_DEADLOCK FALSE
