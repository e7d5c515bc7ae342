SPECIFICATION Spec
CONSTANTS
    r1 = r1
    w1 = w1
    w2 = w2
    u1 = u1
    c1 = c1
    Runs = {r1}
    Owners = {u1}
    Threads = {c1}
    Runners = {w1, w2}
    MaxRounds = 2
    MaxTools = 2
    RunningLimit = 1
    OwnerRunning = 1
    OwnerActive = 1
    QueueLimit = 1
    MaxEpoch = 3
    FaultLimit = 1
INVARIANTS
    RunsSound
PROPERTIES
    ProgressKept
    RunSettles
CHECK_DEADLOCK FALSE
