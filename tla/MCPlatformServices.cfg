SPECIFICATION MCSpec
CONSTANTS
    k1 = k1
    k2 = k2
    k3 = k3
    admin = admin
    user = user
    v1 = v1
    ServiceScenes = {"operations", "queue", "watching", "gate", "accounts", "workers", "hosts", "cards", "approvals"}
    Trials = {"operations", "queue", "watching", "polling", "gate", "accounts", "logins", "workers", "hosts", "cards", "approvals", "planning"}
    Operations = {k1}
    Requests = {k1, k2, k3}
    Runs = {k1, k2, k3}
    Owners = {k1, k2, k3}
    Threads = {k1, k2}
    Runners = {k1, k2, k3}
    MaxRounds = 0
    MaxTools = 0
    RunningLimit = 2
    OwnerRunning = 1
    OwnerActive = 2
    QueueLimit = 2
    MaxEpoch = 2
    FaultLimit = 0
    Watches = {k1, k2}
    Trainings = {k1, k2}
    Pollers = {k1, k2}
    WatchLimit = 1
    Calls = {k1, k2, k3}
    InitialLimit = 4
    MaximumLimit = 4
    FailuresToOpen = 2
    SuccessesToGrow = 2
    Users = {admin, user}
    FirstAdmin = admin
    Sessions = {k1, k2}
    Callers = {k1, k2}
    FailureLimit = 2
    MaxFailures = 3
    MaxChanges = 2
    Targets <- MCTargets
    Workers = {"worker"}
    WorkSessions = {k1, k2}
    MaxSequence = 2
    MaxTries = 2
    Resources = {"memory"}
    Tolerance = 1
    Stale = 1
    GapLimit = 1
    Hold = 1
    Window = 3
    Retention = 3
    Overlap = 2
    MaxTime = 4
    Versions = {v1}
    Drafts = {k1, k2}
    Writers = {k1, k2}
    NoDraft = NoDraft
    NoVersion = NoVersion
    MaxRevision = 2
    Owner = user
    Proposals = {k1, k2}
    Plans <- MCPlans
    Releases = {1, 2}
INVARIANTS
    OperationsSound
    AgentQueueBounded
    AccountsSound
    TelemetrySound
PROPERTIES
    OutcomeSpec
    ReportsFenced
    GateSound
    CardsSound
    ApprovalsSound
CHECK_DEADLOCK FALSE
