SPECIFICATION ServingSpec
CONSTANTS
    m1 = m1
    m2 = m2
    m3 = m3
    a1 = a1
    a2 = a2
    e1 = e1
    e2 = e2
    e3 = e3
    p1 = p1
    p2 = p2
    Models = {m1, m2, m3}
    ModelPlan <- MCModelPlan
    TrainedOn <- MCTrainedOn
    Precisions = {"FP32", "FP16"}
    Formats <- MCFormats
    Publishers = {a1, a2}
    Named = {m1}
    Inferences = {e1, e2, e3}
    Policies = {p1, p2}
    TopScore = 2
    Steps = 3
    GridPoints = 11
    MinFeedback = 2
    TargetRisk <- MCTargetRisk
    ModelScenes = {"releasing", "inferring", "storing", "reporting"}
    Served = m1
    Earlier = {e1, e2}
    Contents = {m1}
    Clients = {a1, a2}
    Labels = {1, 2, 3}
    Tested <- MCTested
    PairsKept = 2
    PairsAsked = {1, 2}
    ClassesShown = 2
    StoreKinds = {"local", "s3"}
SYMMETRY Symmetric
INVARIANTS
    ReleasesSound
    ActivePoliciesSound
    ReportsHonest
PROPERTIES
    StaleCallsRefused
    PredictionsSound
    ArtifactsSound
CHECK_DEADLOCK FALSE
