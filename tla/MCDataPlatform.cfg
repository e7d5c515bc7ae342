SPECIFICATION DataSpec
CONSTANTS
    q = q
    u = u
    c1 = c1
    c2 = c2
    p1 = p1
    p2 = p2
    p3 = p3
    p4 = p4
    e1 = e1
    l1 = l1
    l2 = l2
    Tasks = {1, 2}
    TaskLabels = {l1, l2}
    TaskWorkers = {c1}
    WorkerFaults = 2
    Callers <- MCCallers
    Clients = {e1}
    Requests = {q, 1, 2, u}
    ClientRequests = {q}
    Photos = {p1, p2, p3, p4}
    UploadPhotos = {p1, p2}
    Labels = {l1, l2}
    FeedbackPhotos = {p3}
    ReviewLabel = l1
    TestPhoto = p1
    Batches = {1, 2}
    Coordinators = {c1, c2}
    AnnotationPhotos = {p2, p4}
    ConfirmedLabel <- MCConfirmedLabel
    SplitPlans <- MCSplitPlans
    CoordinatorFaults = 1
    ImportJobs = {1, 2}
    Consumers = {c1, c2}
    ImportRequests = {u, q}
    ImportLimit = 2
    ConsumerFaults = 1
    RivalBatches = {1}
    RivalCoordinators = {c1}
    Scenes = {"annotating", "publishing", "expanding", "importing"}
INVARIANTS
    DatasetsSound
    OutcomesHonest
PROPERTIES
    TasksSound
    ImportsFenced
    QueuedWorkEnds
CHECK_DEADLOCK FALSE
