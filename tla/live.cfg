SPECIFICATION LiveSpec
CONSTANTS
    r1 = r1
    r2 = r2
    r3 = r3
    w1 = w1
    w2 = w2
    Requests <- TwoRequests
    Workers <- TwoWorkers
    MaxQueueSize = 1
    Batching = TRUE
    Retires = TRUE
    MaxBatchSize = 3
    Preferred = {2}
    Shape <- EmptyAndNot
    BatchSize <- UnitSizes
    NoInputs = "none"
    m1 = m1
    t1 = t1
    t2 = t2
    c1 = c1
    Names = {m1}
    Threads = {t1, t2}
    Clients = {}
    Catalog <- AllOffered
    Versions = {"1"}
    Servable = {"1"}
    DefaultVersion = "1"
    RepositoryMode = TRUE
    ExplicitMode = TRUE
    MaxRequests = 2
    MaxCalls = 4
    MayThrow = TRUE
CHECK_DEADLOCK FALSE
PROPERTIES
    SubmitReturns
    DrainCompletes
    RequestsAnswered
