SPECIFICATION Spec
CONSTANTS
    r1 = r1
    r2 = r2
    r3 = r3
    w1 = w1
    w2 = w2
    Requests <- TwoRequests
    Workers <- TwoWorkers
    MaxQueueSize = 2
    Batching = TRUE
    Retires = TRUE
    MaxBatchSize = 2
    Preferred = {}
    Shape <- OneShape
    BatchSize <- UnitSizes
    NoInputs = "none"
CHECK_DEADLOCK FALSE
PROPERTIES
    DrainRejectsQueued
