SPECIFICATION Spec
CONSTANTS
    r1 = r1
    r2 = r2
    r3 = r3
    w1 = w1
    w2 = w2
    Requests <- ThreeRequests
    Workers <- TwoWorkers
    MaxQueueSize = 2
    Batching = TRUE
    Retires = FALSE
    MaxBatchSize = 2
    Preferred = {}
    Shape <- MixedShapes
    BatchSize <- UnitSizes
    NoInputs = "none"
SYMMETRY WorkerSymmetry
INVARIANT NoUndefinedBehaviour
