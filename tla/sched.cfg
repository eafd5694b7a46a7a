SPECIFICATION AnySpec
CONSTANTS
    r1 = r1
    r2 = r2
    r3 = r3
    w1 = w1
    w2 = w2
    Requests <- ThreeRequests
    Workers <- TwoWorkers
    MaxQueueSize = 2
    Batching = TRUE
    Retires = FALSE
    MaxBatchSize = 2
    Preferred = {}
    Shape <- OneShape
    BatchSize <- SkewedSizes
    NoInputs = "none"
SYMMETRY SkewedSymmetry
CHECK_DEADLOCK FALSE
INVARIANTS
    TypeOK
    AnsweredOnce
    NoLostRequest
    QueueBounded
    BatchWellFormed
    ExitedMeansEmpty
    DrainAnswersAccepted
    ExecutorExclusive
    AnswersAreCounted
PROPERTIES
    ImplementsService
