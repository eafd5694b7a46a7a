SPECIFICATION HistorySpec
CONSTANTS
    r1 = r1
    r2 = r2
    r3 = r3
    w1 = w1
    w2 = w2
    Requests = {r1, r2, r3}
    Workers = {w1, w2}
    ExecutorCount = 2
    MaxQueueSize = 1
    ContextLength = 4
    MaxTokens = 2
    MemoryBudget = 2
    Prompt <- Prompts
    Streaming = {r1}
    Retires = TRUE
SYMMETRY Symmetry
CHECK_DEADLOCK FALSE
INVARIANTS
    TypeOK
    SlotsAreHeld
    EvenShare
    DrainLeavesNothing
    LateTokensOnlyAfterTimeout
PROPERTIES
    ImplementsService
