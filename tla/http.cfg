SPECIFICATION TwoUnlike
CONSTANTS
    c1 = c1
    c2 = c2
    Clients = {c1, c2}
    Messages <- SomeMessages
    BufferSize = 3
    MaxRequestBytes = 6
    Word = 16
CHECK_DEADLOCK FALSE
INVARIANTS
    FramingExact
    NoThreadOutlivesServer
PROPERTIES
    StopReturns
