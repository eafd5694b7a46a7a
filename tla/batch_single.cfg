SPECIFICATION PathSpec
CONSTANTS
    c1 = c1
    c2 = c2
    Clients <- TwoClients
    Bodies <- AllBodies
    Inputs <- TwoInputs
    Outputs <- OutputNames
    ElementSize = 2
    MaxBatchSize = 4
    SizeMax = 15
CHECK_DEADLOCK FALSE
INVARIANT
    BatchLikeSingle
