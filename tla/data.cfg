SPECIFICATION DataSpec
CONSTANTS
    p = p
    m = m
    n = n
    l1 = l1
    l2 = l2
    Names = {p, m, n}
    Loaders = {l1}
    Interfaces <- OneEnsemble
    Graphs <- AllGraphs
    MaxLoads = 1
    c1 = c1
    c2 = c2
    Clients <- TwoClients
    Bodies <- AllBodies
    Inputs <- TwoInputs
    Outputs <- OutputNames
    ElementSize = 2
    MaxBatchSize = 4
    SizeMax = 15
    RawNames <- FewNames
    FileNames <- FewFiles
    BackendOf <- FewBackends
    Priority <- TensorrtFirst
    MaxChanges = 1
CHECK_DEADLOCK FALSE
INVARIANTS
    MovesLikeCopies
    AcceptedGraphRuns
    OwnRows
    InputsAreTheirOwn
    AdmittedIsExecutable
    AdmittedCounted
    ScanServesHighest
    ResolveAgreesWithScan
