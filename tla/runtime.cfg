SPECIFICATION ReportOneSpec
CONSTANTS
    m1 = m1
    t1 = t1
    t2 = t2
    c1 = c1
    Names <- OneName
    Threads <- TwoThreads
    Clients <- OneClient
    Catalog <- Offered
    Versions = {"1", "2"}
    Servable = {"1"}
    DefaultVersion = "1"
    RepositoryMode = TRUE
    ExplicitMode = TRUE
    MaxRequests = 3
    MaxCalls = 6
    MayThrow = FALSE
SYMMETRY RuntimeSymmetry
CHECK_DEADLOCK FALSE
INVARIANTS
    RuntimeTypeOK
    BuildOwned
    ServingAccepts
    PublishedIsCurrent
    SettledNotUnloaded
    ConfigOfServing
    AcceptingIsReferenced
    ServedVersion
PROPERTIES
    OnlyUnloadEndsServing
    ReadinessHolds
