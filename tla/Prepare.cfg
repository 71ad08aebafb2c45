CONSTANTS
    n1 = n1
    n2 = n2
    n3 = n3
    d = d
    wide = wide
    narrow = narrow
    None = None
    Preparations = {wide, narrow}
    Nodes = {n1, n2, n3}
    Candidates <- MCCandidates
    DryRun = {}
    N = 2
    Gpus <- MCGpus
    Bytes <- MCBytes
    Paths = {d}
    PathOf <- MCPathOf
    GpuCount <- MCGpuCount
    Left <- MCLeft
    MinLeft = 2
    WeightsEnabled = TRUE
    ModelBytes = 4
    KvReserve = 0
    WeightReserve = 1
    EngineBytes = {3, 4}
    Capacity <- MCCapacity
    InitFree <- MCInitFree
    InitAt <- MCInitAt
    InitWeights <- MCInitWeights
    InitDisk = {"unregistered"}
    Unsteady = {n2}
    MaxUpsets = 1
SPECIFICATION FairSpec
INVARIANTS
    TypeOK
    PlanIsBest
    DoneIsPrepared
PROPERTIES
    ShortageIsOthers
    Termination
