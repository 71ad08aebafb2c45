CONSTANTS
    p1 = p1
    p2 = p2
    lo = lo
    hi = hi
    split = split
    single = single
    short = short
    None = None
    Pubs = {split, single, short}
    Pages <- MCPages
    Parts <- MCParts
    Scatter <- MCScatter
    MaxLosses = 1
SPECIFICATION FairSpec
INVARIANTS
    TypeOK
    ArtifactIsWhole
    CompleteIsBacked
    LeakIsExplained
PROPERTIES
    ArtifactImmutable
    ImplementsStore
    Termination
