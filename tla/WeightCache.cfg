CONSTANTS
    w1 = w1
    w2 = w2
    index = index
    shard = shard
    None = None
    Workers = {w1, w2}
    Files = {index, shard}
    Identity = {index}
    MaxEdits = 1
    MaxReboots = 1
SPECIFICATION FairSpec
INVARIANTS
    TypeOK
    ReportedIsDeclared
    InstalledStaysReady
    LeakIsExplained
PROPERTIES
    ImplementsView
    Termination
