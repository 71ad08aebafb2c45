CONSTANTS
    c1 = c1
    p1 = p1
    f1 = f1
    f2 = f2
    None = None
    Canonical = {c1}
    Peers = {p1}
    Files = {f1, f2}
    MaxReboots = 1
SPECIFICATION FairSpec
INVARIANTS
    TypeOK
    ReportedIsValid
    InstalledStaysValid
    LeakIsExplained
PROPERTIES
    ImplementsView
    Termination
