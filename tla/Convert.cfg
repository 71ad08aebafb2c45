CONSTANTS
    NumLayers = 4
    NumHeads = 2
    Nothing = Nothing
    Topologies <- MCTopologies
SPECIFICATION Spec
INVARIANTS
    TypeOK
    CanonicalIsRight
    ViewsAreRight
    PiecesAddUp
