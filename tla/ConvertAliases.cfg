CONSTANTS
    NumLayers = 4
    NumHeads = 2
    Nothing = Nothing
    Topologies <- MCAliases
SPECIFICATION Spec
INVARIANTS
    ViewsAreRight
