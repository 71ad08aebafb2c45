CONSTANTS
    n1 = n1
    n2 = n2
    p1 = p1
    p2 = p2
    big = big
    small = small
    two = two
    one = one
    m0 = m0
    m1 = m1
    m2 = m2
    None = None
    Hydrations = {two, one}
    Nodes = {n1, n2}
    Places = {p1, p2}
    Kinds = {big, small}
    NodeOf <- MCNodeOf
    Plan <- MCPlan
    Mats = {m0, m1, m2}
    MatOf <- MCMatOf
    AllowBusy = {one}
    PeerEnabled = {two, one}
    Fallback = {two}
    Known <- MCKnown
    MaxReboots = 1
SPECIFICATION Spec
PROPERTIES
    SlowPeersFallBack
