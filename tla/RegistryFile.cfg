CONSTANTS
    w1 = w1
    w2 = w2
    r1 = r1
    None = None
    Txns <- MCTxns
    Writers <- MCWriters
SPECIFICATION FairSpec
INVARIANTS
    TypeOK
    NeverTorn
    FreshView
PROPERTIES
    ForeignUntouched
    ImplementsAtomic
    Released
