SPECIFICATION Spec
CONSTANTS
    r1 = r1
    r2 = r2
    r3 = r3
    r4 = r4
    None = None
    Requests <- FourRequests
    Kinds <- NoRollback
    Targets <- Targets2
    Seed = 0
INVARIANTS
    OneCurrent
    ReadFresh
PROPERTIES
    ImplementsVersionedSecret
SYMMETRY Symmetry4
