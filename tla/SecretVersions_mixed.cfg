SPECIFICATION Spec
CONSTANTS
    r1 = r1
    r2 = r2
    r3 = r3
    r4 = r4
    None = None
    Requests <- ThreeRequests
    Kinds <- AllKinds
    Targets <- Targets3
    Seed = 2
SYMMETRY Symmetry3
INVARIANTS
    TypeOK
    AtLeastOneCurrent
    Contiguous
    NoDuplicateNumber
    AnswerMatchesEffect
    RevokedRefused
PROPERTIES
    ImplementsContendedSecret
