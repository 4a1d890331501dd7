SPECIFICATION Spec
CONSTANTS
    r1 = r1
    r2 = r2
    r3 = r3
    r4 = r4
    None = None
    Requests <- ThreeRequests
    Kinds <- Writes
    Targets <- Targets2
    Seed = 1
SYMMETRY Symmetry3
INVARIANTS
    EventWithOperation
