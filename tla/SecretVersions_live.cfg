SPECIFICATION FairSpec
CONSTANTS
    r1 = r1
    r2 = r2
    r3 = r3
    r4 = r4
    None = None
    Requests <- ThreeRequests
    Kinds <- Writes
    Targets <- OneTarget
    Seed = 2
PROPERTIES
    EveryRequestAnswered
