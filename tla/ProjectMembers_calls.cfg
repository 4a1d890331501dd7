SPECIFICATION Spec
CONSTANTS
    alice = alice
    bob = bob
    carol = carol
    shop = shop
    r1 = r1
    r2 = r2
    r3 = r3
    Nobody = Nobody
    Users <- ThreeUsers
    Projects <- OneProject
    Requests <- TwoRequests
    Kinds <- MemberCalls
    SeedRoles <- SomeRoles
    SeedTeams <- SomeTeams
SYMMETRY Symmetry2
INVARIANTS
    TypeOK
PROPERTIES
    PowerlessAreHarmless
    OrphanedForGood
    RemoverStays
