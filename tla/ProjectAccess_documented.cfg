SPECIFICATION AccessSpec
CONSTANTS
    alice = alice
    bob = bob
    carol = carol
    shop = shop
    depot = depot
    r1 = r1
    r2 = r2
    r3 = r3
    Nobody = Nobody
    Home = shop
    Users <- TwoUsers
    Projects <- TwoProjects
    Requests <- TwoRequests
    Kinds <- ReadOnly
    SeedRoles <- SomeRoles
    SeedTeams <- NoTeam
    SeedGrants <- SomeGrants
SYMMETRY Symmetry2
INVARIANTS
    MemberOrGrantSuffices
