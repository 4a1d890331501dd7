SPECIFICATION Spec
CONSTANTS
    alice = alice
    bob = bob
    carol = carol
    shop = shop
    r1 = r1
    r2 = r2
    r3 = r3
    Nobody = Nobody
    Users <- TwoUsers
    Projects <- OneProject
    Requests <- TwoRequests
    Kinds <- RemovalOnly
    SeedRoles <- TwoAdmins
    SeedTeams <- NoTeam
SYMMETRY Symmetry2
PROPERTIES
    ProjectKeepsAdmin
