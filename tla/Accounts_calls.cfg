SPECIFICATION Spec
CONSTANTS
    alice = alice
    bob = bob
    bot = bot
    r1 = r1
    r2 = r2
    r3 = r3
    Nobody = Nobody
    Users <- TwoUsers
    Seeds <- EmptyOrBoth
    Accounts <- OneAccount
    Requests <- ThreeRequests
    Kinds <- AllKinds
SYMMETRY Symmetry3
INVARIANTS
    TypeOK
    SomeAdmin
    SoleAdminNotBlocked
    BarredStaysOut
    OneRegistration
PROPERTIES
    IdentitiesKept
