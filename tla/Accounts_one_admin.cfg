SPECIFICATION Spec
CONSTANTS
    alice = alice
    bob = bob
    bot = bot
    r1 = r1
    r2 = r2
    r3 = r3
    Nobody = Nobody
    Users <- TwoUsers
    Seeds <- EmptyOrBoth
    Accounts <- NoAccounts
    Requests <- TwoRequests
    Kinds <- Registration
SYMMETRY Symmetry2
INVARIANTS
    OneAdmin
