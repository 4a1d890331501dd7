--------------------------- MODULE MCProjectAccess ----------------------------
(* Small instances of ProjectAccess for TLC. *)
EXTENDS ProjectAccess, TLC

CONSTANTS alice, bob, carol, shop, depot, r1, r2, r3

TwoUsers == {alice, bob}
TwoProjects == {shop, depot}
OneProject == {shop}
TwoRequests == {r1, r2}
ThreeRequests == {r1, r2, r3}

\* The calls that change a membership that exists, beside all of access.
RoleChanges == {"addMember", "removeMember"}
SomeKinds == RoleChanges \cup AccessCalls
ReadOnly == {"read"}

\* alice is the admin of shop, bob has any role or none there and is the admin
\* of depot.
SomeRoles == {[p \in TwoProjects |-> [u \in Users |->
        IF p = shop THEN (IF u = alice THEN "admin" ELSE x)
        ELSE IF u = bob THEN "admin" ELSE "none"]] :
            x \in {"none", "developer", "manager"}}
NoTeam == {NoRoles}

\* Any grant of bob.
SomeGrants == {[u \in Users |-> IF u = bob THEN g ELSE "none"] : g \in Grants}

\* Requests differ only in what they are asked to do.
Symmetry2 == Permutations(TwoRequests)
Symmetry3 == Permutations(ThreeRequests)
==============================================================================
