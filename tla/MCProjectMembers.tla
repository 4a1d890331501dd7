--------------------------- MODULE MCProjectMembers ---------------------------
(* Small instances of ProjectMembers for TLC. *)
EXTENDS ProjectMembers, TLC

CONSTANTS alice, bob, carol, shop, r1, r2, r3

TwoUsers == {alice, bob}
ThreeUsers == {alice, bob, carol}
OneProject == {shop}
TwoRequests == {r1, r2}
ThreeRequests == {r1, r2, r3}

RemovalOnly == {"removeMember"}

\* Nothing yet, or a project of each of these shapes, by the role of each user.
SomeRoles == {[p \in {shop} |-> NoRoles]} \cup
    {[p \in {shop} |-> [u \in Users |->
        IF u = alice THEN "admin" ELSE IF u = bob THEN x ELSE y]] :
            x \in {"admin", "developer"}, y \in {"none", "manager"}}
TwoAdmins == {[p \in {shop} |-> [u \in Users |-> "admin"]]}

\* No team, or one of bob and carol.
SomeTeams == {NoRoles,
    [u \in Users |-> IF u = alice THEN "none" ELSE IF u = bob THEN "owner" ELSE "member"]}
NoTeam == {NoRoles}

\* Requests differ only in what they are asked to do.
Symmetry2 == Permutations(TwoRequests)
Symmetry3 == Permutations(ThreeRequests)
==============================================================================
