--------------------------- MODULE MCSecretVersions ---------------------------
(* Small instances of SecretVersions for TLC. *)
EXTENDS SecretVersions, TLC

CONSTANTS r1, r2, r3, r4

ThreeRequests == {r1, r2, r3}
FourRequests == {r1, r2, r3, r4}

AllKinds == {"create", "rotate", "rollback", "revoke", "read"}
NoRollback == {"create", "rotate", "revoke", "read"}
Writes == {"rotate", "rollback"}

OneTarget == {1}
Targets2 == {1, 2}
Targets3 == {1, 2, 3}

\* Requests differ only in what they are asked to do.
Symmetry3 == Permutations(ThreeRequests)
Symmetry4 == Permutations(FourRequests)
==============================================================================
