--------------------------- MODULE VersionedSecret ---------------------------
(***************************************************************************)
(* What the version history of one secret promises its users: an           *)
(* append-only list of values, one of which is the current one, and a      *)
(* status that is revoked once and for all.  Every operation takes effect  *)
(* at one instant.  SecretVersions shows which requests, running           *)
(* concurrently on PostgreSQL, implement it and which do not.              *)
(***************************************************************************)
EXTENDS Naturals, Sequences

CONSTANT Values   \* the stored (encrypted) values

VARIABLES
    history,      \* history[v] is the value of version v
    current,      \* the version a read returns, 0 before the first one
    status        \* "absent", "active" or "revoked"

TypeOK ==
    /\ history \in Seq(Values)
    /\ current \in 0 .. Len(history)
    /\ status \in {"absent", "active", "revoked"}

Init ==
    /\ history \in Seq(Values)
    /\ current \in 0 .. Len(history)
    /\ current = 0 <=> history = << >>
    /\ status = IF history = << >> THEN "absent" ELSE "active"

Create(value) ==
    /\ status = "absent"
    /\ history' = << value >>
    /\ current' = 1
    /\ status' = "active"

Rotate(value) ==
    /\ status # "absent"
    /\ history' = Append(history, value)
    /\ current' = Len(history) + 1
    /\ UNCHANGED status

Rollback(version) ==
    /\ current' = version
    /\ UNCHANGED << history, status >>

Revoke ==
    /\ status # "absent"
    /\ status' = "revoked"
    /\ UNCHANGED << history, current >>

Next ==
    \/ \E value \in Values : Create(value) \/ Rotate(value)
    \/ \E version \in DOMAIN history : Rollback(version)
    \/ Revoke

Spec == Init /\ [][Next]_<< history, current, status >>
==============================================================================
