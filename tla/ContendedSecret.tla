--------------------------- MODULE ContendedSecret ---------------------------
(***************************************************************************)
(* What the version history of one secret promises where rotations and     *)
(* rollbacks meet.  As in VersionedSecret, values are only appended and a  *)
(* revocation is final, but a write takes effect in two instants: its      *)
(* caller looks at the secret, and later makes one version current in      *)
(* place of those it saw.  Rotations exclude one another in between; a     *)
(* rollback excludes nobody, and replaces nothing that was added since it  *)
(* looked.  So a secret has a second current version exactly where a       *)
(* writer had not seen what another one wrote.                             *)
(***************************************************************************)
EXTENDS Naturals, Sequences

CONSTANTS
    Values,       \* the stored (encrypted) values
    Callers,      \* who may write
    NoOne         \* not a caller

VARIABLES
    history,      \* history[v] is the value of version v
    current,      \* the versions a read may return
    status,       \* "absent", "active" or "revoked"
    seen,         \* seen[c]: the versions caller c is about to replace
    turn          \* the caller that is rotating

contendedVars == << history, current, status, seen, turn >>

Init ==
    /\ history \in Seq(Values)
    /\ \/ history = << >> /\ current = {} /\ status = "absent"
       \/ \E v \in DOMAIN history : current = {v} /\ status = "active"
    /\ seen = [c \in Callers |-> {}]
    /\ turn = NoOne

Create(value) ==
    /\ status = "absent"
    /\ history' = << value >>
    /\ current' = {1}
    /\ status' = "active"
    /\ UNCHANGED << seen, turn >>

\* Version v takes the place of those the caller saw.
Replace(c, v) ==
    /\ current' = (current \ seen[c]) \cup {v}
    /\ seen' = [seen EXCEPT ![c] = {}]

LookToRotate(c) ==
    /\ turn = NoOne
    /\ turn' = c
    /\ seen' = [seen EXCEPT ![c] = current]
    /\ UNCHANGED << history, current, status >>

Rotate(c, value) ==
    /\ turn = c
    /\ status # "absent"
    /\ history' = Append(history, value)
    /\ Replace(c, Len(history) + 1)
    /\ turn' = NoOne
    /\ UNCHANGED status

LookToRollback(c) ==
    /\ turn # c
    /\ seen' = [seen EXCEPT ![c] = DOMAIN history]
    /\ UNCHANGED << history, current, status, turn >>

Rollback(c) ==
    /\ turn # c
    /\ \E version \in seen[c] : Replace(c, version)
    /\ UNCHANGED << history, status, turn >>

GiveUp(c) ==
    /\ seen' = [seen EXCEPT ![c] = {}]
    /\ turn' = IF turn = c THEN NoOne ELSE turn
    /\ UNCHANGED << history, current, status >>

Revoke ==
    /\ status # "absent"
    /\ status' = "revoked"
    /\ UNCHANGED << history, current, seen, turn >>

Next ==
    \/ \E value \in Values : Create(value) \/ \E c \in Callers : Rotate(c, value)
    \/ \E c \in Callers : LookToRotate(c) \/ LookToRollback(c) \/ Rollback(c) \/ GiveUp(c)
    \/ Revoke

Spec == Init /\ [][Next]_contendedVars
==============================================================================
