---------------------------- MODULE SecretVersions ----------------------------
(***************************************************************************)
(* The version history of one secret (one row of `secrets` and its rows of *)
(* `secret_versions`) under concurrent requests, each served by its own    *)
(* goroutine: create, rotate, rollback, revoke and read                    *)
(* (internal/secret/service.go on internal/storage/secret_repo.go).        *)
(*                                                                         *)
(* The database is PostgreSQL at its default level, READ COMMITTED, which  *)
(* is what BeginTxx(ctx, nil) and a bare ExecContext ask for:              *)
(*   - a statement sees the rows committed when it starts, and nothing of  *)
(*     other transactions still running;                                   *)
(*   - UPDATE visits the rows its snapshot selects one by one, waits for   *)
(*     the transaction that holds a row, then works on the newest          *)
(*     committed form of the row, re-evaluating its WHERE clause on it;    *)
(*   - the rows an UPDATE has visited stay locked until its transaction    *)
(*     ends; of requests that wait for one another one is aborted.         *)
(* The order in which UPDATE visits rows is not specified by the SQL, so   *)
(* any order is possible here.                                             *)
(*                                                                         *)
(* Who may do what is the subject of ProjectAccess: here the role check    *)
(* of a request has an arbitrary outcome.                                  *)
(***************************************************************************)
EXTENDS Integers

CONSTANTS
    Requests,     \* the HTTP requests, each one run of a service method
    Kinds,        \* the methods the requests may call
    Targets,      \* the version numbers a rollback may ask for
    Seed,         \* how many versions earlier requests left, 0: no secret
    None          \* no request; as a value, one stored by an earlier request

ASSUME Assumption ==
    /\ None \notin Requests
    /\ Kinds \subseteq {"create", "rotate", "rollback", "revoke", "read"}
    /\ Targets \subseteq Nat \ {0}
    /\ Seed \in Nat

VARIABLES
    secret,       \* committed status of the row of `secrets`, or "absent"
    versions,     \* committed rows of secret_versions, by version number
    lock,         \* the transaction that holds the row of `secrets`
    pc,           \* what each request does next
    kind,         \* the method it runs
    num,          \* the version number it asks for, computed or was given
    todo,         \* rows its running UPDATE has still to visit
    writes,       \* rows its transaction has visited or inserted
    result,       \* its answer
    logged,       \* requests whose audit event is stored
    born          \* history variable: the committed state when it started

vars == << secret, versions, lock, pc, kind, num, todo, writes, result,
           logged, born >>

Row == [value : Requests \cup {None}, current : BOOLEAN]

NoRows == [v \in {} |-> [value |-> None, current |-> FALSE]]

\* The rows of base with those of upd inserted or replaced.
Overlay(base, upd) ==
    [v \in DOMAIN base \cup DOMAIN upd |->
        IF v \in DOMAIN upd THEN upd[v] ELSE base[v]]

OneRow(v, row) == [x \in {v} |-> row]

CurrentVersions == {v \in DOMAIN versions : versions[v].current}

\* COALESCE(MAX(version), 0)
MaxOf(numbers) ==
    IF numbers = {} THEN 0
    ELSE CHOOSE v \in numbers : \A w \in numbers : w <= v

MaxVersion == MaxOf(DOMAIN versions)

\* Row v of secret_versions is held by the transaction of a request other
\* than r.
HeldByOther(r, v) == \E q \in Requests \ {r} : v \in DOMAIN writes[q]

Init ==
    /\ \/ Seed = 0 /\ versions = NoRows
       \/ \E c \in 1 .. Seed :
            versions = [v \in 1 .. Seed |-> [value |-> None, current |-> v = c]]
    /\ secret = IF Seed = 0 THEN "absent" ELSE "active"
    /\ lock = None
    /\ pc = [r \in Requests |-> "idle"]
    /\ kind = [r \in Requests |-> "none"]
    /\ num = [r \in Requests |-> 0]
    /\ todo = [r \in Requests |-> {}]
    /\ writes = [r \in Requests |-> NoRows]
    /\ result = [r \in Requests |-> "none"]
    /\ logged = {}
    /\ born = [r \in Requests |-> [last |-> 0, revoked |-> FALSE]]
-----------------------------------------------------------------------------
(* How a request begins, moves on and ends. *)

Goto(r, from, to) ==
    /\ pc[r] = from
    /\ pc' = [pc EXCEPT ![r] = to]

Answer(r, a) == result' = [result EXCEPT ![r] = a]

\* tx.Rollback, or the server aborting the transaction: what it wrote is
\* gone, what it held is free.
Release(r) ==
    /\ lock' = IF lock = r THEN None ELSE lock
    /\ writes' = [writes EXCEPT ![r] = NoRows]
    /\ todo' = [todo EXCEPT ![r] = {}]

DB == << secret, versions >>
Tx == << lock, writes, todo >>
Call == << kind, born >>

\* A request arrives.  The handler refuses a rollback to a version below 1.
Start(r) ==
    /\ \E k \in Kinds :
        /\ kind' = [kind EXCEPT ![r] = k]
        /\ Goto(r, "idle", IF k = "create" THEN "insertSecret" ELSE "fetch")
        /\ IF k = "rollback"
           THEN \E t \in Targets : num' = [num EXCEPT ![r] = t]
           ELSE UNCHANGED num
    /\ born' = [born EXCEPT ![r] = [last |-> MaxVersion,
                                    revoked |-> secret = "revoked"]]
    /\ UNCHANGED << DB, Tx, result, logged >>

\* What follows the role check.
FirstStep == [rotate |-> "lockSecret", rollback |-> "checkTarget",
              revoke |-> "revoke", read |-> "readValue"]

\* Mutant of Fetch: GetSecretValue without its status check.
FetchAnyStatus(r) ==
    /\ secret # "absent"
    /\ Goto(r, "fetch", FirstStep[kind[r]])
    /\ UNCHANGED << DB, Tx, Call, num, result, logged >>

\* GetSecretByID, the status check of a read, and the role check: the
\* request goes on to its own statements.
Fetch(r) ==
    /\ secret # "absent"
    /\ kind[r] = "read" => secret = "active"
    /\ Goto(r, "fetch", FirstStep[kind[r]])
    /\ UNCHANGED << DB, Tx, Call, num, result, logged >>

\* The secret is missing, or a read finds it revoked or past its expiry,
\* which may be at any time: no event is logged.
Refuse(r) ==
    /\ secret = "absent" \/ kind[r] = "read"
    /\ Goto(r, "fetch", "done")
    /\ Answer(r, IF secret = "absent" THEN "notFound" ELSE "revoked")
    /\ UNCHANGED << DB, Tx, Call, num, logged >>

\* The role check fails.  Only a denied read of a value is logged.
Deny(r) ==
    /\ kind[r] = "read" => secret = "active"
    /\ \/ /\ secret # "absent"
          /\ Goto(r, "fetch", IF kind[r] = "read" THEN "log" ELSE "done")
       \/ Goto(r, "insertSecret", "done")
    /\ Answer(r, "denied")
    /\ UNCHANGED << DB, Tx, Call, num, logged >>
-----------------------------------------------------------------------------
(* CreateSecretWithVersion *)

\* INSERT INTO secrets waits for a running insert of the same name.
InsertSecret(r) ==
    /\ lock = None
    /\ secret = "absent"
    /\ Goto(r, "insertSecret", "insertVersion")
    /\ lock' = r
    /\ num' = [num EXCEPT ![r] = 1]
    /\ UNCHANGED << DB, writes, todo, Call, result, logged >>

\* ... and fails with 23505 when one is committed.
NameTaken(r) ==
    /\ lock = None
    /\ secret # "absent"
    /\ Goto(r, "insertSecret", "done")
    /\ Answer(r, "conflict")
    /\ UNCHANGED << DB, Tx, Call, num, logged >>
-----------------------------------------------------------------------------
(* RotateInTx *)

\* Mutant of LockSecret: a plain SELECT, without FOR UPDATE.
LockNothing(r) ==
    /\ lock = None
    /\ Goto(r, "lockSecret", "pickNumber")
    /\ UNCHANGED << DB, Tx, Call, num, result, logged >>

\* SELECT id FROM secrets ... FOR UPDATE
LockSecret(r) ==
    /\ lock = None
    /\ Goto(r, "lockSecret", "pickNumber")
    /\ lock' = r
    /\ UNCHANGED << DB, writes, todo, Call, num, result, logged >>

\* Mutant of PickNumber: the number is incremented twice.
PickNumberTwice(r) ==
    /\ Goto(r, "pickNumber", "clear")
    /\ num' = [num EXCEPT ![r] = MaxVersion + 2]
    /\ UNCHANGED << DB, Tx, Call, result, logged >>

\* SELECT COALESCE(MAX(version), 0) + 1
PickNumber(r) ==
    /\ Goto(r, "pickNumber", "clear")
    /\ num' = [num EXCEPT ![r] = MaxVersion + 1]
    /\ UNCHANGED << DB, Tx, Call, result, logged >>

\* Mutant of BeginClear: the UPDATE spares the newest version.
BeginClearOlder(r) ==
    /\ Goto(r, "clear", "update")
    /\ todo' = [todo EXCEPT ![r] = CurrentVersions \ {MaxVersion}]
    /\ UNCHANGED << DB, lock, writes, Call, num, result, logged >>

\* UPDATE ... SET is_current = FALSE WHERE is_current = TRUE takes its
\* snapshot.
BeginClear(r) ==
    /\ Goto(r, "clear", "update")
    /\ todo' = [todo EXCEPT ![r] = CurrentVersions]
    /\ UNCHANGED << DB, lock, writes, Call, num, result, logged >>

\* INSERT INTO secret_versions waits for a running insert of the same
\* number, and fails when one is committed: UNIQUE (secret_id, version).
InsertVersion(r) ==
    /\ ~HeldByOther(r, num[r])
    /\ IF num[r] \in DOMAIN versions
       THEN /\ Goto(r, "insertVersion", "done")
            /\ Answer(r, "duplicate")
            /\ Release(r)
       ELSE /\ Goto(r, "insertVersion", "commit")
            /\ writes' = [writes EXCEPT ![r] =
                 Overlay(@, OneRow(num[r], [value |-> r, current |-> TRUE]))]
            /\ UNCHANGED << lock, todo, result >>
    /\ UNCHANGED << DB, Call, num, logged >>
-----------------------------------------------------------------------------
(* RollbackSecret and SetCurrentVersion *)

\* Mutant of CheckTarget: the error of GetVersionByNumber is ignored.
CheckNothing(r) ==
    /\ Goto(r, "checkTarget", "set")
    /\ UNCHANGED << DB, Tx, Call, num, result, logged >>

\* GetVersionByNumber
CheckTarget(r) ==
    /\ IF num[r] \in DOMAIN versions
       THEN Goto(r, "checkTarget", "set") /\ UNCHANGED result
       ELSE Goto(r, "checkTarget", "done") /\ Answer(r, "notFound")
    /\ UNCHANGED << DB, Tx, Call, num, logged >>

\* UPDATE ... SET is_current = (version = $1) WHERE secret_id = $2 takes its
\* snapshot.
BeginSet(r) ==
    /\ Goto(r, "set", "update")
    /\ todo' = [todo EXCEPT ![r] = DOMAIN versions]
    /\ UNCHANGED << DB, lock, writes, Call, num, result, logged >>
-----------------------------------------------------------------------------
(* The two UPDATE statements, row by row, and the end of a transaction *)

\* Mutant of Updated: a rollback copies the old value over the newer ones.
UpdatedByCopy(r, v) ==
    [versions[v] EXCEPT !.value = IF kind[r] = "rollback" THEN versions[num[r]].value ELSE @]

\* The row as the statement leaves it: the WHERE clause of a rotation is
\* re-evaluated on the newest committed row, and a row that fails it stays
\* as it is, locked.
Updated(r, v) ==
    [versions[v] EXCEPT !.current = kind[r] = "rollback" /\ v = num[r]]

UpdateRow(r) ==
    /\ pc[r] = "update"
    /\ \E v \in todo[r] :
        /\ ~HeldByOther(r, v)
        /\ writes' = [writes EXCEPT ![r] = Overlay(@, OneRow(v, Updated(r, v)))]
        /\ todo' = [todo EXCEPT ![r] = @ \ {v}]
    /\ UNCHANGED << DB, lock, pc, Call, num, result, logged >>

\* Mutant of EndUpdate: the statements of a rotation commit one by one.
EndUpdateAutocommit(r) ==
    /\ todo[r] = {}
    /\ Goto(r, "update", IF kind[r] = "rotate" THEN "insertVersion" ELSE "commit")
    /\ versions' = Overlay(versions, writes[r])
    /\ writes' = [writes EXCEPT ![r] = NoRows]
    /\ UNCHANGED << secret, lock, todo, Call, num, result, logged >>

\* No row is left.  A rollback is a statement of its own and commits, a
\* rotation goes on with its INSERT.
EndUpdate(r) ==
    /\ todo[r] = {}
    /\ Goto(r, "update", IF kind[r] = "rotate" THEN "insertVersion" ELSE "commit")
    /\ UNCHANGED << DB, Tx, Call, num, result, logged >>

\* Mutant of Commit: the error of tx.Commit is ignored.
CommitErrorIgnored(r) ==
    /\ Goto(r, "commit", "log") /\ Answer(r, "ok")
    /\ \/ UNCHANGED DB
       \/ /\ versions' = Overlay(versions, writes[r])
          /\ secret' = IF kind[r] = "create" THEN "active" ELSE secret
    /\ Release(r)
    /\ UNCHANGED << Call, num, logged >>

\* COMMIT.  The reply may be lost: the caller then sees an error and logs
\* nothing.
Commit(r) ==
    /\ \/ Goto(r, "commit", "log") /\ Answer(r, "ok")
       \/ Goto(r, "commit", "done") /\ Answer(r, "unknown")
    /\ versions' = Overlay(versions, writes[r])
    /\ secret' = IF kind[r] = "create" THEN "active" ELSE secret
    /\ Release(r)
    /\ UNCHANGED << Call, num, logged >>

\* Mutant of RevokeRow: a status that the table does not have.
RevokeAsDeleted(r) ==
    /\ lock = None
    /\ Goto(r, "revoke", "log") /\ Answer(r, "ok")
    /\ secret' = "deleted"
    /\ UNCHANGED << versions, Tx, Call, num, logged >>

\* UpdateSecretStatus is one statement on one row: it waits for a rotation
\* that holds the row.
RevokeRow(r) ==
    /\ lock = None
    /\ \/ Goto(r, "revoke", "log") /\ Answer(r, "ok")
       \/ Goto(r, "revoke", "done") /\ Answer(r, "unknown")
    /\ secret' = "revoked"
    /\ UNCHANGED << versions, Tx, Call, num, logged >>

\* Mutant of ReadValue: the query lacks AND is_current = TRUE.
ReadAnyVersion(r) ==
    /\ \E v \in DOMAIN versions : num' = [num EXCEPT ![r] = v]
    /\ Goto(r, "readValue", "log")
    /\ Answer(r, "ok")
    /\ UNCHANGED << DB, Tx, Call, logged >>

\* GetCurrentVersion: LIMIT 1 without an ORDER BY takes any current row; no
\* row is ErrNotFound.
ReadValue(r) ==
    /\ IF CurrentVersions = {}
       THEN /\ Goto(r, "readValue", "done")
            /\ Answer(r, "notFound")
            /\ UNCHANGED num
       ELSE /\ Goto(r, "readValue", "log")
            /\ Answer(r, "ok")
            /\ \E v \in CurrentVersions : num' = [num EXCEPT ![r] = v]
    /\ UNCHANGED << DB, Tx, Call, logged >>
-----------------------------------------------------------------------------
(* The audit event, failures, and the whole *)

\* audit.Log after the operation, its error ignored.  The foreign key on
\* secrets takes a share lock, so the insert waits for a rotation.
Log(r) ==
    /\ Goto(r, "log", "done")
    /\ \/ lock = None /\ logged' = logged \cup {r}
       \/ UNCHANGED logged
    /\ UNCHANGED << DB, Tx, Call, num, result >>

Running(r) == pc[r] \notin {"idle", "done"}

\* Mutant of Fail: no deferred tx.Rollback, the transaction stays open.
FailWithoutRollback(r) ==
    /\ Running(r)
    /\ pc' = [pc EXCEPT ![r] = "done"]
    /\ Answer(r, IF pc[r] = "log" THEN "unknown" ELSE "error")
    /\ UNCHANGED << DB, Tx, Call, num, logged >>

\* The request is cancelled, a statement fails, or the server dies: an open
\* transaction is rolled back.  After the commit only the reply is lost.
Fail(r) ==
    /\ Running(r)
    /\ pc' = [pc EXCEPT ![r] = "done"]
    /\ Answer(r, IF pc[r] = "log" THEN "unknown" ELSE "error")
    /\ Release(r)
    /\ UNCHANGED << DB, Call, num, logged >>

\* Requests that all wait for rows held by one another.
Deadlocked(S) ==
    /\ S # {}
    /\ \A r \in S :
        /\ pc[r] = "update" /\ todo[r] # {}
        /\ \A v \in todo[r] : \E q \in S \ {r} : v \in DOMAIN writes[q]

\* PostgreSQL's deadlock detector aborts one of them.
DeadlockVictim(r) ==
    /\ \E S \in SUBSET Requests : r \in S /\ Deadlocked(S)
    /\ pc' = [pc EXCEPT ![r] = "done"]
    /\ Answer(r, "deadlock")
    /\ Release(r)
    /\ UNCHANGED << DB, Call, num, logged >>

\* A step of the service for a running request, failures apart.
Serve(r) ==
    \/ Fetch(r) \/ Refuse(r) \/ Deny(r)
    \/ InsertSecret(r) \/ NameTaken(r)
    \/ LockSecret(r) \/ PickNumber(r) \/ BeginClear(r)
    \/ InsertVersion(r)
    \/ CheckTarget(r) \/ BeginSet(r)
    \/ UpdateRow(r) \/ EndUpdate(r) \/ Commit(r)
    \/ RevokeRow(r) \/ ReadValue(r)
    \/ Log(r) \/ DeadlockVictim(r)

\* Every request is answered: the model stops, the server waits for more.
AllDone == (\A r \in Requests : pc[r] = "done") /\ UNCHANGED vars

Next ==
    \/ \E r \in Requests : Start(r) \/ Serve(r) \/ Fail(r)
    \/ AllDone

Spec == Init /\ [][Next]_vars

\* Goroutines are scheduled and PostgreSQL answers; no request has to come
\* and nothing has to fail.
FairSpec == Spec /\ \A r \in Requests : WF_vars(Serve(r))
-----------------------------------------------------------------------------
(* Properties *)

Status == {"absent", "active", "revoked"}
Steps == {"idle", "fetch", "insertSecret", "insertVersion", "lockSecret",
          "pickNumber", "clear", "checkTarget", "set", "update", "commit",
          "revoke", "readValue", "log", "done"}
Answers == {"none", "ok", "denied", "notFound", "revoked", "conflict",
            "duplicate", "deadlock", "unknown", "error"}

\* The types of the variables.
TypeOK ==
    /\ secret \in Status
    /\ DOMAIN versions \subseteq Nat
    /\ versions \in [DOMAIN versions -> Row]
    /\ lock \in Requests \cup {None}
    /\ pc \in [Requests -> Steps]
    /\ kind \in [Requests -> Kinds \cup {"none"}]
    /\ num \in [Requests -> Nat]
    /\ todo \in [Requests -> SUBSET Nat]
    /\ \A r \in Requests : writes[r] \in [DOMAIN writes[r] -> Row]
    /\ DOMAIN writes = Requests
    /\ \A r \in Requests : DOMAIN writes[r] \subseteq Nat
    /\ result \in [Requests -> Answers]
    /\ logged \subseteq Requests
    /\ born \in [Requests -> [last : Nat, revoked : BOOLEAN]]

\* A secret that exists has a current version to read: neither a rotation
\* nor a rollback, failing at any point and whatever runs beside it, leaves
\* it with none (RotateInTx, SetCurrentVersion).
AtLeastOneCurrent == secret # "absent" => CurrentVersions # {}

\* A read finds exactly one current version, so LIMIT 1 leaves no choice
\* (GetCurrentVersion).
OneCurrent == secret # "absent" => \E v \in DOMAIN versions : CurrentVersions = {v}

\* Version numbers have no gaps, and a secret and its first version appear
\* together: no failure between two statements shows (CreateSecretWithVersion,
\* MAX(version) + 1 in RotateInTx).
Contiguous ==
    /\ DOMAIN versions = 1 .. MaxVersion
    /\ secret = "absent" <=> DOMAIN versions = {}

\* FOR UPDATE does what its comment says: concurrent rotations never pick the
\* same number, so none fails on UNIQUE (secret_id, version).
NoDuplicateNumber == \A r \in Requests : result[r] # "duplicate"

\* The versions request r stored.
StoredBy(r) == {v \in DOMAIN versions : versions[v].value = r}

Writer(r) == kind[r] \in {"create", "rotate"}

\* A writer that is told "ok", or whose audit event is stored, has stored its
\* value exactly once; one that is told of a refusal, a conflict or an abort
\* has stored nothing.  Only a lost reply leaves the caller in doubt.
AnswerMatchesEffect ==
    \A r \in Requests :
        /\ \A v, w \in StoredBy(r) : v = w
        /\ Writer(r) /\ (result[r] = "ok" \/ r \in logged) =>
             (StoredBy(r) # {} \/ result[r] = "denied")
        /\ result[r] \in {"denied", "notFound", "conflict", "duplicate",
                          "deadlock", "error"} => StoredBy(r) = {}

\* A read that starts after a revocation has committed returns no value
\* (the status check of GetSecretValue).
RevokedRefused ==
    \A r \in Requests :
        kind[r] = "read" /\ born[r].revoked => result[r] # "ok"

\* Without rollbacks a read returns a version at least as new as any that
\* was committed when it started: a caller reads its own rotation.
ReadFresh ==
    \A r \in Requests :
        kind[r] = "read" /\ result[r] = "ok" => num[r] >= born[r].last

\* A stored version is never lost, renumbered or overwritten, and a
\* revocation is never undone.
HistoryKept ==
    [][/\ \A v \in DOMAIN versions :
            v \in DOMAIN versions' /\ versions'[v].value = versions[v].value
       /\ secret = "revoked" => secret' = "revoked"]_vars

\* "written in the same transaction as the operation they describe": a version
\* that a request stored is never seen without its audit event (Log).
EventWithOperation == \A r \in Requests : StoredBy(r) # {} => r \in logged

\* Every request is answered, whatever row locks and deadlocks it meets.
EveryRequestAnswered == \A r \in Requests : Running(r) ~> pc[r] = "done"

\* The values of the versions, oldest first.
History == [v \in DOMAIN versions |-> versions[v].value]

\* Where rotations and rollbacks do not meet, requests take effect at one
\* instant: the service implements VersionedSecret.  0 for a current version
\* that is not unique is a value the abstract history cannot have.
Abstract == INSTANCE VersionedSecret WITH
    Values <- Requests \cup {None},
    history <- History,
    current <- IF \E v \in DOMAIN versions : CurrentVersions = {v}
               THEN CHOOSE v \in DOMAIN versions : CurrentVersions = {v}
               ELSE 0,
    status <- secret

ImplementsVersionedSecret == Abstract!Spec

\* The versions the running write of r replaces: those its UPDATE selected.
Seen(r) == (todo[r] \cup DOMAIN writes[r]) \cap DOMAIN versions

SeenBy == [r \in Requests |-> Seen(r)]

\* The rotation that has looked at the current versions and not yet committed.
Rotating(r) == kind[r] = "rotate" /\ pc[r] \in {"update", "insertVersion", "commit"}

Turn == IF \E r \in Requests : lock = r /\ Rotating(r) THEN lock ELSE None

\* Where they do meet, a write takes effect in two instants, the snapshot of
\* its UPDATE and its commit: the service implements ContendedSecret, which
\* never loses a value or undoes a revocation, and where a secret has more than
\* one current version only after a writer missed what another one wrote
\* (RotateInTx, SetCurrentVersion).
Contended == INSTANCE ContendedSecret WITH
    Values <- Requests \cup {None},
    Callers <- Requests,
    NoOne <- None,
    history <- History,
    current <- CurrentVersions,
    status <- secret,
    seen <- SeenBy,
    turn <- Turn

ImplementsContendedSecret == Contended!Spec
==============================================================================
