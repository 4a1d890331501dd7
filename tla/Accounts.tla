------------------------------- MODULE Accounts -------------------------------
(***************************************************************************)
(* Who may call the API: users who register, log in and are blocked or     *)
(* unblocked by a global admin (internal/auth/service.go), service         *)
(* accounts that are created, log in and are revoked                       *)
(* (internal/serviceaccount/service.go), the tokens both are given         *)
(* (internal/token/jwt.go) and the check every protected route makes of    *)
(* the token's principal (internal/middleware/auth.go, internal/authz).    *)
(*                                                                         *)
(* Each call is served by its own goroutine and is a sequence of single    *)
(* SQL statements outside any transaction: other calls run between them.   *)
(* What a call has read is used after it may have changed.                 *)
(*                                                                         *)
(* A user is identified with its email and a service account with its      *)
(* name: both are unique and no row of either table is ever deleted.  The  *)
(* role a caller needs in the project of a service account is the subject  *)
(* of ProjectAccess: here that check has an arbitrary outcome.  The audit  *)
(* event that follows an operation is left out: nothing here reads it.     *)
(***************************************************************************)
EXTENDS Naturals

CONSTANTS
    Users,         \* the people who may register
    Accounts,      \* the service accounts that may be created
    Requests,      \* the calls, each one run of a handler
    Kinds,         \* what they may ask for
    Seeds,         \* the users who may have registered before
    Nobody         \* no principal: the caller of a call still to come

ASSUME Assumption ==
    /\ Users \cap Accounts = {}
    /\ Nobody \notin Users \cup Accounts
    /\ Seeds \subseteq SUBSET Users
    /\ Kinds \subseteq {"register", "login", "use", "block", "unblock",
                        "createAccount", "revokeAccount"}

Principals == Users \cup Accounts

VARIABLES
    users,         \* rows of `users`: [admin, blocked], by user
    accounts,      \* status in `service_accounts`, or "absent"
    tokens,        \* principals that were given a token
    pc,            \* what each call does next
    call,          \* what it is: [kind, by, target]
    seen,          \* what it has read of the database and will still use
    result,        \* its answer
    barred         \* history variable: calls whose principal has been
                   \* unknown, blocked or revoked ever since they started

vars == << users, accounts, tokens, pc, call, seen, result, barred >>

NoUsers == [u \in {} |-> [admin |-> FALSE, blocked |-> FALSE]]

Admins == {u \in DOMAIN users : users[u].admin}

\* Principals that have a row.
Known == DOMAIN users \cup {a \in Accounts : accounts[a] # "absent"}

\* authz.ValidatePrincipal
Valid(p) ==
    \/ p \in DOMAIN users /\ ~users[p].blocked
    \/ p \in Accounts /\ accounts[p] = "active"

\* An empty database, or one where calls made one after another have
\* registered some users, the first of them as admin.
Init ==
    /\ \/ users = NoUsers /\ accounts = [a \in Accounts |-> "absent"]
       \/ /\ \E S \in Seeds : \E first \in S :
               users = [u \in S |-> [admin |-> u = first, blocked |-> FALSE]]
          /\ accounts \in [Accounts -> {"absent", "active"}]
    /\ tokens = DOMAIN users \cup {a \in Accounts : accounts[a] = "active"}
    /\ pc = [r \in Requests |-> "idle"]
    /\ call = [r \in Requests |-> [kind |-> "none", by |-> Nobody, target |-> Nobody]]
    /\ seen = [r \in Requests |-> FALSE]
    /\ result = [r \in Requests |-> "none"]
    /\ barred = {}
-----------------------------------------------------------------------------
(* How a call begins, moves on and ends. *)

Kind(r) == call[r].kind
By(r) == call[r].by
Target(r) == call[r].target

Goto(r, from, to) ==
    /\ pc[r] = from
    /\ pc' = [pc EXCEPT ![r] = to]

Answer(r, a) == result' = [result EXCEPT ![r] = a]

\* The call ends.
Finish(r, from, a) == Goto(r, from, "done") /\ Answer(r, a)

\* A statement that changes the database succeeds.  Its reply, or the
\* answer of the call, may be lost.
Wrote(r, from) ==
    /\ Goto(r, from, "done")
    /\ Answer(r, "ok") \/ Answer(r, "error")

\* The calls of p that are no longer barred when p becomes valid.
Admit(p) == barred' = {r \in barred : By(r) # p}

DB == << users, accounts, tokens >>

\* The three public routes start with their own work, all others with the
\* check of the token.
FirstStep == [register |-> "count", login |-> "readRow", use |-> "validate",
              block |-> "validate", unblock |-> "validate",
              createAccount |-> "validate", revokeAccount |-> "validate"]

\* People register; everything else may be asked by anyone for anyone.
Start(r) ==
    /\ \E k \in Kinds, p, t \in Principals :
        /\ k = "register" => p \in Users
        /\ k \in {"register", "login", "use"} => t = p
        /\ k \in {"block", "unblock"} => t \in Users
        /\ k \in {"createAccount", "revokeAccount"} => t \in Accounts
        /\ call' = [call EXCEPT ![r] = [kind |-> k, by |-> p, target |-> t]]
        /\ Goto(r, "idle", FirstStep[k])
        /\ barred' = IF Valid(p) THEN barred ELSE barred \cup {r}
    /\ UNCHANGED << DB, seen, result >>
-----------------------------------------------------------------------------
(* Register *)

\* Mutant of Count: the admin is the second user.
CountOne(r) ==
    /\ Goto(r, "count", "insert")
    /\ seen' = [seen EXCEPT ![r] = \E u \in DOMAIN users : DOMAIN users = {u}]
    /\ UNCHANGED << DB, call, result, barred >>

\* SELECT COUNT(*) FROM users, compared with 0
Count(r) ==
    /\ Goto(r, "count", "insert")
    /\ seen' = [seen EXCEPT ![r] = DOMAIN users = {}]
    /\ UNCHANGED << DB, call, result, barred >>

NewRow(r) ==
    [u \in DOMAIN users \cup {By(r)} |->
        IF u = By(r) THEN [admin |-> seen[r], blocked |-> FALSE] ELSE users[u]]

\* Mutant of InsertUser: an upsert, as the tables of members and grants have.
UpsertUser(r) ==
    /\ Wrote(r, "insert")
    /\ users' = NewRow(r)
    /\ Admit(By(r))
    /\ UNCHANGED << accounts, tokens, call, seen >>

\* INSERT INTO users fails with 23505 when the email is taken.
InsertUser(r) ==
    /\ IF By(r) \in DOMAIN users
       THEN /\ Finish(r, "insert", "conflict")
            /\ UNCHANGED << users, barred >>
       ELSE /\ Wrote(r, "insert")
            /\ users' = NewRow(r)
            /\ Admit(By(r))
    /\ UNCHANGED << accounts, tokens, call, seen >>
-----------------------------------------------------------------------------
(* Login, of a user and of a service account *)

\* GetByEmail, GetByID: the copy of the row read here decides.
ReadRow(r) ==
    /\ IF By(r) \in Known
       THEN /\ Goto(r, "readRow", "compare")
            /\ seen' = [seen EXCEPT ![r] = Valid(By(r))]
            /\ UNCHANGED result
       ELSE /\ Finish(r, "readRow", "badCredentials")
            /\ UNCHANGED seen
    /\ UNCHANGED << DB, call, barred >>

\* bcrypt finds the password or the token wrong.
WrongPassword(r) ==
    /\ By(r) \in Accounts => seen[r]
    /\ Finish(r, "compare", "badCredentials")
    /\ UNCHANGED << DB, call, seen, barred >>

\* The row was blocked or not active.
LoginRefused(r) ==
    /\ ~seen[r]
    /\ Finish(r, "compare", IF By(r) \in Users THEN "forbidden" ELSE "unauthorized")
    /\ UNCHANGED << DB, call, seen, barred >>

\* Login of a user issues the token.
IssueUserToken(r) ==
    /\ seen[r]
    /\ By(r) \in Users
    /\ Finish(r, "compare", "ok")
    /\ tokens' = tokens \cup {By(r)}
    /\ UNCHANGED << users, accounts, call, seen, barred >>

\* Authenticate returns; the handler issues the token afterwards.
Authenticated(r) ==
    /\ seen[r]
    /\ By(r) \in Accounts
    /\ Goto(r, "compare", "issue")
    /\ UNCHANGED << DB, call, seen, result, barred >>

IssueAccountToken(r) ==
    /\ Finish(r, "issue", "ok")
    /\ tokens' = tokens \cup {By(r)}
    /\ UNCHANGED << users, accounts, call, seen, barred >>
-----------------------------------------------------------------------------
(* The protected routes *)

\* What follows the check.
NextStep == [use |-> "serve", block |-> "readActor", unblock |-> "readActor",
             createAccount |-> "insertAccount", revokeAccount |-> "readAccount"]

\* A service account is refused by the handlers that want a user.
MayAsk(p, kind) == p \in Accounts => kind = "use"

\* Mutant of Validate: the token is trusted until it expires.
TrustToken(r) ==
    /\ By(r) \in tokens /\ MayAsk(By(r), Kind(r))
    /\ Goto(r, "validate", NextStep[Kind(r)])
    /\ UNCHANGED result
    /\ UNCHANGED << DB, call, seen, barred >>

\* middleware.Auth: ParseClaims, ValidatePrincipal; GetUserID in the handler.
\* A token expires 24 hours after a user's login, 1 hour after a service
\* account's: any token may have.
Validate(r) ==
    /\ \/ /\ By(r) \in tokens /\ Valid(By(r)) /\ MayAsk(By(r), Kind(r))
          /\ Goto(r, "validate", NextStep[Kind(r)])
          /\ UNCHANGED result
       \/ Finish(r, "validate", "unauthorized")
    /\ UNCHANGED << DB, call, seen, barred >>

\* A handler outside this module.
Serve(r) ==
    /\ Finish(r, "serve", "ok")
    /\ UNCHANGED << DB, call, seen, barred >>

\* Mutant of ReadActor: admins may block themselves.
ReadActorOnly(r) ==
    /\ IF By(r) \in Admins
       THEN Goto(r, "readActor", "setBlocked") /\ UNCHANGED result
       ELSE Finish(r, "readActor", "forbidden")
    /\ UNCHANGED << DB, call, seen, barred >>

\* BlockUser and UnblockUser read the caller again: an admin, and not the
\* user in question.
ReadActor(r) ==
    /\ IF By(r) \in Admins /\ By(r) # Target(r)
       THEN Goto(r, "readActor", "setBlocked") /\ UNCHANGED result
       ELSE Finish(r, "readActor", IF By(r) \in Admins THEN "invalid" ELSE "forbidden")
    /\ UNCHANGED << DB, call, seen, barred >>

\* UPDATE users SET is_blocked = ...
SetBlocked(r) ==
    /\ IF Target(r) \in DOMAIN users
       THEN /\ Wrote(r, "setBlocked")
            /\ users' = [users EXCEPT ![Target(r)].blocked = Kind(r) = "block"]
            /\ IF Kind(r) = "unblock" THEN Admit(Target(r)) ELSE UNCHANGED barred
       ELSE /\ Finish(r, "setBlocked", "notFound")
            /\ UNCHANGED << users, barred >>
    /\ UNCHANGED << accounts, tokens, call, seen >>

\* The caller has no role that allows it.
NoRole(r) ==
    /\ pc[r] \in {"insertAccount", "setRevoked"}
    /\ Finish(r, pc[r], "forbidden")
    /\ UNCHANGED << DB, call, seen, barred >>

\* Mutant of InsertAccount: an upsert, which makes a revoked account active.
UpsertAccount(r) ==
    /\ Wrote(r, "insertAccount")
    /\ accounts' = [accounts EXCEPT ![Target(r)] = "active"]
    /\ Admit(Target(r))
    /\ UNCHANGED << users, tokens, call, seen >>

\* INSERT INTO service_accounts fails with 23505 when the name is taken, by
\* a revoked account as well.
InsertAccount(r) ==
    /\ pc[r] = "insertAccount"
    /\ IF accounts[Target(r)] = "absent"
       THEN /\ Wrote(r, "insertAccount")
            /\ accounts' = [accounts EXCEPT ![Target(r)] = "active"]
            /\ Admit(Target(r))
       ELSE /\ Finish(r, "insertAccount", "conflict")
            /\ UNCHANGED << accounts, barred >>
    /\ UNCHANGED << users, tokens, call, seen >>

\* Revoke: GetByID
ReadAccount(r) ==
    /\ pc[r] = "readAccount"
    /\ IF accounts[Target(r)] # "absent"
       THEN Goto(r, "readAccount", "setRevoked") /\ UNCHANGED result
       ELSE Finish(r, "readAccount", "notFound")
    /\ UNCHANGED << DB, call, seen, barred >>

\* Mutant of SetRevoked: the status of a user is written.
SetAccountBlocked(r) ==
    /\ Wrote(r, "setRevoked")
    /\ accounts' = [accounts EXCEPT ![Target(r)] = "blocked"]
    /\ UNCHANGED << users, tokens, call, seen, barred >>

\* UPDATE service_accounts SET status = 'revoked'
SetRevoked(r) ==
    /\ Wrote(r, "setRevoked")
    /\ accounts' = [accounts EXCEPT ![Target(r)] = "revoked"]
    /\ UNCHANGED << users, tokens, call, seen, barred >>
-----------------------------------------------------------------------------
(* Failures, and the whole *)

Running(r) == pc[r] \notin {"idle", "done"}

\* The call is cancelled, a statement fails, or the server dies.  Each
\* statement commits by itself, so there is nothing to undo.
Fail(r) ==
    /\ Running(r)
    /\ pc' = [pc EXCEPT ![r] = "done"]
    /\ Answer(r, "error")
    /\ UNCHANGED << DB, call, seen, barred >>

Step(r) ==
    \/ Count(r) \/ InsertUser(r)
    \/ ReadRow(r) \/ WrongPassword(r) \/ LoginRefused(r)
    \/ IssueUserToken(r) \/ Authenticated(r) \/ IssueAccountToken(r)
    \/ Validate(r) \/ Serve(r)
    \/ ReadActor(r) \/ SetBlocked(r)
    \/ NoRole(r) \/ InsertAccount(r) \/ ReadAccount(r) \/ SetRevoked(r)

\* Every call is answered: the model stops, the server waits for more.
AllDone == (\A r \in Requests : pc[r] = "done") /\ UNCHANGED vars

Next ==
    \/ \E r \in Requests : Start(r) \/ Step(r) \/ Fail(r)
    \/ AllDone

Spec == Init /\ [][Next]_vars
-----------------------------------------------------------------------------
(* Properties *)

Steps == {"idle", "count", "insert", "readRow", "compare", "issue", "validate",
          "serve", "readActor", "setBlocked", "insertAccount", "readAccount",
          "setRevoked", "done"}
Answers == {"none", "ok", "conflict", "badCredentials", "forbidden",
            "unauthorized", "invalid", "notFound", "error"}

\* The types of the variables.
TypeOK ==
    /\ DOMAIN users \subseteq Users
    /\ users \in [DOMAIN users -> [admin : BOOLEAN, blocked : BOOLEAN]]
    /\ accounts \in [Accounts -> {"absent", "active", "revoked"}]
    /\ tokens \subseteq Principals
    /\ pc \in [Requests -> Steps]
    /\ call \in [Requests -> [kind : Kinds \cup {"none"}, by : Principals \cup {Nobody},
                              target : Principals \cup {Nobody}]]
    /\ seen \in [Requests -> BOOLEAN]
    /\ result \in [Requests -> Answers]
    /\ barred \subseteq Requests

\* "The first registered user becomes the system administrator"
\* (CreateUser): whatever registrations race, once there are users one of
\* them is an admin.
SomeAdmin == DOMAIN users # {} => Admins # {}

\* ... and no more than one of them is.
OneAdmin == \A a, b \in Admins : a = b

\* Where there is one admin, and nobody else who could undo it, no sequence
\* of calls blocks that admin (the check of BlockUser).
SoleAdminNotBlocked == \A a \in DOMAIN users : Admins = {a} => ~users[a].blocked

\* A call that starts after its principal was blocked or revoked, and that
\* stays so, succeeds on no route, with a token issued at whatever time, and
\* logs no one in (ValidatePrincipal, Login, Authenticate).
BarredStaysOut == \A r \in barred : Kind(r) = "register" \/ result[r] # "ok"

\* A registration creates a user and touches no other: of two for one email
\* one succeeds.
OneRegistration ==
    \A q, r \in Requests :
        /\ Kind(q) = "register" /\ Kind(r) = "register" /\ By(q) = By(r)
        /\ result[q] = "ok" /\ result[r] = "ok"
        => q = r

\* A user keeps being or not being an admin, whoever registers, and a revoked
\* service account is never active again.
IdentitiesKept ==
    [][/\ \A u \in DOMAIN users :
            u \in DOMAIN users' /\ users'[u].admin = users[u].admin
       /\ \A a \in Accounts : accounts[a] = "revoked" => accounts'[a] = "revoked"]_vars
==============================================================================
