----------------------------- MODULE CommandLine ------------------------------
(***************************************************************************)
(* The commands of the client ss that send one request and compare the     *)
(* status of its answer with the one they expect (cmd/cli/commands).       *)
(*                                                                         *)
(* The request or its answer may be lost, and the server may answer with   *)
(* an error for something it has done (a COMMIT whose reply it did not     *)
(* hear).  No command repeats a request by itself: the user, or the script *)
(* around ss, runs the same command again, knowing neither whether the     *)
(* first attempt took effect nor whether it still will.  What that does to *)
(* the server is decided by its tables: a row that is unique, one that is  *)
(* upserted or updated, and those that multiply.                           *)
(*                                                                         *)
(* All commands are about one email, one project, one secret of that       *)
(* project, one new member and one grant.                                  *)
(***************************************************************************)
EXTENDS Integers, FiniteSets

CONSTANTS
    Shells,        \* users or scripts, each with one command in mind
    MaxTries       \* bound: how often each runs it

ASSUME CommandLineAssumption ==
    /\ IsFiniteSet(Shells)
    /\ MaxTries \in [Shells -> Nat \ {0}]

VARIABLES
    shell,         \* where each command is
    attempt,       \* attempt[t][i]: the i-th request of t, at the server
    store          \* what the server has of it

lineVars == << shell, attempt, store >>

Prompt == [at |-> "prompt", call |-> "none", ok |-> 200, tries |-> 0]

\* The state of an attempt: not sent, at the server, answered when nobody was
\* listening any more, or the status of its answer.
NotSent == 0
Sent == 1
Unheard == 2

\* Rows of users, project_members, secrets and access_grants, of projects and
\* secret_versions; the status of the secret.
LineInit ==
    /\ shell = [t \in Shells |-> Prompt]
    /\ attempt = [t \in Shells |-> [i \in 1..MaxTries[t] |-> NotSent]]
    /\ \E n \in {0, 1} :
          store = [ users |-> 0, projects |-> 0, members |-> 0, secrets |-> n,
                    grants |-> 0, versions |-> n, revoked |-> FALSE ]
-------------------------------------------------------------------------------
(* The commands.  Without the flags or the session it needs a command ends   *)
(* before it sends anything.                                                 *)

\* apiClient.do: "ok" is the one status the command takes for success.
Request(t, call, ok) ==
    /\ shell[t].tries > 0 => shell[t].at \in {"lost", "failed"} /\ shell[t].call = call
    /\ shell[t].tries < MaxTries[t]
    /\ shell' = [shell EXCEPT ![t] = [ at |-> "waiting", call |-> call, ok |-> ok,
                                       tries |-> @.tries + 1 ]]
    /\ attempt' = [attempt EXCEPT ![t][shell[t].tries + 1] = Sent]
    /\ UNCHANGED store

Register(t) == Request(t, "register", 201)
Whoami(t) == Request(t, "read", 200)
ProjectsList(t) == Request(t, "read", 200)
ProjectsCreate(t) == Request(t, "project", 201)
ProjectsAddMember(t) == Request(t, "member", 204)
SecretsList(t) == Request(t, "read", 200)
SecretsCreate(t) == Request(t, "create", 201)
SecretsRevoke(t) == Request(t, "revoke", 204)
SecretsRotate(t) == Request(t, "rotate", 204)
SecretsVersions(t) == Request(t, "read", 200)
SecretsRollback(t) == Request(t, "rollback", 204)
SecretsGrant(t) == Request(t, "grant", 204)
-------------------------------------------------------------------------------
(* The server *)

\* Mutant of Taken: neither the email nor the name of a secret is unique.
TakenByNobody(call) == FALSE

\* UNIQUE (email), UNIQUE (project_id, name).
Taken(call) ==
    \/ call = "register" /\ store.users > 0
    \/ call = "create" /\ store.secrets > 0

\* Nothing to work on.
Missing(call) ==
    store.secrets = 0 /\ call \in {"revoke", "rotate", "rollback", "grant"}

\* project_members and access_grants are upserted, a rotation adds a version; a
\* rollback to the first one changes none of what is counted here.
Effect(call) ==
    CASE call = "register" -> [store EXCEPT !.users = @ + 1]
      [] call = "project"  -> [store EXCEPT !.projects = @ + 1]
      [] call = "member"   -> [store EXCEPT !.members = 1]
      [] call = "create"   -> [store EXCEPT !.secrets = @ + 1, !.versions = 1]
      [] call = "revoke"   -> [store EXCEPT !.revoked = TRUE]
      [] call = "rotate"   -> [store EXCEPT !.versions = @ + 1]
      [] call = "grant"    -> [store EXCEPT !.grants = 1]
      [] OTHER             -> store

\* The status a handler that succeeds sends.
Status(call) ==
    CASE call = "read" -> 200
      [] call \in {"register", "project", "create"} -> 201
      [] OTHER -> 204

Answered(t, i, status) ==
    /\ attempt[t][i] = Sent
    /\ attempt' = [attempt EXCEPT ![t][i] =
          IF shell[t].at = "waiting" /\ shell[t].tries = i THEN status ELSE Unheard]
    /\ UNCHANGED shell

\* The request takes effect, and is answered with an error if the reply to its
\* COMMIT was lost.
Perform(t, i) ==
    /\ ~ Taken(shell[t].call) /\ ~ Missing(shell[t].call)
    /\ \E status \in {Status(shell[t].call), 500} : Answered(t, i, status)
    /\ store' = Effect(shell[t].call)

\* It does not: 409, or 404 and all other errors.
Reject(t, i) ==
    /\ Answered(t, i, IF Taken(shell[t].call) THEN 409 ELSE 500)
    /\ UNCHANGED store
-------------------------------------------------------------------------------
(* The answer *)

\* The connection ends, whatever has become of the request.
LoseConnection(t) ==
    /\ shell[t].at = "waiting"
    /\ shell' = [shell EXCEPT ![t].at = "lost"]
    /\ attempt' = [attempt EXCEPT ![t][shell[t].tries] = IF @ = Sent THEN Sent ELSE Unheard]
    /\ UNCHANGED store

\* The status is compared, success or parseError printed.
ReadAnswer(t) ==
    LET status == attempt[t][shell[t].tries] IN
    /\ shell[t].at = "waiting"
    /\ status \notin {NotSent, Sent}
    /\ shell' = [shell EXCEPT ![t].at = IF status = shell[t].ok THEN "done" ELSE "failed"]
    /\ UNCHANGED << attempt, store >>

LineNext ==
    \E t \in Shells :
       \/ Register(t) \/ Whoami(t)
       \/ ProjectsList(t) \/ ProjectsCreate(t) \/ ProjectsAddMember(t)
       \/ SecretsList(t) \/ SecretsCreate(t) \/ SecretsRevoke(t) \/ SecretsRotate(t)
       \/ SecretsVersions(t) \/ SecretsRollback(t) \/ SecretsGrant(t)
       \/ \E i \in 1..MaxTries[t] : Perform(t, i) \/ Reject(t, i)
       \/ LoseConnection(t) \/ ReadAnswer(t)

LineSpec == LineInit /\ [][LineNext]_lineVars
-------------------------------------------------------------------------------
(* Properties *)

LineTypeOK ==
    /\ shell \in [Shells ->
          [ at : {"prompt", "waiting", "lost", "done", "failed"},
            call : {"none", "read", "register", "project", "member", "create", "revoke",
                    "rotate", "rollback", "grant"},
            ok : {200, 201, 204}, tries : Nat ]]
    /\ DOMAIN attempt = Shells
    /\ \A t \in Shells :
          attempt[t] \in [1..MaxTries[t] -> {NotSent, Sent, Unheard, 200, 201, 204, 409, 500}]
    /\ store \in [ users : Nat, projects : Nat, members : Nat, secrets : Nat, grants : Nat,
                    versions : Nat, revoked : BOOLEAN ]

\* The requests of a kind the server has dealt with.
Handled(call) ==
    LET Of(t) == {i \in 1..MaxTries[t] :
                    shell[t].call = call /\ attempt[t][i] \notin {NotSent, Sent}}
    IN  UNION {{t} \X Of(t) : t \in Shells}

Present(call) ==
    CASE call = "register" -> store.users = 1
      [] call = "project"  -> store.projects > 0
      [] call = "member"   -> store.members = 1
      [] call = "create"   -> store.secrets = 1
      [] call = "revoke"   -> store.revoked
      [] call = "rotate"   -> store.versions > 1
      [] call = "grant"    -> store.grants = 1
      [] OTHER             -> TRUE

\* Running a command again is safe although its first request may have taken
\* effect, or takes effect after the second: what can be there once is there at
\* most once, what multiplies does so once for each request at most, and what a
\* command reports, a success as well as a conflict, is true (client.go:42,
\* secret_repo.go:185, access_audit_repo.go:27).
RetriesAreHarmless ==
    /\ \A n \in {store.users, store.members, store.secrets, store.grants} : n <= 1
    /\ store.projects <= Cardinality(Handled("project"))
    /\ store.versions <= 1 + Cardinality(Handled("rotate"))
    /\ \A t \in Shells :
          LET answer == attempt[t][shell[t].tries] IN
          /\ shell[t].at = "done" => Present(shell[t].call)
          /\ shell[t].at = "failed" => answer >= 400
          /\ shell[t].at = "failed" /\ answer = 409 => Present(shell[t].call)
===============================================================================
