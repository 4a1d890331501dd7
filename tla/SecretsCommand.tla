---------------------------- MODULE SecretsCommand ----------------------------
(***************************************************************************)
(* `ss run` and `ss secrets get` (cmd/cli/commands/run.go, secrets.go):    *)
(* clients that read the values of secrets with several requests, while    *)
(* other people create, rotate and revoke.                                 *)
(*                                                                         *)
(* Neither asks for a page, so both see the first one only.  GetSecretValue *)
(* checks the status of the secret in one statement and reads a current    *)
(* version in another.  A secret may have several current versions, where  *)
(* a rollback and a rotation met: a write replaces what it saw when it     *)
(* took its snapshot, as in ContendedSecret.                               *)
(***************************************************************************)
EXTENDS SecretListing

CONSTANTS
    Commands,      \* runs of the client
    Upper,         \* Upper[s]: strings.ToUpper of the name of s
    Nobody,        \* no secret
    MaxVersion     \* bound: MaxVersion[s] versions of s

ASSUME CommandAssumption ==
    /\ DOMAIN Upper = Secrets
    /\ Nobody \notin Secrets
    /\ MaxVersion \in [Secrets -> Nat \ {0}]

VARIABLES
    versions,      \* the versions of each secret
    cmd            \* where each command is

commandVars == << row, stamp, walk, versions, cmd >>

Names == {Upper[s] : s \in Secrets}

NoValue == << Nobody, 0 >>

\* "last" is how many versions there are, "current" those a read may return and
\* "seen" those the rotation under way is about to replace, {} without one.
FirstVersion == [ last |-> 1, current |-> {1}, seen |-> {} ]

\* "todo" are the secrets still to be fetched, "asked" the one whose request
\* has passed the checks of the server, "values" what was received, as secret and
\* version.  "revoked" are those of the secrets that were revoked when the command
\* chose them, "had" the versions that have been current since.
NewCommand ==
    [ at |-> "idle", kind |-> "run", todo |-> {}, asked |-> Nobody,
      values |-> [n \in Names |-> NoValue],
      revoked |-> {}, had |-> [s \in Secrets |-> {}] ]

CommandInit ==
    /\ ListingInit
    /\ versions = [s \in Secrets |-> FirstVersion]
    /\ cmd = [c \in Commands |-> NewCommand]

\* The current versions of s become these, which commands that have chosen s
\* and not fetched it may come to see.
SetVersions(s, new) ==
    /\ versions' = [versions EXCEPT ![s] = new]
    /\ cmd' = [c \in Commands |->
                 IF s \in cmd[c].todo THEN [cmd[c] EXCEPT !.had[s] = @ \cup new.current]
                 ELSE cmd[c]]
    /\ UNCHANGED << row, stamp, walk >>

\* RotateInTx: the lock on the secret, and the snapshot of the UPDATE.
LookToRotate(s) ==
    /\ s \in Stored
    /\ versions[s].seen = {} /\ versions[s].last < MaxVersion[s]
    /\ SetVersions(s, [versions[s] EXCEPT !.seen = versions[s].current])

\* RotateInTx commits.
CommitRotation(s) ==
    /\ versions[s].seen # {}
    /\ LET v == versions[s].last + 1 IN
        SetVersions(s, [ last |-> v, current |-> (versions[s].current \ versions[s].seen) \cup {v},
                         seen |-> {} ])

\* RotateInTx fails and is rolled back.
AbandonRotation(s) ==
    /\ versions[s].seen # {}
    /\ SetVersions(s, [versions[s] EXCEPT !.seen = {}])

\* SetCurrentVersion commits, for a snapshot taken when there were m versions:
\* those that were added since are no rows of its UPDATE.
CommitRollback(s) ==
    /\ s \in Stored
    /\ \E m \in 1..versions[s].last : \E v \in 1..m :
          SetVersions(s, [versions[s] EXCEPT !.current = (@ \ (1..m)) \cup {v}])

Begin(c, kind, at, todo) ==
    /\ cmd[c].at = "idle"
    /\ cmd' = [cmd EXCEPT ![c] = [NewCommand EXCEPT
          !.at = at, !.kind = kind, !.todo = todo,
          !.revoked = {s \in todo : row[s] = "revoked"},
          !.had = [s \in Secrets |-> IF s \in todo THEN versions[s].current ELSE {}]]]

FirstPage == ListSecrets("any", ParsePage(0, 0))

\* `ss run`: the active secrets of the first page.
RunCommand(c) ==
    /\ Begin(c, "run", "fetching", {s \in FirstPage : row[s] = "active"})
    /\ UNCHANGED << row, stamp, walk, versions >>

\* `ss secrets get --name`: a secret of that name on the first page, of any
\* status, or "not found".
GetByName(c, s) ==
    /\ Begin(c, "get", IF s \in FirstPage THEN "fetching" ELSE "failed", {s} \cap FirstPage)
    /\ UNCHANGED << row, stamp, walk, versions >>

\* `ss secrets get --secret`.
GetByID(c, s) ==
    /\ s \in Stored
    /\ Begin(c, "get", "fetching", {s})
    /\ UNCHANGED << row, stamp, walk, versions >>

\* The loop over the list goes from the newest secret to the oldest.
IsNext(c, s) ==
    /\ cmd[c].at = "fetching"
    /\ s \in cmd[c].todo
    /\ \A t \in cmd[c].todo : stamp[t] <= stamp[s]

\* Mutant of PassChecks: GetSecretValue without the check of the status.
PassAnyStatus(c, s) ==
    /\ IsNext(c, s)
    /\ cmd[c].asked = Nobody
    /\ cmd' = [cmd EXCEPT ![c].asked = s]
    /\ UNCHANGED << row, stamp, walk, versions >>

\* GetSecretValue, up to the authorization: the secret is active, has not
\* expired, and the caller may read it.
PassChecks(c, s) ==
    /\ IsNext(c, s)
    /\ cmd[c].asked = Nobody
    /\ row[s] = "active"
    /\ cmd' = [cmd EXCEPT ![c].asked = s]
    /\ UNCHANGED << row, stamp, walk, versions >>

\* The answer is an error: revoked, expired, no access, or the connection or a
\* statement failed.  `ss run` goes on without the value, `ss secrets get` ends.
GoWithout(c, s) ==
    /\ IsNext(c, s)
    /\ cmd' = [cmd EXCEPT ![c].todo = @ \ {s}, ![c].asked = Nobody,
                          ![c].at = IF cmd[c].kind = "run" THEN "fetching" ELSE "failed"]
    /\ UNCHANGED << row, stamp, walk, versions >>

\* GetCurrentVersion, LIMIT 1 without an order, and the answer.  Two secrets whose
\* names differ in case share a variable, and the older one overwrites the newer.
Receive(c, s) ==
    /\ cmd[c].asked = s
    /\ \E v \in versions[s].current :
          cmd' = [cmd EXCEPT ![c].todo = @ \ {s}, ![c].asked = Nobody,
                             ![c].values[Upper[s]] = << s, v >>]
    /\ UNCHANGED << row, stamp, walk, versions >>

\* exec.Command(...).Run() with the values in its environment; or the value printed.
Deliver(c) ==
    /\ cmd[c].at = "fetching"
    /\ cmd[c].todo = {}
    /\ cmd' = [cmd EXCEPT ![c].at = "delivered"]
    /\ UNCHANGED << row, stamp, walk, versions >>

CommandStep(c) ==
    \/ RunCommand(c)
    \/ Deliver(c)
    \/ \E s \in Secrets :
          \/ GetByName(c, s) \/ GetByID(c, s)
          \/ PassChecks(c, s) \/ GoWithout(c, s) \/ Receive(c, s)

CommandNext ==
    \/ \E c \in Commands : CommandStep(c)
    \/ \E s \in Secrets :
          LookToRotate(s) \/ CommitRotation(s) \/ AbandonRotation(s) \/ CommitRollback(s)
    \/ (\E s \in Secrets : SecretStep(s)) /\ UNCHANGED << versions, cmd >>

CommandSpec == CommandInit /\ [][CommandNext]_commandVars
-------------------------------------------------------------------------------
(* Properties *)

CommandTypeOK ==
    /\ DOMAIN versions = Secrets
    /\ \A s \in Secrets :
          /\ versions[s].last \in 1..MaxVersion[s]
          /\ versions[s].current \subseteq 1..versions[s].last /\ versions[s].current # {}
          /\ versions[s].seen \subseteq 1..versions[s].last
    /\ cmd \in [Commands ->
          [ at : {"idle", "fetching", "delivered", "failed"}, kind : {"run", "get"},
            todo : SUBSET Secrets, asked : Secrets \cup {Nobody},
            values : [Names -> (Secrets \cup {Nobody}) \X Nat],
            revoked : SUBSET Secrets, had : [Secrets -> SUBSET Nat] ]]

\* Every value a command hands to the user or to a child process is one of a
\* secret that was not revoked yet when the command chose it, and was current then
\* or has become so since, though list, check and read are requests and
\* statements of their own (run.go:80, secret/service.go:157).  Which of several
\* current versions it is, nobody can say (secret_repo.go:107).
DeliveredWasLive ==
    \A c \in Commands : cmd[c].at = "delivered" =>
       \A n \in Names : cmd[c].values[n] # NoValue =>
          LET s == cmd[c].values[n][1] IN
          /\ s \notin cmd[c].revoked
          /\ cmd[c].values[n][2] \in cmd[c].had[s]
===============================================================================
