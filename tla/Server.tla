-------------------------------- MODULE Server --------------------------------
(***************************************************************************)
(* One server between ListenAndServe and the end of main()                 *)
(* (cmd/server/main.go:144): requests that share the connection pool of    *)
(* internal/storage/db.go, and the shutdown on SIGTERM.                    *)
(*                                                                         *)
(* A request needs a connection for each thing it asks of the database,    *)
(* one after the other and each for as long as that takes: the check of    *)
(* its caller, then the transaction of a rotation, whose lock on the row   *)
(* of the secret it may have to wait for with the connection in hand, then *)
(* the audit event.  The context of a request ends when its client goes    *)
(* away; the deadline of the shutdown is not passed on to it.              *)
(***************************************************************************)
EXTENDS Integers, FiniteSets

CONSTANTS
    Requests,      \* the requests that reach the server
    Writers,       \* those that rotate the secret; the others read it
    PoolSize       \* SetMaxOpenConns

ASSUME ServerAssumption ==
    /\ IsFiniteSet(Requests)
    /\ Writers \subseteq Requests
    /\ PoolSize \in Nat \ {0}

VARIABLES
    life,          \* of the server
    at,            \* where each request is
    stored,        \* the rotations that are committed
    trail,         \* the requests whose audit event is stored
    gone           \* the requests whose client went away

serverVars == << life, at, stored, trail, gone >>

Lives == {"serving", "draining", "stopped", "killed"}

\* The stages of a request that hold a connection of the pool, the others
\* under way, and the ends.
Connected == {"checking", "waiting", "locked", "logging"}
Between == {"admitted", "checked", "committed", "logged"}
Ends == {"answered", "abandoned", "cut", "refused"}

ServerInit ==
    /\ life = "serving"
    /\ at = [r \in Requests |-> "outside"]
    /\ stored = {}
    /\ trail = {}
    /\ gone = {}

InFlight == {r \in Requests : at[r] \in Connected \cup Between}

\* db.conn() hands out a connection, or makes the caller wait for one.
FreeConnection == Cardinality({r \in Requests : at[r] \in Connected}) < PoolSize

Runs == life \in {"serving", "draining"}

Step(r, from, to) ==
    /\ Runs
    /\ at[r] = from
    /\ at' = [at EXCEPT ![r] = to]
    /\ UNCHANGED << life, gone >>
-------------------------------------------------------------------------------
(* A request *)

\* The listener accepts it, or is closed.
Arrive(r) ==
    /\ at[r] = "outside"
    /\ at' = [at EXCEPT ![r] = IF life = "serving" THEN "admitted" ELSE "refused"]
    /\ UNCHANGED << life, stored, trail, gone >>

\* The principal, the secret and the membership are read.
Check(r) ==
    /\ FreeConnection
    /\ Step(r, "admitted", "checking")
    /\ UNCHANGED << stored, trail >>

Checked(r) ==
    /\ Step(r, "checking", "checked")
    /\ UNCHANGED << stored, trail >>

\* BeginTxx, and SELECT ... FOR UPDATE sent.
BeginTx(r) ==
    /\ r \in Writers
    /\ FreeConnection
    /\ Step(r, "checked", "waiting")
    /\ UNCHANGED << stored, trail >>

\* The row of the secret is free.
LockRow(r) ==
    /\ \A q \in Requests : at[q] # "locked"
    /\ Step(r, "waiting", "locked")
    /\ UNCHANGED << stored, trail >>

\* Mutant of CommitTx: one of the statements goes to the pool instead of the
\* transaction.
CommitOnSecondConnection(r) ==
    /\ FreeConnection
    /\ Step(r, "locked", "committed")
    /\ stored' = stored \cup {r}
    /\ UNCHANGED trail

\* The statements of the rotation, on the connection of its transaction.
CommitTx(r) ==
    /\ Step(r, "locked", "committed")
    /\ stored' = stored \cup {r}
    /\ UNCHANGED trail

\* audit.Service.Log, after the operation.
Log(r) ==
    /\ FreeConnection
    /\ Step(r, IF r \in Writers THEN "committed" ELSE "checked", "logging")
    /\ UNCHANGED << stored, trail >>

Logged(r) ==
    /\ Step(r, "logging", "logged")
    /\ trail' = trail \cup {r}
    /\ UNCHANGED stored

Reply(r) ==
    /\ Step(r, "logged", "answered")
    /\ UNCHANGED << stored, trail >>

\* The client closes the connection: the context of the request is cancelled,
\* what it waits for returns an error, its transaction is rolled back, and the
\* event of what it has committed is not written.
Disconnect(r) ==
    /\ Runs
    /\ r \in InFlight
    /\ at' = [at EXCEPT ![r] = "abandoned"]
    /\ gone' = gone \cup {r}
    /\ UNCHANGED << life, stored, trail >>
-------------------------------------------------------------------------------
(* The end of the server *)

\* SIGINT or SIGTERM: Shutdown closes the listener and waits.
Signal ==
    /\ life = "serving"
    /\ life' = "draining"
    /\ UNCHANGED << at, stored, trail, gone >>

\* Mutant of Stop: main() ends as soon as nobody uses the pool.
StopWhenPoolIdle ==
    /\ life = "draining"
    /\ \A r \in Requests : at[r] \notin Connected
    /\ life' = "stopped"
    /\ UNCHANGED << at, stored, trail, gone >>

\* Shutdown returns when no connection has a request any more; main() ends.
Stop ==
    /\ life = "draining"
    /\ InFlight = {}
    /\ life' = "stopped"
    /\ UNCHANGED << at, stored, trail, gone >>

\* os.Exit(1): ten seconds were not enough, or the listener failed.  Requests
\* are cut off where they are, PostgreSQL rolls their transactions back.
Exit ==
    /\ life = "draining" => InFlight # {}
    /\ Runs
    /\ life' = "killed"
    /\ at' = [r \in Requests |-> IF r \in InFlight THEN "cut" ELSE at[r]]
    /\ UNCHANGED << stored, trail, gone >>
-------------------------------------------------------------------------------
RequestStep(r) ==
    \/ Check(r) \/ Checked(r)
    \/ BeginTx(r) \/ LockRow(r) \/ CommitTx(r)
    \/ Log(r) \/ Logged(r)
    \/ Reply(r)

ServerNext ==
    \/ \E r \in Requests : RequestStep(r) \/ Arrive(r) \/ Disconnect(r)
    \/ Signal
    \/ Stop
    \/ Exit

\* The goroutine of a request runs on, the pool and the row lock are handed to
\* those who wait, and Shutdown returns once nobody is left.  No client, signal
\* or deadline is under an obligation.
ServerFairness ==
    /\ \A r \in Requests : WF_serverVars(RequestStep(r))
    /\ WF_serverVars(Stop)

ServerSpec == ServerInit /\ [][ServerNext]_serverVars
FairServerSpec == ServerSpec /\ ServerFairness
-------------------------------------------------------------------------------
(* Properties *)

ServerTypeOK ==
    /\ life \in Lives
    /\ at \in [Requests -> {"outside"} \cup Connected \cup Between \cup Ends]
    /\ stored \in SUBSET Writers
    /\ trail \in SUBSET Requests
    /\ gone \in SUBSET Requests

\* Every request that was accepted comes to an end, though requests that wait
\* for the lock of one secret may hold all the connections of the pool: who
\* holds the lock needs no second connection to finish (db.go:30,
\* secret_repo.go:205).
EveryRequestEnds == \A r \in Requests : at[r] = "admitted" ~> at[r] \in Ends

\* A server that stops in order leaves nothing half done: every rotation it
\* committed has its event and was answered, unless the client itself went
\* away; and whatever was answered is stored and logged (main.go:169).
StopLosesNothing ==
    /\ life = "stopped" => \A r \in stored \ gone : at[r] = "answered"
    /\ \A r \in Requests : at[r] = "answered" =>
          r \in trail /\ (r \in Writers => r \in stored)
===============================================================================
