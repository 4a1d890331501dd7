------------------------------ MODULE Migrations ------------------------------
(***************************************************************************)
(* The start of the servers of cmd/server/main.go on one database, up to   *)
(* ListenAndServe: the checks of the configuration, the connection, and    *)
(* RunMigrations of internal/storage/migrate.go.                           *)
(*                                                                         *)
(* Every member of Servers is one process: nothing restarts a server that  *)
(* exits (docker-compose.yml sets no restart policy), and one started by   *)
(* hand is another member.  Two processes may start together, and a new    *)
(* release may start while an older one, with fewer files, runs.  No lock  *)
(* is taken around RunMigrations: what keeps two servers apart is each     *)
(* file's transaction, the names the file creates and the primary key of   *)
(* schema_migrations.                                                      *)
(***************************************************************************)
EXTENDS Integers

CONSTANTS
    Servers,       \* the processes that are started
    Last,          \* the files of the newest release are 1 .. Last
    Release,       \* Release[s]: the files of s are 1 .. Release[s]
    Guarded,       \* files whose statements all say IF NOT EXISTS
    MaxFaults      \* bound: what goes wrong outside RunMigrations

ASSUME MigrationsAssumption ==
    /\ Last \in Nat
    /\ Release \in [Servers -> 0..Last]
    /\ Guarded \subseteq 1..Last
    /\ MaxFaults \in Nat

Files == 1..Last

VARIABLES
    phase,         \* where each server is
    done,          \* done[s]: the files s has gone past, 1 .. done[s]
    known,         \* known[s]: appliedSet, read once
    tracked,       \* schema_migrations exists
    ledger,        \* the committed rows of schema_migrations
    schema,        \* schema[f]: how often the statements of f were committed
    faults

startVars == << phase, done, known, tracked, ledger, schema, faults >>

Phases == {"down", "connected", "creating", "list", "file", "executed",
           "recorded", "serving", "exited"}

StartInit ==
    /\ phase = [s \in Servers |-> "down"]
    /\ done = [s \in Servers |-> 0]
    /\ known = [s \in Servers |-> {}]
    /\ tracked = FALSE
    /\ ledger = {}
    /\ schema = [f \in Files |-> 0]
    /\ faults = 0

Current(s) == done[s] + 1

Move(s, from, to) ==
    /\ phase[s] = from
    /\ phase' = [phase EXCEPT ![s] = to]
-------------------------------------------------------------------------------
(* The start of one server *)

\* The configuration is complete and PostgreSQL answers the ping.
Connect(s) ==
    /\ Move(s, "down", "connected")
    /\ UNCHANGED << done, known, tracked, ledger, schema, faults >>

\* CREATE TABLE IF NOT EXISTS schema_migrations looks for the table ...
LookForLedger(s) ==
    /\ Move(s, "connected", IF tracked THEN "list" ELSE "creating")
    /\ UNCHANGED << done, known, tracked, ledger, schema, faults >>

\* ... and, where it found none, fails on the catalogue's unique index when
\* another server has created it in the meantime.
CreateLedger(s) ==
    /\ Move(s, "creating", IF tracked THEN "exited" ELSE "list")
    /\ tracked' = TRUE
    /\ UNCHANGED << done, known, ledger, schema, faults >>

ListApplied(s) ==
    /\ Move(s, "list", "file")
    /\ known' = [known EXCEPT ![s] = ledger]
    /\ UNCHANGED << done, tracked, ledger, schema, faults >>

\* Mutant of SkipFile: the list is not consulted.
SkipUnlisted(s) ==
    /\ Move(s, "file", "file")
    /\ Current(s) \in 1..Release[s]
    /\ done' = [done EXCEPT ![s] = Current(s)]
    /\ UNCHANGED << known, tracked, ledger, schema, faults >>

\* The loop passes over what the list contains.
SkipFile(s) ==
    /\ Move(s, "file", "file")
    /\ Current(s) \in known[s] \cap 1..Release[s]
    /\ done' = [done EXCEPT ![s] = Current(s)]
    /\ UNCHANGED << known, tracked, ledger, schema, faults >>

\* Mutant of Blocked: two servers that come to a file together wait for each other.
BlockedByEach(s) ==
    /\ Current(s) \notin ledger
    /\ \E t \in Servers \ {s} : phase[t] = "file" /\ Current(t) = Current(s)

\* Another server runs the same file and has not committed it: its locks make
\* this one wait.
Blocked(s) ==
    /\ Current(s) \notin ledger
    /\ \E t \in Servers \ {s} :
          phase[t] \in {"executed", "recorded"} /\ Current(t) = Current(s)

\* The statements of the file, in a transaction of its own.  Run a second time
\* they fail on what the first run created, unless all of them are guarded;
\* even those may fail, when they had to wait for the first run.
ExecFile(s) ==
    /\ Current(s) \in (1..Release[s]) \ known[s]
    /\ ~Blocked(s)
    /\ \/ /\ Current(s) \in ledger => Current(s) \in Guarded
          /\ Move(s, "file", "executed")
       \/ /\ Current(s) \in ledger
          /\ Move(s, "file", "exited")
    /\ UNCHANGED << done, known, tracked, ledger, schema, faults >>

\* INSERT INTO schema_migrations, whose primary key is the name of the file.
RecordFile(s) ==
    /\ Move(s, "executed", IF Current(s) \in ledger THEN "exited" ELSE "recorded")
    /\ UNCHANGED << done, known, tracked, ledger, schema, faults >>

\* Mutant of Persist: the row of schema_migrations is forgotten.
PersistWithoutRow(s) ==
    /\ schema' = [schema EXCEPT ![Current(s)] = @ + 1]
    /\ UNCHANGED ledger

\* What COMMIT makes durable: the statements and the row together.
Persist(s) ==
    /\ ledger' = ledger \cup {Current(s)}
    /\ schema' = [schema EXCEPT ![Current(s)] = @ + 1]

CommitFile(s) ==
    /\ Move(s, "recorded", "file")
    /\ Persist(s)
    /\ done' = [done EXCEPT ![s] = Current(s)]
    /\ UNCHANGED << known, tracked, faults >>

\* Mutant of Serve: the error of RunMigrations is logged only.
ServeAnyway(s) ==
    /\ Move(s, "file", "serving")
    /\ UNCHANGED << done, known, tracked, ledger, schema, faults >>

\* ListenAndServe: the loop has come to its end.
Serve(s) ==
    /\ done[s] = Release[s]
    /\ Move(s, "file", "serving")
    /\ UNCHANGED << done, known, tracked, ledger, schema, faults >>
-------------------------------------------------------------------------------
(* What goes wrong around it.  A transaction that is open is rolled back. *)

Fault ==
    /\ faults < MaxFaults
    /\ faults' = faults + 1

\* The configuration is refused, PostgreSQL does not answer, the 30 seconds of
\* the context are over, or the process is killed.
Abort(s) ==
    /\ Fault
    /\ phase[s] \notin {"serving", "exited"}
    /\ phase' = [phase EXCEPT ![s] = "exited"]
    /\ UNCHANGED << done, known, tracked, ledger, schema >>

\* The connection is lost over COMMIT: the file is applied, the server exits.
CommitUnheard(s) ==
    /\ Fault
    /\ Move(s, "recorded", "exited")
    /\ Persist(s)
    /\ UNCHANGED << done, known, tracked >>
-------------------------------------------------------------------------------
StartStep(s) ==
    \/ Connect(s)
    \/ LookForLedger(s)
    \/ CreateLedger(s)
    \/ ListApplied(s)
    \/ SkipFile(s)
    \/ ExecFile(s)
    \/ RecordFile(s)
    \/ CommitFile(s)
    \/ Serve(s)

StartNext == \E s \in Servers : StartStep(s) \/ Abort(s) \/ CommitUnheard(s)

\* A process that was started goes on: the operating system and PostgreSQL
\* serve it.
StartFairness == \A s \in Servers : WF_startVars(StartStep(s))

StartSpec == StartInit /\ [][StartNext]_startVars
FairStartSpec == StartSpec /\ StartFairness
-------------------------------------------------------------------------------
(* Properties *)

StartTypeOK ==
    /\ phase \in [Servers -> Phases]
    /\ done \in [Servers -> 0..Last]
    /\ known \in [Servers -> SUBSET Files]
    /\ tracked \in BOOLEAN
    /\ ledger \in SUBSET Files
    /\ schema \in [Files -> Nat]
    /\ faults \in 0..MaxFaults

\* schema_migrations tells the truth: a file is listed exactly if its
\* statements are in effect, and they took effect once, whatever two servers
\* did at the same time and wherever one of them died (migrate.go:63).
LedgerMatchesSchema ==
    \A f \in Files : schema[f] = IF f \in ledger THEN 1 ELSE 0

\* No server takes requests on a schema that lacks one of its files, though
\* the list it decided on is as old as its start (main.go:97, migrate.go:30).
ServesMigrated ==
    \A s \in Servers :
        phase[s] = "serving" => \A f \in 1..Release[s] : schema[f] = 1

\* Servers that start together do stop one another: a file committed by one
\* makes the others that run it exit.  They never all exit for that reason:
\* as long as nothing else goes wrong, some server is not on its way out
\* (migrate.go:68, 73).
SomeoneGetsThrough ==
    faults = 0 => Servers = {} \/ \E s \in Servers : phase[s] # "exited"

\* Without faults, one of the servers comes to serve.
SomeoneServes == <>(faults > 0 \/ \E s \in Servers : phase[s] = "serving")

\* The refinement: the files in effect are those of SchemaHistory.
History == INSTANCE SchemaHistory WITH times <- schema
AppliedInOrder == History!HistorySpec
===============================================================================
