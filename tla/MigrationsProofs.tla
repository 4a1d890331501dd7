--------------------------- MODULE MigrationsProofs ---------------------------
(***************************************************************************)
(* Proofs about Migrations, for any servers, releases, files and number of *)
(* faults.  The inductive invariant says what a server's position means:   *)
(* the files it went past are applied, and the one transaction that will   *)
(* record a file is the only one that runs it.                             *)
(***************************************************************************)
EXTENDS Migrations, TLAPS

\* The rows of schema_migrations form a prefix of the files.
PrefixApplied == \A f \in ledger : 1..f \subseteq ledger

\* What a server went past, or read as applied, is applied.
PassedApplied ==
    \A s \in Servers : 1..done[s] \subseteq ledger /\ known[s] \subseteq ledger

\* A server that runs a file has that file.
RunsOwnFile ==
    \A s \in Servers :
        /\ done[s] <= Release[s]
        /\ phase[s] \in {"executed", "recorded"} => Current(s) \in 1..Release[s]
        /\ phase[s] = "serving" => done[s] = Release[s]

\* Two transactions do not run a file that is still to be applied.
SoleRunner ==
    /\ \A s, t \in Servers :
          /\ phase[s] \in {"executed", "recorded"}
          /\ phase[t] \in {"executed", "recorded"}
          /\ Current(s) = Current(t)
          => Current(s) \in ledger \/ s = t
    /\ \A s \in Servers : phase[s] = "recorded" => Current(s) \notin ledger

\* Before schema_migrations exists, no server is past its creation.
TrackedFirst ==
    \/ tracked
    \/ /\ ledger = {}
       /\ \A s \in Servers :
             phase[s] \in {"down", "connected", "creating", "exited"}

StartInv ==
    /\ StartTypeOK
    /\ LedgerMatchesSchema
    /\ PrefixApplied
    /\ PassedApplied
    /\ RunsOwnFile
    /\ SoleRunner
    /\ TrackedFirst

\* The server that got furthest is not stopped by the others: it went past
\* every file that is applied, and past the table they are listed in.
Leads(s) ==
    /\ phase[s] # "exited"
    /\ tracked => phase[s] \notin {"down", "connected", "creating"}
    /\ ledger \subseteq 1..done[s]

SomeoneLeads == faults = 0 => Servers = {} \/ \E s \in Servers : Leads(s)
-------------------------------------------------------------------------------
\* The steps of a server that apply nothing.
QuietStep(s) ==
    \/ Connect(s) \/ LookForLedger(s) \/ CreateLedger(s) \/ ListApplied(s)
    \/ SkipFile(s) \/ ExecFile(s) \/ RecordFile(s) \/ Serve(s) \/ Abort(s)

\* A server's files are among the files.
LEMMA OwnFiles ==
    ASSUME StartTypeOK, NEW s \in Servers
    PROVE  /\ done[s] \in 0..Last /\ Release[s] \in 0..Last
           /\ \A f \in 1..Release[s] : f \in Files /\ f \in 0..Last
  <1>1. done[s] \in 0..Last /\ Release[s] \in 0..Last
    BY MigrationsAssumption DEF StartTypeOK
  <1> QED
    BY <1>1, MigrationsAssumption DEF Files

LEMMA InitStartInv == StartInit => StartInv
  <1> SUFFICES ASSUME StartInit PROVE StartInv
    OBVIOUS
  <1> USE MigrationsAssumption
  <1>1. StartTypeOK
    <2>1. 0 \in 0..Last /\ 0 \in 0..MaxFaults
      OBVIOUS
    <2> QED
      BY <2>1 DEF StartInit, StartTypeOK, Files, Phases
  <1>3. LedgerMatchesSchema /\ PrefixApplied
    BY DEF StartInit, LedgerMatchesSchema, PrefixApplied, Files
  <1>2. PassedApplied /\ RunsOwnFile /\ SoleRunner /\ TrackedFirst
    BY DEF StartInit, PassedApplied, RunsOwnFile, SoleRunner, Current, TrackedFirst
  <1> QED
    BY <1>1, <1>2, <1>3 DEF StartInv

LEMMA QuietInv ==
    ASSUME StartInv, NEW s \in Servers, QuietStep(s)
    PROVE  StartInv'
  <1> USE MigrationsAssumption
  <1> USE DEF StartInv, Files, Phases
  <1>1. /\ UNCHANGED << ledger, schema >>
        /\ \A t \in Servers \ {s} : /\ phase'[t] = phase[t]
                                    /\ done'[t] = done[t]
                                    /\ known'[t] = known[t]
    BY DEF QuietStep, StartTypeOK, Connect, LookForLedger, CreateLedger, ListApplied,
           SkipFile, ExecFile, RecordFile, Serve, Abort, Move
  <1>2. /\ done'[s] \in {done[s], Current(s)}
        /\ done'[s] = Current(s) => /\ Current(s) \in known[s]
                                    /\ Current(s) \in 1..Release[s]
                                    /\ phase'[s] = "file"
        /\ known'[s] \in {known[s], ledger}
    BY DEF QuietStep, StartTypeOK, Connect, LookForLedger, CreateLedger, ListApplied,
           SkipFile, ExecFile, RecordFile, Serve, Abort, Move, Current
  <1>3. /\ phase'[s] = "executed" => /\ phase[s] = "file"
                                     /\ done'[s] = done[s]
                                     /\ Current(s) \in 1..Release[s]
                                     /\ ~Blocked(s)
        /\ phase'[s] = "recorded" => /\ phase[s] = "executed"
                                     /\ done'[s] = done[s]
                                     /\ Current(s) \notin ledger
        /\ phase'[s] = "serving" => /\ done'[s] = done[s]
                                    /\ done[s] = Release[s]
    BY DEF QuietStep, StartTypeOK, Connect, LookForLedger, CreateLedger, ListApplied,
           SkipFile, ExecFile, RecordFile, Serve, Abort, Move
  <1>4. StartTypeOK'
    <2>1. phase' \in [Servers -> Phases]
      BY DEF QuietStep, StartTypeOK, Connect, LookForLedger, CreateLedger, ListApplied,
             SkipFile, ExecFile, RecordFile, Serve, Abort, Move
    <2>2. done' \in [Servers -> 0..Last]
      <3>1. UNCHANGED done \/ done' = [done EXCEPT ![s] = Current(s)]
        BY DEF QuietStep, Connect, LookForLedger, CreateLedger, ListApplied,
               SkipFile, ExecFile, RecordFile, Serve, Abort
      <3>2. done'[s] \in 0..Last
        BY <1>2, OwnFiles DEF StartTypeOK
      <3> QED
        BY <3>1, <3>2 DEF StartTypeOK
    <2>3. known' \in [Servers -> SUBSET Files] /\ tracked' \in BOOLEAN
      BY DEF QuietStep, StartTypeOK, Connect, LookForLedger, CreateLedger, ListApplied,
             SkipFile, ExecFile, RecordFile, Serve, Abort, Move
    <2>4. faults' \in 0..MaxFaults
      BY DEF QuietStep, StartTypeOK, Connect, LookForLedger, CreateLedger, ListApplied,
             SkipFile, ExecFile, RecordFile, Serve, Abort, Fault
    <2> QED
      BY <1>1, <2>1, <2>2, <2>3, <2>4 DEF StartTypeOK
  <1>5. LedgerMatchesSchema' /\ PrefixApplied'
    BY <1>1 DEF LedgerMatchesSchema, PrefixApplied
  <1>6. PassedApplied'
    <2>1. 1..done'[s] \subseteq ledger /\ known'[s] \subseteq ledger
      BY <1>2 DEF PassedApplied, Current, StartTypeOK
    <2> QED
      BY <1>1, <2>1 DEF PassedApplied
  <1>7. RunsOwnFile'
    <2>1. done'[s] <= Release[s]
      BY <1>2, OwnFiles DEF RunsOwnFile
    <2>2. phase'[s] \in {"executed", "recorded"} => Current(s)' \in 1..Release[s]
      BY <1>3 DEF RunsOwnFile, Current
    <2>3. phase'[s] = "serving" => done'[s] = Release[s]
      BY <1>3
    <2> QED
      BY <1>1, <2>1, <2>2, <2>3 DEF RunsOwnFile, Current
  <1>8. SoleRunner'
    <2>1. \A t \in Servers \ {s} :
             /\ phase'[s] \in {"executed", "recorded"}
             /\ phase[t] \in {"executed", "recorded"}
             /\ Current(s) = Current(t)
             => Current(s) \in ledger
      BY <1>3 DEF SoleRunner, Blocked
    <2>2. phase'[s] \in {"executed", "recorded"} => done'[s] = done[s]
      BY <1>3
    <2> QED
      BY <1>1, <1>3, <2>1, <2>2 DEF SoleRunner, Current
  <1>9. TrackedFirst'
    <2>1. tracked => tracked'
      BY DEF QuietStep, Connect, LookForLedger, CreateLedger, ListApplied, SkipFile,
             ExecFile, RecordFile, Serve, Abort
    <2>2. ASSUME ~tracked, ~tracked'
          PROVE  phase'[s] \in {"down", "connected", "creating", "exited"}
      BY <2>2 DEF QuietStep, StartTypeOK, Connect, LookForLedger, CreateLedger,
             ListApplied, SkipFile, ExecFile, RecordFile, Serve, Abort, Move, TrackedFirst
    <2>3. ASSUME ~tracked' PROVE TrackedFirst'
      <3>1. ~tracked /\ ledger = {}
        BY <2>1, <2>3 DEF TrackedFirst, StartTypeOK
      <3>2. \A t \in Servers : phase'[t] \in {"down", "connected", "creating", "exited"}
        BY <1>1, <2>2, <2>3, <3>1 DEF TrackedFirst
      <3> QED
        BY <1>1, <3>1, <3>2 DEF TrackedFirst
    <2> QED
      BY <2>3 DEF TrackedFirst
  <1> QED
    BY <1>4, <1>5, <1>6, <1>7, <1>8, <1>9

\* A commit applies the file that follows the ones that are applied.
LEMMA CommitInv ==
    ASSUME StartInv, NEW s \in Servers, CommitFile(s) \/ CommitUnheard(s)
    PROVE  /\ StartInv'
           /\ ledger = 1..done[s]
           /\ ledger' = 1..Current(s)
  <1> USE MigrationsAssumption
  <1> USE DEF StartInv, Files, Phases
  <1> DEFINE f == Current(s)
  <1>1. /\ phase[s] = "recorded"
        /\ f \in 1..Release[s] /\ f \in Files /\ f \notin ledger
    BY DEF CommitFile, CommitUnheard, Move, RunsOwnFile, SoleRunner, StartTypeOK
  <1>2. /\ ledger' = ledger \cup {f}
        /\ schema' = [schema EXCEPT ![f] = schema[f] + 1]
        /\ UNCHANGED << known, tracked >>
        /\ phase'[s] \in {"file", "exited"}
        /\ done'[s] \in {done[s], f}
        /\ \A t \in Servers \ {s} : phase'[t] = phase[t] /\ done'[t] = done[t]
    BY DEF CommitFile, CommitUnheard, Move, Persist, StartTypeOK
  <1>3. ledger = 1..done[s]
    <2>1. 1..done[s] \subseteq ledger
      BY DEF PassedApplied
    <2>2. ASSUME NEW g \in ledger PROVE g \in 1..done[s]
      <3>1. g \in Nat /\ g >= 1 /\ 1..g \subseteq ledger
        BY DEF PrefixApplied, StartTypeOK
      <3>2. ~(g >= f)
        BY <1>1, <3>1
      <3> QED
        BY <3>1, <3>2 DEF Current, StartTypeOK
    <2> QED
      BY <2>1, <2>2
  <1>4. ledger' = 1..f
    BY <1>2, <1>3 DEF Current, StartTypeOK
  <1>5. StartTypeOK'
    <2>1. phase' \in [Servers -> Phases] /\ done' \in [Servers -> 0..Last]
      <3>1. f \in 0..Last
        BY <1>1, OwnFiles
      <3> QED
        BY <3>1 DEF CommitFile, CommitUnheard, Move, StartTypeOK
    <2>2. known' \in [Servers -> SUBSET Files] /\ tracked' \in BOOLEAN
      BY <1>2 DEF StartTypeOK
    <2>3. ledger' \in SUBSET Files /\ schema' \in [Files -> Nat]
      <3>1. schema[f] + 1 \in Nat
        BY <1>1 DEF StartTypeOK
      <3> QED
        BY <1>1, <1>2, <3>1 DEF StartTypeOK
    <2>4. faults' \in 0..MaxFaults
      BY DEF CommitFile, CommitUnheard, Fault, StartTypeOK
    <2> QED
      BY <2>1, <2>2, <2>3, <2>4 DEF StartTypeOK
  <1>6. LedgerMatchesSchema'
    BY <1>1, <1>2 DEF LedgerMatchesSchema, StartTypeOK
  <1>7. PrefixApplied'
    BY <1>1, <1>4 DEF PrefixApplied
  <1>8. PassedApplied'
    BY <1>1, <1>2, <1>3, <1>4 DEF PassedApplied, StartTypeOK, Current
  <1>9. RunsOwnFile'
    <2>1. f <= Release[s]
      BY <1>1, OwnFiles
    <2>2. /\ done'[s] <= Release[s]
          /\ phase'[s] \notin {"executed", "recorded", "serving"}
      BY <1>2, <2>1 DEF RunsOwnFile
    <2> QED
      BY <1>2, <2>2 DEF RunsOwnFile, Current
  <1>10. SoleRunner'
    <2>1. ASSUME NEW t \in Servers, phase'[t] = "recorded"
          PROVE  Current(t)' \notin ledger'
      <3>1. t # s /\ phase[t] = "recorded" /\ Current(t)' = Current(t)
        BY <1>2, <2>1 DEF Current
      <3>2. Current(t) # f /\ Current(t) \notin ledger
        BY <1>1, <3>1 DEF SoleRunner
      <3> QED
        BY <1>2, <3>1, <3>2
    <2>2. \A t \in Servers : phase'[t] \in {"executed", "recorded"} =>
             phase[t] = phase'[t] /\ Current(t)' = Current(t) /\ t # s
      BY <1>2 DEF Current
    <2> QED
      BY <1>2, <2>1, <2>2 DEF SoleRunner
  <1>11. TrackedFirst'
    BY <1>1, <1>2 DEF TrackedFirst
  <1> QED
    BY <1>3, <1>4, <1>5, <1>6, <1>7, <1>8, <1>9, <1>10, <1>11

LEMMA StepKinds ==
    StartNext <=> \E s \in Servers : \/ QuietStep(s)
                                     \/ CommitFile(s) \/ CommitUnheard(s)
  BY DEF StartNext, StartStep, QuietStep

LEMMA NextStartInv == StartInv /\ [StartNext]_startVars => StartInv'
  <1> SUFFICES ASSUME StartInv, [StartNext]_startVars PROVE StartInv'
    OBVIOUS
  <1>1. CASE StartNext
    BY <1>1, StepKinds, QuietInv, CommitInv
  <1>2. CASE UNCHANGED startVars
    BY <1>2 DEF startVars, StartInv, StartTypeOK, LedgerMatchesSchema, PrefixApplied,
                PassedApplied, RunsOwnFile, SoleRunner, Current, TrackedFirst
  <1> QED
    BY <1>1, <1>2

\* The invariant of the start: positions, lists and transactions mean what
\* they say, in every reachable state.
THEOREM StartInvariant == StartSpec => []StartInv
  <1> QED
    BY InitStartInv, NextStartInv, PTL DEF StartSpec

\* schema_migrations lists exactly the files in effect, each run once.
THEOREM LedgerTrue == StartSpec => []LedgerMatchesSchema
  <1>1. StartInv => LedgerMatchesSchema
    BY DEF StartInv
  <1> QED
    BY <1>1, StartInvariant, PTL

\* No server serves before all of its files are applied.
THEOREM ServingIsMigrated == StartSpec => []ServesMigrated
  <1>1. StartInv => ServesMigrated
    <2> SUFFICES ASSUME StartInv, NEW s \in Servers, phase[s] = "serving",
                        NEW f \in 1..Release[s]
                 PROVE  schema[f] = 1
      BY DEF ServesMigrated
    <2>1. f \in ledger /\ f \in Files
      BY DEF StartInv, StartTypeOK, PassedApplied, RunsOwnFile
    <2> QED
      BY <2>1 DEF StartInv, LedgerMatchesSchema
  <1> QED
    BY <1>1, StartInvariant, PTL
-------------------------------------------------------------------------------
(* The abstract history of the schema *)

LEMMA CommitApplies ==
    ASSUME StartInv, NEW s \in Servers, CommitFile(s) \/ CommitUnheard(s)
    PROVE  History!HistoryNext
  <1> DEFINE f == Current(s)
  <1>1. f \in 1..Last /\ f = done[s] + 1
    BY CommitInv, OwnFiles DEF StartInv, RunsOwnFile, CommitFile, CommitUnheard, Move,
                               Current, Files
  <1>2. \A g \in 1..Last : schema[g] = IF g < f THEN 1 ELSE 0
    <2>1. ledger = 1..done[s] /\ done[s] \in Int
      BY CommitInv, OwnFiles DEF StartInv
    <2>2. \A g \in 1..Last : g \in ledger <=> g < f
      BY <1>1, <2>1
    <2> QED
      BY <2>2 DEF StartInv, LedgerMatchesSchema, Files
  <1>3. schema' = [schema EXCEPT ![f] = 1]
    <2>1. schema' = [schema EXCEPT ![f] = schema[f] + 1]
      BY DEF CommitFile, CommitUnheard, Persist
    <2>2. schema[f] = 0
      BY <1>1, <1>2
    <2> QED
      BY <2>1, <2>2
  <1> QED
    BY <1>1, <1>2, <1>3 DEF History!HistoryNext, History!ApplyFile

\* The files take effect in the order of their names, each once, however many
\* servers run RunMigrations at the same time.
THEOREM StartRefinesHistory == StartSpec => AppliedInOrder
  <1>1. StartInit => History!HistoryInit
    BY DEF StartInit, History!HistoryInit, Files
  <1>2. StartInv /\ [StartNext]_startVars => [History!HistoryNext]_schema
    <2> SUFFICES ASSUME StartInv, [StartNext]_startVars
                 PROVE  History!HistoryNext \/ UNCHANGED schema
      OBVIOUS
    <2>1. CASE UNCHANGED startVars
      BY <2>1 DEF startVars
    <2>2. ASSUME NEW s \in Servers, QuietStep(s) PROVE UNCHANGED schema
      BY <2>2 DEF QuietStep, Connect, LookForLedger, CreateLedger, ListApplied,
                  SkipFile, ExecFile, RecordFile, Serve, Abort
    <2> QED
      BY <2>1, <2>2, StepKinds, CommitApplies
  <1> QED
    BY <1>1, <1>2, StartInvariant, PTL DEF StartSpec, AppliedInOrder, History!HistorySpec
-------------------------------------------------------------------------------
(* Servers do not all stop one another *)

\* Commands of a server that leads are not refused: it is ahead of the others.
LEMMA LeaderGoesOn ==
    ASSUME StartInv, NEW s \in Servers, QuietStep(s), ~Abort(s), Leads(s)
    PROVE  Leads(s)'
  <1> USE DEF Phases
  <1>1. /\ phase[s] \in Phases /\ done[s] \in Int
        /\ phase \in [Servers -> Phases] /\ done \in [Servers -> 0..Last]
    BY OwnFiles DEF StartInv, StartTypeOK
  <1>2. ledger' = ledger /\ Current(s) \notin ledger
    BY <1>1 DEF Leads, Current, QuietStep, Connect, LookForLedger, CreateLedger,
                ListApplied, SkipFile, ExecFile, RecordFile, Serve
  <1>3. ledger' \subseteq 1..done'[s]
    <2>1. done'[s] \in {done[s], done[s] + 1}
      BY <1>1 DEF QuietStep, Connect, LookForLedger, CreateLedger, ListApplied,
                  SkipFile, ExecFile, RecordFile, Serve, Current
    <2> QED
      BY <1>1, <1>2, <2>1 DEF Leads
  <1>4. /\ phase'[s] # "exited"
        /\ tracked' => phase'[s] \notin {"down", "connected", "creating"}
    BY <1>1, <1>2 DEF Leads, Move, QuietStep, Connect, LookForLedger, CreateLedger,
                      ListApplied, SkipFile, ExecFile, RecordFile, Serve
  <1> QED
    BY <1>3, <1>4 DEF Leads

\* Without faults a step leaves a server in the lead: the one that was, or
\* the one that created schema_migrations or committed a file.
LEMMA LeadKept ==
    ASSUME StartInv, SomeoneLeads, StartNext PROVE SomeoneLeads'
  <1> SUFFICES ASSUME faults' = 0 PROVE \E s \in Servers : Leads(s)'
    BY DEF SomeoneLeads
  <1>1. ASSUME NEW s \in Servers, CommitFile(s) \/ CommitUnheard(s)
        PROVE  \E t \in Servers : Leads(t)'
    <2>1. CommitFile(s) /\ phase[s] = "recorded"
      BY <1>1 DEF CommitFile, CommitUnheard, Fault, Move, StartInv, StartTypeOK
    <2>2. ledger' = 1..Current(s)
      BY <1>1, CommitInv
    <2>3. tracked' /\ phase'[s] = "file" /\ done'[s] = Current(s)
      BY <2>1 DEF CommitFile, Move, StartInv, StartTypeOK, TrackedFirst
    <2> QED
      BY <2>2, <2>3 DEF Leads
  <1>2. ASSUME NEW s \in Servers, QuietStep(s) PROVE \E t \in Servers : Leads(t)'
    <2>1. faults = 0 /\ ~Abort(s)
      BY <1>2 DEF QuietStep, Connect, LookForLedger, CreateLedger, ListApplied, SkipFile,
                  ExecFile, RecordFile, Serve, Abort, Fault, StartInv, StartTypeOK
    <2>2. PICK t \in Servers : Leads(t)
      BY <2>1 DEF SomeoneLeads
    <2>3. CASE s = t
      BY <1>2, <2>1, <2>2, <2>3, LeaderGoesOn
    <2>4. CASE s # t /\ UNCHANGED tracked
      <3>1. phase'[t] = phase[t] /\ done'[t] = done[t] /\ ledger' = ledger
        BY <1>2, <2>1, <2>4 DEF QuietStep, StartInv, StartTypeOK, Connect, LookForLedger,
               CreateLedger, ListApplied, SkipFile, ExecFile, RecordFile, Serve, Move
      <3> QED
        BY <2>2, <2>4, <3>1 DEF Leads
    <2>5. CASE ~UNCHANGED tracked
      <3>1. CreateLedger(s) /\ ~tracked
        BY <1>2, <2>1, <2>5 DEF QuietStep, StartInv, StartTypeOK, Connect, LookForLedger,
               CreateLedger, ListApplied, SkipFile, ExecFile, RecordFile, Serve
      <3>2. ledger' = {} /\ phase'[s] = "list"
        BY <3>1 DEF CreateLedger, Move, StartInv, StartTypeOK, TrackedFirst
      <3> QED
        BY <3>2 DEF Leads
    <2> QED
      BY <2>3, <2>4, <2>5
  <1> QED
    BY <1>1, <1>2, StepKinds

\* Servers that start together stop one another, but never all of them: while
\* nothing else goes wrong some server has not exited.
THEOREM NotAllStopped == StartSpec => []SomeoneGetsThrough
  <1>1. StartInit => SomeoneLeads
    BY DEF StartInit, SomeoneLeads, Leads
  <1>2. StartInv /\ SomeoneLeads /\ [StartNext]_startVars => SomeoneLeads'
    <2>1. SomeoneLeads /\ UNCHANGED startVars => SomeoneLeads'
      BY DEF startVars, SomeoneLeads, Leads
    <2> QED
      BY <2>1, LeadKept
  <1>3. SomeoneLeads => SomeoneGetsThrough
    BY DEF SomeoneLeads, SomeoneGetsThrough, Leads
  <1> QED
    BY <1>1, <1>2, <1>3, StartInvariant, PTL DEF StartSpec
===============================================================================
