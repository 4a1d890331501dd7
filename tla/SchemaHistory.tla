---------------------------- MODULE SchemaHistory -----------------------------
(***************************************************************************)
(* What RunMigrations promises (internal/storage/migrate.go:14): the files *)
(* of migrations/ take effect in the order of their names, each one once,  *)
(* however many servers start on the database and whatever happens to      *)
(* them.                                                                   *)
(***************************************************************************)
EXTENDS Integers

CONSTANT Last      \* the files of the newest release, 1 .. Last in name order

VARIABLE times     \* times[f]: how often the statements of file f took effect

HistoryInit == times = [f \in 1..Last |-> 0]

ApplyFile(f) ==
    /\ \A g \in 1..Last : times[g] = IF g < f THEN 1 ELSE 0
    /\ times' = [times EXCEPT ![f] = 1]

HistoryNext == \E f \in 1..Last : ApplyFile(f)

HistorySpec == HistoryInit /\ [][HistoryNext]_times
===============================================================================
