------------------------- MODULE SecretVersionsProofs -------------------------
(* Theorems about SecretVersions, for every set of requests and rollback     *)
(* targets and every number of earlier versions.                             *)
EXTENDS SecretVersions, TLAPS

-----------------------------------------------------------------------------
(* Facts about the operators the specification is built from. *)

LEMMA OverlayDomain ==
    ASSUME NEW base, NEW upd
    PROVE  /\ DOMAIN Overlay(base, upd) = DOMAIN base \cup DOMAIN upd
           /\ \A v \in DOMAIN base \cup DOMAIN upd :
                Overlay(base, upd)[v] = IF v \in DOMAIN upd THEN upd[v] ELSE base[v]
           /\ Overlay(base, upd) = [v \in DOMAIN base \cup DOMAIN upd |->
                                        Overlay(base, upd)[v]]
BY DEF Overlay

LEMMA OverlayType ==
    ASSUME NEW S, NEW base, NEW upd,
           base \in [DOMAIN base -> S], upd \in [DOMAIN upd -> S]
    PROVE  Overlay(base, upd) \in [DOMAIN Overlay(base, upd) -> S]
BY DEF Overlay

LEMMA OneRowFacts ==
    ASSUME NEW v, NEW row
    PROVE  /\ DOMAIN OneRow(v, row) = {v}
           /\ OneRow(v, row)[v] = row
           /\ OneRow(v, row) \in [{v} -> {row}]
BY DEF OneRow

\* MAX(version) of rows numbered without gaps.
LEMMA MaxOfRange ==
    ASSUME NEW n \in Nat
    PROVE  MaxOf(1 .. n) = n
<1>1. CASE n = 0
  BY <1>1 DEF MaxOf
<1>2. CASE n # 0
  <2>1. n \in 1 .. n /\ \A w \in 1 .. n : w <= n
    BY <1>2
  <2>2. \A v \in 1 .. n : (\A w \in 1 .. n : w <= v) => v = n
    BY <2>1
  <2>. QED
    BY <2>1, <2>2 DEF MaxOf
<1>. QED
  BY <1>1, <1>2

-----------------------------------------------------------------------------
(* The inductive invariant. *)

\* The transaction of r adds a version and holds the row of `secrets`.
Appending(r) ==
    \/ pc[r] \in {"pickNumber", "clear", "insertVersion"}
    \/ pc[r] \in {"update", "commit"} /\ kind[r] # "rollback"

\* A request is only at steps of the method it runs.
KindInv ==
    \A r \in Requests :
        /\ pc[r] = "fetch" => kind[r] \in {"rotate", "rollback", "revoke", "read"}
        /\ pc[r] \in {"lockSecret", "pickNumber", "clear"} => kind[r] = "rotate"
        /\ pc[r] = "insertSecret" => kind[r] = "create"
        /\ pc[r] \in {"checkTarget", "set"} => kind[r] = "rollback"
        /\ pc[r] = "insertVersion" => kind[r] \in {"create", "rotate"}
        /\ pc[r] = "update" => kind[r] \in {"rotate", "rollback"}
        /\ pc[r] = "commit" => kind[r] \in {"create", "rotate", "rollback"}

\* The committed rows are numbered without gaps.
RowsInv ==
    /\ MaxVersion \in Nat
    /\ DOMAIN versions = 1 .. MaxVersion
    /\ secret = "absent" <=> DOMAIN versions = {}

\* Whoever adds a version holds the lock, so its number stays the next one;
\* the target of a rollback exists.
NumInv ==
    \A r \in Requests :
        /\ Appending(r) => lock = r
        /\ Appending(r) /\ pc[r] # "pickNumber" => num[r] = MaxVersion + 1
        /\ Appending(r) /\ kind[r] = "create" => secret = "absent"
        /\ Appending(r) /\ kind[r] = "rotate" => secret # "absent"
        /\ pc[r] \in {"lockSecret", "revoke"} => secret # "absent"
        /\ pc[r] \in {"set", "update", "commit"} /\ kind[r] = "rollback" =>
             num[r] \in DOMAIN versions

\* What a running transaction has written: rows that exist, their values
\* unchanged, and at its end the row it makes current.
WritesInv ==
    \A r \in Requests :
        /\ pc[r] \notin {"update", "insertVersion", "commit"} => DOMAIN writes[r] = {}
        /\ pc[r] # "update" => todo[r] = {}
        /\ todo[r] \subseteq DOMAIN versions
        /\ DOMAIN writes[r] \subseteq DOMAIN versions \cup {num[r]}
        /\ pc[r] \in {"update", "insertVersion"} => DOMAIN writes[r] \subseteq DOMAIN versions
        /\ \A v \in DOMAIN writes[r] \cap DOMAIN versions :
             writes[r][v].value = versions[v].value
        /\ pc[r] \in {"update", "commit"} /\ kind[r] = "rollback" =>
             /\ num[r] \in todo[r] \cup DOMAIN writes[r]
             /\ num[r] \in DOMAIN writes[r] => writes[r][num[r]].current
        /\ pc[r] = "commit" => num[r] \in DOMAIN writes[r] /\ writes[r][num[r]].current

IInv == TypeOK /\ KindInv /\ RowsInv /\ NumInv /\ WritesInv
        /\ AtLeastOneCurrent /\ NoDuplicateNumber

\* Steps that commit nothing.
LEMMA NothingCommitted ==
    ASSUME IInv, UNCHANGED << secret, versions >>
    PROVE  /\ MaxVersion' = MaxVersion
           /\ CurrentVersions' = CurrentVersions
           /\ RowsInv' /\ AtLeastOneCurrent'
<1>1. MaxVersion' = MaxVersion /\ CurrentVersions' = CurrentVersions
  BY DEF MaxVersion, CurrentVersions
<1>. QED
  BY <1>1 DEF IInv, RowsInv, AtLeastOneCurrent

\* The steps that change only a request's own place, answer and log entry.
LEMMA QuietStep ==
    ASSUME NEW r \in Requests, IInv, UNCHANGED << secret, versions, lock, todo, writes, num, kind, born >>,
           result' \in [Requests -> Answers], \A q \in Requests : result'[q] # "duplicate",
           logged' \subseteq Requests,
           NEW to \in Steps, pc' = [pc EXCEPT ![r] = to],
           to \notin {"pickNumber", "clear", "insertVersion", "update", "commit"},
           pc[r] \notin {"update", "insertVersion", "commit"},
           to = "set" => num[r] \in DOMAIN versions,
           to \in {"lockSecret", "revoke"} => secret # "absent",
           to \in {"lockSecret"} => kind[r] = "rotate",
           to \in {"checkTarget", "set"} => kind[r] = "rollback",
           to \notin {"insertSecret", "fetch"}
    PROVE  IInv'
<1>. USE DEF IInv, TypeOK
<1>1. TypeOK'
  BY SMTT(30) DEF MaxVersion
<1>2. KindInv'
  BY DEF KindInv
<1>3. MaxVersion' = MaxVersion /\ RowsInv' /\ AtLeastOneCurrent'
  BY NothingCommitted
<1>4. NumInv'
  BY <1>3 DEF NumInv, Appending, KindInv
<1>5. WritesInv'
  BY DEF WritesInv
<1>6. NoDuplicateNumber'
  BY DEF NoDuplicateNumber
<1>. QED
  BY <1>1, <1>2, <1>3, <1>4, <1>5, <1>6

LEMMA InitIInv == Init => IInv
<1> SUFFICES ASSUME Init PROVE IInv
  OBVIOUS
<1>1. MaxVersion = Seed /\ DOMAIN versions = 1 .. Seed
  <2>1. DOMAIN versions = 1 .. Seed
    BY Assumption DEF Init, NoRows
  <2>. QED
    BY <2>1, MaxOfRange, Assumption DEF MaxVersion
<1>2. TypeOK
  <2>1. versions \in [DOMAIN versions -> Row]
    <3>1. CASE Seed = 0 /\ versions = NoRows
      BY <3>1 DEF NoRows
    <3>2. ASSUME NEW c \in 1 .. Seed,
                 versions = [v \in 1 .. Seed |-> [value |-> None, current |-> v = c]]
          PROVE  versions \in [DOMAIN versions -> Row]
      BY <3>2 DEF Row
    <3>. QED
      BY <3>1, <3>2 DEF Init
  <2>2. NoRows \in [DOMAIN NoRows -> Row] /\ DOMAIN NoRows = {}
    BY DEF NoRows, Row
  <2>. QED
    BY <1>1, <2>1, <2>2, Assumption DEF Init, TypeOK, Status, Steps, Answers
<1>3. KindInv /\ NumInv /\ WritesInv /\ NoDuplicateNumber
  BY DEF Init, KindInv, NumInv, WritesInv, NoDuplicateNumber, Appending, NoRows
<1>4. RowsInv
  BY <1>1, Assumption DEF Init, RowsInv
<1>5. AtLeastOneCurrent
  <2> SUFFICES ASSUME Seed # 0 PROVE CurrentVersions # {}
    BY DEF Init, AtLeastOneCurrent
  <2>1. PICK c \in 1 .. Seed :
          versions = [v \in 1 .. Seed |-> [value |-> None, current |-> v = c]]
    BY DEF Init
  <2>2. versions[c].current
    BY <2>1
  <2>. QED
    BY <1>1, <2>1, <2>2 DEF CurrentVersions
<1>. QED
  BY <1>2, <1>3, <1>4, <1>5 DEF IInv

\* A transaction that is rolled back.
LEMMA AbortStep ==
    ASSUME NEW r \in Requests, IInv, Release(r),
           UNCHANGED << secret, versions, kind, born, num, logged >>,
           pc' = [pc EXCEPT ![r] = "done"],
           NEW a \in Answers \ {"duplicate"}, result' = [result EXCEPT ![r] = a]
    PROVE  IInv'
<1>. USE DEF IInv, Release
<1>1. NoRows \in [DOMAIN NoRows -> Row] /\ DOMAIN NoRows = {}
  BY DEF NoRows, Row
<1>2. TypeOK'
  BY <1>1 DEF TypeOK, Steps
<1>3. MaxVersion' = MaxVersion /\ RowsInv' /\ AtLeastOneCurrent'
  BY NothingCommitted
<1>4. KindInv' /\ NoDuplicateNumber'
  BY DEF KindInv, NoDuplicateNumber, TypeOK
<1>5. NumInv'
  BY <1>3 DEF NumInv, Appending, TypeOK
<1>6. WritesInv'
  BY <1>1 DEF WritesInv, TypeOK
<1>. QED
  BY <1>2, <1>3, <1>4, <1>5, <1>6

\* A committing transaction adds at most the next version, keeps the values
\* of the others, and leaves the version it is about current.
LEMMA CommitRows ==
    ASSUME NEW r \in Requests, IInv, Commit(r)
    PROVE  /\ DOMAIN versions' = DOMAIN versions \cup DOMAIN writes[r]
           /\ kind[r] = "rollback" => DOMAIN versions' = DOMAIN versions
           /\ kind[r] # "rollback" =>
                /\ DOMAIN versions' = DOMAIN versions \cup {MaxVersion + 1}
                /\ MaxVersion' = MaxVersion + 1
           /\ \A v \in DOMAIN versions : versions'[v].value = versions[v].value
           /\ num[r] \in DOMAIN versions' /\ versions'[num[r]].current
           /\ versions' \in [DOMAIN versions' -> Row]
<1>1. /\ pc[r] = "commit"
      /\ versions' = Overlay(versions, writes[r])
  BY DEF Commit, Goto
<1>2. /\ DOMAIN versions' = DOMAIN versions \cup DOMAIN writes[r]
      /\ \A v \in DOMAIN versions' :
           versions'[v] = IF v \in DOMAIN writes[r] THEN writes[r][v] ELSE versions[v]
  BY <1>1 DEF Overlay
<1>3. /\ num[r] \in DOMAIN writes[r] /\ writes[r][num[r]].current
      /\ DOMAIN writes[r] \subseteq DOMAIN versions \cup {num[r]}
      /\ \A v \in DOMAIN writes[r] \cap DOMAIN versions :
           writes[r][v].value = versions[v].value
  BY <1>1 DEF IInv, WritesInv
<1>4. kind[r] = "rollback" => num[r] \in DOMAIN versions
  BY <1>1 DEF IInv, NumInv
<1>5. kind[r] # "rollback" => num[r] = MaxVersion + 1
  BY <1>1 DEF IInv, NumInv, Appending
<1>6. ASSUME kind[r] # "rollback"
      PROVE  MaxVersion' = MaxVersion + 1
  <2>1. DOMAIN versions' = 1 .. (MaxVersion + 1) /\ MaxVersion + 1 \in Nat
    <3>1. MaxVersion \in Nat /\ DOMAIN versions = 1 .. MaxVersion
      BY DEF IInv, RowsInv
    <3>2. DOMAIN versions' = DOMAIN versions \cup {MaxVersion + 1}
      BY <1>2, <1>3, <1>5, <1>6
    <3>. QED
      BY <3>1, <3>2
  <2>2. MaxOf(1 .. (MaxVersion + 1)) = MaxVersion + 1
    BY <2>1, MaxOfRange
  <2>. QED
    BY <2>1, <2>2 DEF MaxVersion
<1>7. versions' \in [DOMAIN versions' -> Row]
  BY <1>1, OverlayType DEF IInv, TypeOK
<1>8. \A v \in DOMAIN versions : versions'[v].value = versions[v].value
  BY <1>2, <1>3
<1>9. num[r] \in DOMAIN versions' /\ versions'[num[r]].current
  BY <1>2, <1>3
<1>10. kind[r] = "rollback" => DOMAIN versions' = DOMAIN versions
  BY <1>2, <1>3, <1>4
<1>11. kind[r] # "rollback" => DOMAIN versions' = DOMAIN versions \cup {MaxVersion + 1}
  BY <1>2, <1>3, <1>5
<1>. QED
  BY <1>2, <1>6, <1>7, <1>8, <1>9, <1>10, <1>11

LEMMA CommitIInv ==
    ASSUME NEW r \in Requests, IInv, Commit(r)
    PROVE  IInv'
<1>. USE DEF IInv
<1>1. /\ UNCHANGED << kind, born, num, logged >>
      /\ pc[r] = "commit"
      /\ \E to \in {"log", "done"} : pc' = [pc EXCEPT ![r] = to]
      /\ \E a \in {"ok", "unknown"} : result' = [result EXCEPT ![r] = a]
      /\ secret' = IF kind[r] = "create" THEN "active" ELSE secret
      /\ lock' = IF lock = r THEN None ELSE lock
      /\ writes' = [writes EXCEPT ![r] = NoRows]
      /\ todo' = [todo EXCEPT ![r] = {}]
  BY DEF Commit, Goto, Answer, Release, Call
<1>2. NoRows \in [DOMAIN NoRows -> Row] /\ DOMAIN NoRows = {}
  BY DEF NoRows, Row
<1>3. MaxVersion \in Nat
  BY DEF RowsInv
<1>4. TypeOK'
  <2>1. DOMAIN versions' \subseteq Nat /\ versions' \in [DOMAIN versions' -> Row]
    <3>1. CASE kind[r] = "rollback"
      BY <3>1, CommitRows DEF TypeOK
    <3>2. CASE kind[r] # "rollback"
      <4>1. DOMAIN versions' = DOMAIN versions \cup {MaxVersion + 1}
        BY <3>2, CommitRows
      <4>2. MaxVersion + 1 \in Nat
        BY <1>3
      <4>. QED
        BY <4>1, <4>2, CommitRows DEF TypeOK
    <3>. QED
      BY <3>1, <3>2
  <2>2. pc' \in [Requests -> Steps] /\ result' \in [Requests -> Answers]
        /\ secret' \in Status
    BY <1>1 DEF TypeOK, Steps, Answers, Status
  <2>. QED
    BY <1>1, <1>2, <2>1, <2>2 DEF TypeOK
<1>5. KindInv' /\ NoDuplicateNumber'
  BY <1>1 DEF KindInv, NoDuplicateNumber, TypeOK
<1>6. secret' # "absent" /\ (kind[r] # "create" => secret # "absent")
  BY <1>1 DEF NumInv, KindInv, RowsInv, Appending
<1>7. RowsInv' /\ AtLeastOneCurrent'
  <2>1. AtLeastOneCurrent' /\ DOMAIN versions' # {}
    BY CommitRows DEF AtLeastOneCurrent, CurrentVersions
  <2>2. MaxVersion' \in Nat /\ DOMAIN versions' = 1 .. MaxVersion'
    <3>1. CASE kind[r] = "rollback"
      BY <3>1, CommitRows DEF RowsInv, MaxVersion
    <3>2. CASE kind[r] # "rollback"
      <4>1. /\ DOMAIN versions = 1 .. MaxVersion
            /\ DOMAIN versions' = DOMAIN versions \cup {MaxVersion + 1}
            /\ MaxVersion' = MaxVersion + 1
        BY <3>2, CommitRows DEF RowsInv
      <4>. QED
        BY <1>3, <4>1
    <3>. QED
      BY <3>1, <3>2
  <2>. QED
    BY <1>6, <2>1, <2>2 DEF RowsInv
<1>8. \A q \in Requests : Appending(q)' =>
        q # r /\ Appending(q) /\ kind[r] = "rollback" /\ MaxVersion' = MaxVersion
  <2>1. \A q \in Requests : Appending(q)' => q # r /\ Appending(q)
    BY <1>1 DEF Appending, TypeOK
  <2>2. kind[r] # "rollback" => \A q \in Requests : Appending(q) => q = r
    BY <1>1 DEF NumInv, Appending
  <2>3. kind[r] = "rollback" => MaxVersion' = MaxVersion
    BY CommitRows DEF MaxVersion
  <2>. QED
    BY <2>1, <2>2, <2>3
<1>9. NumInv'
  <2>1. \A q \in Requests : Appending(q)' => lock' = q
    BY <1>1, <1>8 DEF NumInv
  <2>2. \A q \in Requests : Appending(q)' => (kind'[q] = "create" => secret' = "absent")
    BY <1>1, <1>8 DEF NumInv
  <2>3. \A q \in Requests : Appending(q)' /\ pc'[q] # "pickNumber" =>
                              num'[q] = MaxVersion' + 1
    <3>1. \A q \in Requests \ {r} : pc'[q] = pc[q]
      BY <1>1 DEF TypeOK
    <3>. QED
      BY <1>1, <1>8, <3>1 DEF NumInv
  <2>4. \A q \in Requests : pc'[q] \in {"set", "update", "commit"} /\ kind'[q] = "rollback"
                              => num'[q] \in DOMAIN versions'
    <3>1. \A q \in Requests : pc'[q] = pc[q] \/ pc'[q] \in {"log", "done"}
      BY <1>1 DEF TypeOK
    <3>. QED
      BY <1>1, <3>1, CommitRows DEF NumInv
  <2>. QED
    BY <1>6, <2>1, <2>2, <2>3, <2>4 DEF NumInv
<1>10. WritesInv'
  <2>1. DOMAIN versions \subseteq DOMAIN versions'
    BY CommitRows
  <2>2. ASSUME NEW q \in Requests \ {r}, NEW v \in DOMAIN writes[q] \cap DOMAIN versions'
        PROVE  writes[q][v].value = versions'[v].value
    <3>1. v \in DOMAIN versions
      <4>1. CASE kind[r] = "rollback"
        BY <2>2, <4>1, CommitRows
      <4>2. CASE kind[r] # "rollback"
        <5>1. ~Appending(q)
          BY <1>1, <4>2 DEF NumInv, Appending
        <5>. QED
          BY <2>2, <5>1 DEF WritesInv, NumInv, Appending, KindInv
      <4>. QED
        BY <4>1, <4>2
    <3>. QED
      BY <2>2, <3>1, CommitRows DEF WritesInv
  <2>3. ASSUME NEW q \in Requests \ {r}
        PROVE  writes'[q] = writes[q] /\ todo'[q] = todo[q] /\ pc'[q] = pc[q]
    BY <1>1 DEF TypeOK
  <2>4. writes'[r] = NoRows /\ todo'[r] = {} /\ pc'[r] \in {"log", "done"}
    BY <1>1 DEF TypeOK
  <2>. QED
    BY <1>1, <1>2, <2>1, <2>2, <2>3, <2>4 DEF WritesInv
<1>. QED
  BY <1>4, <1>5, <1>7, <1>9, <1>10

LEMMA ServeIInv ==
    ASSUME NEW r \in Requests, IInv, Serve(r)
    PROVE  IInv'
<1>. USE DEF Goto, Answer, DB, Tx, Call
<1>1. CASE Fetch(r)
  <2>1. kind[r] \in {"rotate", "rollback", "revoke", "read"}
    BY <1>1 DEF Fetch, IInv, KindInv
  <2>2. /\ FirstStep[kind[r]] \in {"lockSecret", "checkTarget", "revoke", "readValue"}
        /\ FirstStep[kind[r]] = "lockSecret" => kind[r] = "rotate"
        /\ FirstStep[kind[r]] = "checkTarget" => kind[r] = "rollback"
    BY <2>1 DEF FirstStep
  <2>. QED
    BY <1>1, <2>1, <2>2, QuietStep DEF Fetch, IInv, TypeOK, Steps, Answers, NoDuplicateNumber
<1>2. CASE Refuse(r)
  BY <1>2, QuietStep DEF Refuse, IInv, TypeOK, Steps, Answers, NoDuplicateNumber
<1>3. CASE Deny(r)
  BY <1>3, QuietStep DEF Deny, IInv, TypeOK, Steps, Answers, NoDuplicateNumber
<1>4. CASE NameTaken(r)
  BY <1>4, QuietStep DEF NameTaken, IInv, TypeOK, Steps, Answers, NoDuplicateNumber
<1>5. CASE CheckTarget(r)
  <2>1. /\ UNCHANGED << secret, versions, lock, todo, writes, num, kind, born >>
        /\ logged' \subseteq Requests
        /\ pc[r] = "checkTarget"
        /\ kind[r] = "rollback"
    BY <1>5 DEF CheckTarget, IInv, TypeOK, KindInv
  <2>2. CASE num[r] \in DOMAIN versions
    <3>1. pc' = [pc EXCEPT ![r] = "set"] /\ result' = result
      BY <1>5, <2>2 DEF CheckTarget
    <3>2. result' \in [Requests -> Answers] /\ \A q \in Requests : result'[q] # "duplicate"
      BY <3>1 DEF IInv, TypeOK, NoDuplicateNumber
    <3>. QED
      BY <2>1, <2>2, <3>1, <3>2, QuietStep DEF Steps
  <2>3. CASE num[r] \notin DOMAIN versions
    <3>1. pc' = [pc EXCEPT ![r] = "done"] /\ result' = [result EXCEPT ![r] = "notFound"]
      BY <1>5, <2>3 DEF CheckTarget
    <3>2. result' \in [Requests -> Answers] /\ \A q \in Requests : result'[q] # "duplicate"
      BY <3>1 DEF IInv, TypeOK, NoDuplicateNumber, Answers
    <3>. QED
      BY <2>1, <3>1, <3>2, QuietStep DEF Steps
  <2>. QED
    BY <2>2, <2>3
<1>6. CASE Log(r)
  BY <1>6, QuietStep DEF Log, IInv, TypeOK, Steps, Answers, NoDuplicateNumber
<1>. USE DEF IInv
<1>7. CASE InsertSecret(r)
  <2>. USE <1>7 DEF InsertSecret
  <2>1. TypeOK'
    BY DEF TypeOK, Steps
  <2>2. MaxVersion' = MaxVersion /\ RowsInv' /\ AtLeastOneCurrent'
    BY NothingCommitted
  <2>3. MaxVersion = 0
    BY DEF RowsInv
  <2>4. KindInv'
    BY DEF KindInv, TypeOK
  <2>6. NumInv'
    BY <2>2, <2>3, Assumption DEF NumInv, KindInv, Appending, TypeOK
  <2>7. WritesInv'
    BY DEF WritesInv, TypeOK
  <2>8. NoDuplicateNumber'
    BY DEF NoDuplicateNumber
  <2>. QED
    BY <2>1, <2>2, <2>4, <2>6, <2>7, <2>8
<1>8. CASE LockSecret(r)
  <2>. USE <1>8 DEF LockSecret
  <2>1. TypeOK'
    BY DEF TypeOK, Steps
  <2>2. MaxVersion' = MaxVersion /\ RowsInv' /\ AtLeastOneCurrent'
    BY NothingCommitted
  <2>4. KindInv'
    BY DEF KindInv, TypeOK
  <2>6. NumInv'
    BY <2>2, Assumption DEF NumInv, KindInv, Appending, TypeOK
  <2>7. WritesInv'
    BY DEF WritesInv, TypeOK
  <2>8. NoDuplicateNumber'
    BY DEF NoDuplicateNumber
  <2>. QED
    BY <2>1, <2>2, <2>4, <2>6, <2>7, <2>8
<1>9. CASE PickNumber(r)
  <2>. USE <1>9 DEF PickNumber
  <2>1. TypeOK'
    BY DEF TypeOK, Steps, RowsInv
  <2>2. MaxVersion' = MaxVersion /\ RowsInv' /\ AtLeastOneCurrent'
    BY NothingCommitted
  <2>4. KindInv'
    BY DEF KindInv, TypeOK
  <2>6. NumInv'
    BY <2>2 DEF NumInv, KindInv, Appending, TypeOK
  <2>7. WritesInv'
    BY DEF WritesInv, TypeOK
  <2>8. NoDuplicateNumber'
    BY DEF NoDuplicateNumber
  <2>. QED
    BY <2>1, <2>2, <2>4, <2>6, <2>7, <2>8
<1>10. CASE BeginClear(r)
  <2>. USE <1>10 DEF BeginClear
  <2>0. CurrentVersions \subseteq DOMAIN versions
    BY DEF CurrentVersions
  <2>1. TypeOK'
    BY <2>0 DEF TypeOK, Steps
  <2>2. MaxVersion' = MaxVersion /\ RowsInv' /\ AtLeastOneCurrent'
    BY NothingCommitted
  <2>4. KindInv'
    BY DEF KindInv, TypeOK
  <2>6. NumInv'
    BY <2>2 DEF NumInv, KindInv, Appending, TypeOK
  <2>7. WritesInv'
    BY <2>0 DEF WritesInv, TypeOK, KindInv
  <2>8. NoDuplicateNumber'
    BY DEF NoDuplicateNumber
  <2>. QED
    BY <2>1, <2>2, <2>4, <2>6, <2>7, <2>8
<1>11. CASE BeginSet(r)
  <2>. USE <1>11 DEF BeginSet
  <2>1. TypeOK'
    BY DEF TypeOK, Steps
  <2>2. MaxVersion' = MaxVersion /\ RowsInv' /\ AtLeastOneCurrent'
    BY NothingCommitted
  <2>4. KindInv'
    BY DEF KindInv, TypeOK
  <2>6. NumInv'
    BY <2>2 DEF NumInv, KindInv, Appending, TypeOK
  <2>7. WritesInv'
    BY DEF WritesInv, TypeOK, KindInv, NumInv
  <2>8. NoDuplicateNumber'
    BY DEF NoDuplicateNumber
  <2>. QED
    BY <2>1, <2>2, <2>4, <2>6, <2>7, <2>8
<1>12. CASE InsertVersion(r)
  <2>1. /\ pc[r] = "insertVersion"
        /\ num[r] = MaxVersion + 1
        /\ num[r] \notin DOMAIN versions
        /\ num[r] \notin DOMAIN writes[r]
        /\ num[r] \in Nat
    BY <1>12 DEF InsertVersion, NumInv, RowsInv, Appending, WritesInv, TypeOK
  <2> DEFINE row == [value |-> r, current |-> TRUE]
             new == Overlay(writes[r], OneRow(num[r], row))
  <2>2. /\ UNCHANGED << secret, versions, lock, todo, num, kind, born, result, logged >>
        /\ pc' = [pc EXCEPT ![r] = "commit"]
        /\ writes' = [writes EXCEPT ![r] = new]
    BY <1>12, <2>1 DEF InsertVersion
  <2>3. /\ DOMAIN new = DOMAIN writes[r] \cup {num[r]}
        /\ new[num[r]] = row
        /\ \A v \in DOMAIN writes[r] : new[v] = writes[r][v]
    BY <2>1 DEF Overlay, OneRow
  <2>4. new \in [DOMAIN new -> Row]
    <3>1. row \in Row
      BY DEF Row
    <3>2. writes[r] \in [DOMAIN writes[r] -> Row]
      BY DEF TypeOK
    <3>3. OneRow(num[r], row) \in [DOMAIN OneRow(num[r], row) -> Row]
      BY <3>1 DEF OneRow
    <3>. QED
      BY <3>2, <3>3, OverlayType
  <2>. HIDE DEF new
  <2>5. TypeOK'
    BY <2>1, <2>2, <2>3, <2>4 DEF TypeOK, Steps
  <2>6. MaxVersion' = MaxVersion /\ RowsInv' /\ AtLeastOneCurrent'
    BY <2>2, NothingCommitted
  <2>7. KindInv'
    BY <2>1, <2>2 DEF KindInv, TypeOK
  <2>8. NumInv'
    BY <2>1, <2>2, <2>6 DEF NumInv, KindInv, Appending, TypeOK
  <2>9. WritesInv'
    BY <2>1, <2>2, <2>3 DEF WritesInv, TypeOK, KindInv
  <2>10. NoDuplicateNumber'
    BY <2>2 DEF NoDuplicateNumber
  <2>. QED
    BY <2>5, <2>6, <2>7, <2>8, <2>9, <2>10
<1>13. CASE UpdateRow(r)
  <2>1. PICK v \in todo[r] :
          /\ writes' = [writes EXCEPT ![r] = Overlay(@, OneRow(v, Updated(r, v)))]
          /\ todo' = [todo EXCEPT ![r] = @ \ {v}]
    BY <1>13 DEF UpdateRow
  <2>2. /\ UNCHANGED << secret, versions, lock, pc, num, kind, born, result, logged >>
        /\ pc[r] = "update"
        /\ v \in DOMAIN versions
        /\ v \in Nat
    BY <1>13, <2>1 DEF UpdateRow, WritesInv, TypeOK
  <2> DEFINE row == Updated(r, v)
             new == Overlay(writes[r], OneRow(v, row))
  <2>3. /\ DOMAIN new = DOMAIN writes[r] \cup {v}
        /\ new[v] = row
        /\ \A w \in DOMAIN writes[r] \ {v} : new[w] = writes[r][w]
    BY DEF Overlay, OneRow
  <2>4. /\ row \in Row
        /\ row.value = versions[v].value
        /\ kind[r] = "rollback" /\ v = num[r] => row.current
    <3>1. versions[v] \in Row
      BY <2>2 DEF TypeOK
    <3>. QED
      BY <3>1 DEF Updated, Row
  <2>5. new \in [DOMAIN new -> Row]
    <3>1. writes[r] \in [DOMAIN writes[r] -> Row]
      BY DEF TypeOK
    <3>2. OneRow(v, row) \in [DOMAIN OneRow(v, row) -> Row]
      BY <2>4 DEF OneRow
    <3>. QED
      BY <3>1, <3>2, OverlayType
  <2>6. writes' = [writes EXCEPT ![r] = new]
    BY <2>1
  <2>. HIDE DEF new, row
  <2>7. TypeOK'
    BY <2>1, <2>2, <2>3, <2>5, <2>6 DEF TypeOK
  <2>8. MaxVersion' = MaxVersion /\ RowsInv' /\ AtLeastOneCurrent'
    BY <2>2, NothingCommitted
  <2>9. KindInv' /\ NumInv' /\ NoDuplicateNumber'
    BY <2>2, <2>8 DEF KindInv, NumInv, Appending, NoDuplicateNumber
  <2>10. WritesInv'
    <3>1. /\ writes'[r] = new /\ todo'[r] = todo[r] \ {v}
          /\ \A q \in Requests \ {r} : writes'[q] = writes[q] /\ todo'[q] = todo[q]
      BY <2>1, <2>6 DEF TypeOK
    <3>2. \A w \in DOMAIN new \cap DOMAIN versions : new[w].value = versions[w].value
      BY <2>3, <2>4 DEF WritesInv
    <3>. QED
      BY <2>1, <2>2, <2>3, <2>4, <3>1, <3>2 DEF WritesInv
  <2>. QED
    BY <2>7, <2>8, <2>9, <2>10
<1>14. CASE EndUpdate(r)
  <2>. USE <1>14 DEF EndUpdate
  <2>1. TypeOK'
    BY DEF TypeOK, Steps
  <2>2. MaxVersion' = MaxVersion /\ RowsInv' /\ AtLeastOneCurrent'
    BY NothingCommitted
  <2>3. KindInv'
    BY DEF KindInv, TypeOK
  <2>4. NumInv'
    BY <2>2 DEF NumInv, KindInv, Appending, TypeOK
  <2>5. WritesInv'
    BY DEF WritesInv, TypeOK, KindInv
  <2>6. NoDuplicateNumber'
    BY DEF NoDuplicateNumber
  <2>. QED
    BY <2>1, <2>2, <2>3, <2>4, <2>5, <2>6
<1>15. CASE RevokeRow(r)
  <2>. USE <1>15 DEF RevokeRow
  <2>1. TypeOK'
    BY DEF TypeOK, Status, Steps, Answers
  <2>2. /\ secret # "absent" /\ secret' # "absent"
        /\ \A q \in Requests : Appending(q) => FALSE
    BY Assumption DEF NumInv, KindInv, TypeOK
  <2>3. MaxVersion' = MaxVersion /\ CurrentVersions' = CurrentVersions
    BY DEF MaxVersion, CurrentVersions
  <2>4. KindInv' /\ RowsInv' /\ AtLeastOneCurrent'
    BY <2>2, <2>3 DEF KindInv, RowsInv, AtLeastOneCurrent, TypeOK
  <2>5. NumInv'
    BY <2>2, <2>3 DEF NumInv, Appending, TypeOK
  <2>6. WritesInv' /\ NoDuplicateNumber'
    BY DEF WritesInv, NoDuplicateNumber, TypeOK
  <2>. QED
    BY <2>1, <2>4, <2>5, <2>6
<1>16. CASE ReadValue(r)
  <2>. USE <1>16 DEF ReadValue
  <2>1. TypeOK'
    <3>1. CurrentVersions \subseteq Nat
      BY DEF TypeOK, CurrentVersions
    <3>2. num' \in [Requests -> Nat]
      <4>1. CASE CurrentVersions = {}
        BY <4>1 DEF TypeOK
      <4>2. CASE CurrentVersions # {}
        BY <3>1, <4>2 DEF TypeOK
      <4>. QED
        BY <4>1, <4>2
    <3>3. pc' \in [Requests -> Steps] /\ result' \in [Requests -> Answers]
      BY DEF TypeOK, Steps, Answers
    <3>. QED
      BY <3>2, <3>3 DEF TypeOK
  <2>2. MaxVersion' = MaxVersion /\ RowsInv' /\ AtLeastOneCurrent'
    BY NothingCommitted
  <2>3. KindInv' /\ NoDuplicateNumber'
    BY DEF KindInv, NoDuplicateNumber, TypeOK
  <2>4. NumInv'
    BY <2>2 DEF NumInv, Appending, TypeOK
  <2>5. WritesInv'
    BY DEF WritesInv, TypeOK
  <2>. QED
    BY <2>1, <2>2, <2>3, <2>4, <2>5
<1>17. CASE DeadlockVictim(r)
  BY <1>17, AbortStep DEF DeadlockVictim, Answers
<1>. QED
  BY <1>1, <1>2, <1>3, <1>4, <1>5, <1>6, <1>7, <1>8, <1>9, <1>10, <1>11,
     <1>12, <1>13, <1>14, <1>15, <1>16, <1>17, CommitIInv DEF Serve

LEMMA StartIInv ==
    ASSUME NEW r \in Requests, IInv, Start(r)
    PROVE  IInv'
<1>. USE DEF IInv, Goto, DB, Tx
<1>1. PICK k \in Kinds :
        /\ kind' = [kind EXCEPT ![r] = k]
        /\ pc[r] = "idle"
        /\ pc' = [pc EXCEPT ![r] = IF k = "create" THEN "insertSecret" ELSE "fetch"]
        /\ k # "rollback" => UNCHANGED num
        /\ k = "rollback" => \E t \in Targets : num' = [num EXCEPT ![r] = t]
  BY DEF Start
<1>2. UNCHANGED << secret, versions, lock, writes, todo, result, logged >>
  BY DEF Start
<1>3. MaxVersion' = MaxVersion /\ RowsInv' /\ AtLeastOneCurrent'
  BY <1>2, NothingCommitted
<1>4. TypeOK'
  <2>1. num' \in [Requests -> Nat]
    BY <1>1, Assumption DEF TypeOK
  <2>2. born' \in [Requests -> [last : Nat, revoked : BOOLEAN]]
    BY DEF Start, TypeOK, RowsInv
  <2>3. kind' \in [Requests -> Kinds \cup {"none"}] /\ pc' \in [Requests -> Steps]
    BY <1>1 DEF TypeOK, Steps
  <2>. QED
    BY <1>2, <2>1, <2>2, <2>3 DEF TypeOK
<1>5. KindInv'
  BY <1>1, Assumption DEF KindInv, TypeOK
<1>6. /\ pc'[r] \in {"insertSecret", "fetch"}
      /\ \A q \in Requests \ {r} : pc'[q] = pc[q] /\ kind'[q] = kind[q] /\ num'[q] = num[q]
  BY <1>1 DEF TypeOK
<1>7. NumInv'
  BY <1>2, <1>3, <1>6 DEF NumInv, Appending
<1>8. WritesInv'
  BY <1>1, <1>2, <1>6 DEF WritesInv
<1>9. NoDuplicateNumber'
  BY <1>2 DEF NoDuplicateNumber
<1>. QED
  BY <1>3, <1>4, <1>5, <1>7, <1>8, <1>9

LEMMA NextIInv == IInv /\ [Next]_vars => IInv'
<1> SUFFICES ASSUME IInv, [Next]_vars PROVE IInv'
  OBVIOUS
<1>1. ASSUME NEW r \in Requests, Fail(r) PROVE IInv'
  <2> DEFINE a == IF pc[r] = "log" THEN "unknown" ELSE "error"
  <2>1. a \in Answers \ {"duplicate"}
    BY DEF Answers
  <2>2. /\ Release(r)
        /\ UNCHANGED << secret, versions, kind, born, num, logged >>
        /\ pc' = [pc EXCEPT ![r] = "done"]
        /\ result' = [result EXCEPT ![r] = a]
    BY <1>1 DEF Fail, Answer, DB, Call
  <2>. QED
    BY <2>1, <2>2, AbortStep
<1>2. CASE UNCHANGED vars
  <2>1. MaxVersion' = MaxVersion /\ RowsInv' /\ AtLeastOneCurrent'
    BY <1>2, NothingCommitted DEF vars
  <2>2. TypeOK' /\ KindInv' /\ NoDuplicateNumber'
    BY <1>2 DEF vars, IInv, TypeOK, KindInv, NoDuplicateNumber
  <2>3. NumInv' /\ WritesInv'
    BY <1>2, <2>1 DEF vars, IInv, NumInv, Appending, WritesInv
  <2>. QED
    BY <2>1, <2>2, <2>3 DEF IInv
<1>. QED
  BY <1>1, <1>2, StartIInv, ServeIInv DEF Next, AllDone
-----------------------------------------------------------------------------
(* The theorems. *)

LEMMA InductiveInvariant == Spec => []IInv
BY InitIInv, NextIInv, PTL DEF Spec

\* The variables keep their types: in particular every version row, stored
\* or still private to a transaction, is a whole row.
THEOREM TypeCorrect == Spec => []TypeOK
<1>1. IInv => TypeOK
  BY DEF IInv
<1>. QED
  BY <1>1, InductiveInvariant, PTL

\* A secret that exists always has a current version, whatever rotations and
\* rollbacks run together and wherever they fail.
THEOREM SecretStaysReadable == Spec => []AtLeastOneCurrent
<1>1. IInv => AtLeastOneCurrent
  BY DEF IInv
<1>. QED
  BY <1>1, InductiveInvariant, PTL

\* No gap in the version numbers, and no rotation that collides with another.
THEOREM NumbersAreExact == Spec => [](Contiguous /\ NoDuplicateNumber)
<1>1. IInv => Contiguous /\ NoDuplicateNumber
  BY DEF IInv, RowsInv, Contiguous
<1>. QED
  BY <1>1, InductiveInvariant, PTL

\* In particular a version number, once reached, has all smaller ones below it,
\* whatever runs concurrently, fails or is lost (RotateInTx).
THEOREM NumbersHaveNoGaps == Spec => []Contiguous
BY NumbersAreExact, PTL

\* A stored value is never lost or overwritten, and a revocation is final.
THEOREM HistoryIsKept == Spec => HistoryKept
<1>1. ASSUME IInv, [Next]_vars
      PROVE  /\ \A v \in DOMAIN versions :
                  v \in DOMAIN versions' /\ versions'[v].value = versions[v].value
             /\ secret = "revoked" => secret' = "revoked"
  <2>1. ASSUME NEW r \in Requests, Commit(r)
        PROVE  /\ \A v \in DOMAIN versions :
                    v \in DOMAIN versions' /\ versions'[v].value = versions[v].value
               /\ secret = "revoked" => secret' = "revoked"
    <3>1. kind[r] = "create" => secret = "absent"
      BY <1>1, <2>1 DEF IInv, NumInv, Appending, Commit, Goto
    <3>. QED
      BY <1>1, <2>1, <3>1, CommitRows DEF Commit
  <2>2. ASSUME NEW r \in Requests, RevokeRow(r)
        PROVE  versions' = versions /\ secret' = "revoked"
    BY <2>2 DEF RevokeRow
  <2>3. ASSUME NEW r \in Requests,
               Start(r) \/ Fail(r) \/ (Serve(r) /\ ~Commit(r) /\ ~RevokeRow(r))
        PROVE  UNCHANGED << secret, versions >>
    BY <2>3 DEF DB, Start, Fail, Serve, Fetch, Refuse, Deny, InsertSecret, NameTaken,
         LockSecret, PickNumber, BeginClear, InsertVersion, CheckTarget, BeginSet,
         UpdateRow, EndUpdate, ReadValue, Log, DeadlockVictim
  <2>. QED
    BY <1>1, <2>1, <2>2, <2>3 DEF Next, AllDone, vars
<1>. QED
  BY <1>1, InductiveInvariant, PTL DEF Spec, HistoryKept
-----------------------------------------------------------------------------
(* Where nobody rolls back there is exactly one current version.            *)

\* A rotation has cleared or will still visit every version that is current,
\* and clears what it visits.
ClearInv ==
    \A r \in Requests :
        kind[r] = "rotate" =>
            /\ pc[r] = "update" => CurrentVersions \subseteq todo[r] \cup DOMAIN writes[r]
            /\ pc[r] \in {"insertVersion", "commit"} =>
                 CurrentVersions \subseteq DOMAIN writes[r]
            /\ pc[r] \in {"update", "insertVersion", "commit"} =>
                 \A v \in DOMAIN writes[r] \cap DOMAIN versions : ~writes[r][v].current

LEMMA CommitOneCurrent ==
    ASSUME "rollback" \notin Kinds, NEW r \in Requests, IInv, ClearInv, Commit(r)
    PROVE  CurrentVersions' = {num[r]} /\ num[r] \in DOMAIN versions'
<1>1. /\ pc[r] = "commit"
      /\ versions' = Overlay(versions, writes[r])
  BY DEF Commit, Goto
<1>2. /\ DOMAIN versions' = DOMAIN versions \cup DOMAIN writes[r]
      /\ \A v \in DOMAIN versions' :
           versions'[v] = IF v \in DOMAIN writes[r] THEN writes[r][v] ELSE versions[v]
  BY <1>1 DEF Overlay
<1>3. /\ num[r] \in DOMAIN writes[r] /\ writes[r][num[r]].current
      /\ DOMAIN writes[r] \subseteq DOMAIN versions \cup {num[r]}
  BY <1>1 DEF IInv, WritesInv
<1>4. kind[r] \in {"create", "rotate"}
  BY <1>1 DEF IInv, KindInv, TypeOK
<1>5. CASE kind[r] = "create"
  <2>1. DOMAIN versions = {}
    BY <1>1, <1>5 DEF IInv, NumInv, RowsInv, Appending
  <2>. QED
    BY <1>2, <1>3, <2>1 DEF CurrentVersions
<1>6. CASE kind[r] = "rotate"
  <2>1. /\ CurrentVersions \subseteq DOMAIN writes[r]
        /\ \A v \in DOMAIN writes[r] \cap DOMAIN versions : ~writes[r][v].current
    BY <1>1, <1>6 DEF ClearInv
  <2>. QED
    BY <1>2, <1>3, <2>1 DEF CurrentVersions
<1>. QED
  BY <1>4, <1>5, <1>6

LEMMA NextOneCurrent ==
    ASSUME "rollback" \notin Kinds, IInv, ClearInv, OneCurrent, [Next]_vars
    PROVE  ClearInv' /\ OneCurrent'
<1>. USE DEF Goto, DB, Tx, Call
<1>1. ASSUME NEW r \in Requests, Commit(r) PROVE ClearInv' /\ OneCurrent'
  <2>1. OneCurrent'
    BY <1>1, CommitOneCurrent DEF OneCurrent
  <2>2. \A q \in Requests : Appending(q) => q = r
    BY <1>1 DEF Commit, IInv, NumInv, Appending, KindInv, TypeOK
  <2>3. \A q \in Requests : kind'[q] = "rotate" => pc'[q] \notin {"update", "insertVersion", "commit"}
    BY <1>1, <2>2 DEF Commit, IInv, TypeOK, Appending
  <2>. QED
    BY <2>1, <2>3 DEF ClearInv
<1>2. ASSUME NEW r \in Requests, UpdateRow(r) PROVE ClearInv' /\ OneCurrent'
  <2>1. PICK v \in todo[r] :
          /\ writes' = [writes EXCEPT ![r] = Overlay(@, OneRow(v, Updated(r, v)))]
          /\ todo' = [todo EXCEPT ![r] = @ \ {v}]
    BY <1>2 DEF UpdateRow
  <2>2. /\ UNCHANGED << secret, versions, pc, kind, num >>
        /\ pc[r] = "update" /\ v \in DOMAIN versions
    BY <1>2, <2>1 DEF UpdateRow, IInv, WritesInv
  <2>3. /\ DOMAIN writes'[r] = DOMAIN writes[r] \cup {v}
        /\ writes'[r][v] = Updated(r, v)
        /\ \A w \in DOMAIN writes[r] \ {v} : writes'[r][w] = writes[r][w]
        /\ todo'[r] = todo[r] \ {v}
        /\ \A q \in Requests \ {r} : writes'[q] = writes[q] /\ todo'[q] = todo[q]
    BY <2>1 DEF Overlay, OneRow, IInv, TypeOK
  <2>4. kind[r] = "rotate" => ~Updated(r, v).current
    <3>1. versions[v] \in Row
      BY <2>2 DEF IInv, TypeOK
    <3>. QED
      BY <3>1 DEF Updated, Row
  <2>. QED
    BY <2>2, <2>3, <2>4 DEF ClearInv, OneCurrent, CurrentVersions
<1>3. ASSUME NEW r \in Requests, InsertVersion(r) PROVE ClearInv' /\ OneCurrent'
  <2> DEFINE row == [value |-> r, current |-> TRUE]
  <2>1. num[r] \notin DOMAIN versions /\ pc[r] = "insertVersion"
    BY <1>3 DEF InsertVersion, IInv, NumInv, RowsInv, Appending
  <2>2. /\ UNCHANGED << secret, versions, kind >>
        /\ pc' = [pc EXCEPT ![r] = "commit"]
        /\ writes' = [writes EXCEPT ![r] = Overlay(@, OneRow(num[r], row))]
        /\ todo' = todo
    BY <1>3, <2>1 DEF InsertVersion
  <2>3. /\ DOMAIN writes'[r] = DOMAIN writes[r] \cup {num[r]}
        /\ \A w \in DOMAIN writes[r] \ {num[r]} : writes'[r][w] = writes[r][w]
        /\ \A q \in Requests \ {r} : writes'[q] = writes[q] /\ pc'[q] = pc[q]
        /\ pc'[r] = "commit"
    BY <2>2 DEF Overlay, OneRow, IInv, TypeOK
  <2>4. CurrentVersions' = CurrentVersions
    BY <2>2 DEF CurrentVersions
  <2>5. OneCurrent'
    BY <2>2, <2>4 DEF OneCurrent
  <2>6. ASSUME kind[r] = "rotate"
        PROVE  /\ CurrentVersions \subseteq DOMAIN writes'[r]
               /\ \A v \in DOMAIN writes'[r] \cap DOMAIN versions : ~writes'[r][v].current
    BY <2>1, <2>3, <2>6 DEF ClearInv
  <2>. QED
    BY <2>2, <2>3, <2>4, <2>5, <2>6 DEF ClearInv
<1>4. ASSUME NEW r \in Requests, BeginClear(r) \/ EndUpdate(r)
      PROVE  ClearInv' /\ OneCurrent'
  <2>1. UNCHANGED << secret, versions, writes, kind >>
    BY <1>4 DEF BeginClear, EndUpdate
  <2>2. CurrentVersions' = CurrentVersions /\ OneCurrent'
    BY <2>1 DEF CurrentVersions, OneCurrent
  <2>3. \A q \in Requests \ {r} : pc'[q] = pc[q] /\ todo'[q] = todo[q]
    BY <1>4 DEF BeginClear, EndUpdate, IInv, TypeOK
  <2>4. CASE BeginClear(r)
    <3>1. pc'[r] = "update" /\ todo'[r] = CurrentVersions /\ DOMAIN writes[r] = {}
      BY <2>4 DEF BeginClear, IInv, TypeOK, WritesInv
    <3>. QED
      BY <2>1, <2>2, <2>3, <3>1 DEF ClearInv
  <2>5. CASE EndUpdate(r)
    <3>1. /\ pc[r] = "update" /\ todo[r] = {}
          /\ kind[r] = "rotate" => pc'[r] = "insertVersion"
      BY <2>5 DEF EndUpdate, IInv, TypeOK
    <3>. QED
      BY <2>1, <2>2, <2>3, <3>1 DEF ClearInv
  <2>. QED
    BY <1>4, <2>4, <2>5
<1>5. ASSUME NEW r \in Requests,
             CurrentVersions' = CurrentVersions, versions' = versions,
             secret' = secret \/ secret # "absent",
             pc'[r] \notin {"update", "insertVersion", "commit"},
             \A q \in Requests \ {r} : /\ kind'[q] = kind[q] /\ pc'[q] = pc[q]
                                       /\ writes'[q] = writes[q] /\ todo'[q] = todo[q]
      PROVE  ClearInv' /\ OneCurrent'
  <2>1. OneCurrent'
    BY <1>5 DEF OneCurrent
  <2>. QED
    BY <1>5, <2>1 DEF ClearInv
<1>6. ASSUME NEW r \in Requests, InsertSecret(r) PROVE ClearInv' /\ OneCurrent'
  <2>1. UNCHANGED << secret, versions, writes, todo, kind >>
    BY <1>6 DEF InsertSecret
  <2>2. CurrentVersions' = CurrentVersions /\ OneCurrent'
    BY <2>1 DEF CurrentVersions, OneCurrent
  <2>3. kind[r] = "create" /\ \A q \in Requests \ {r} : pc'[q] = pc[q]
    BY <1>6 DEF InsertSecret, IInv, KindInv, TypeOK
  <2>. QED
    BY <2>1, <2>2, <2>3 DEF ClearInv
<1>7. ASSUME NEW r \in Requests, Start(r) PROVE ClearInv' /\ OneCurrent'
  <2>1. UNCHANGED << versions, writes, todo, secret >>
    BY <1>7 DEF Start
  <2>2. /\ pc'[r] \in {"insertSecret", "fetch"}
        /\ \A q \in Requests \ {r} : kind'[q] = kind[q] /\ pc'[q] = pc[q]
    BY <1>7 DEF Start, IInv, TypeOK
  <2>. QED
    BY <1>5, <2>1, <2>2 DEF CurrentVersions
<1>8. ASSUME NEW r \in Requests, Fail(r) \/ DeadlockVictim(r)
      PROVE  ClearInv' /\ OneCurrent'
  <2>1. /\ UNCHANGED << versions, secret, kind >>
        /\ pc' = [pc EXCEPT ![r] = "done"]
        /\ Release(r)
    BY <1>8 DEF Fail, DeadlockVictim
  <2>2. /\ pc'[r] = "done"
        /\ \A q \in Requests \ {r} : /\ pc'[q] = pc[q]
                                     /\ writes'[q] = writes[q] /\ todo'[q] = todo[q]
    BY <2>1 DEF Release, IInv, TypeOK
  <2>. QED
    BY <1>5, <2>1, <2>2 DEF CurrentVersions
<1>9. ASSUME NEW r \in Requests, RevokeRow(r) PROVE ClearInv' /\ OneCurrent'
  <2>1. pc[r] = "revoke" /\ secret # "absent"
    BY <1>9 DEF RevokeRow, IInv, NumInv
  <2>2. UNCHANGED << versions, writes, todo, kind >>
    BY <1>9 DEF RevokeRow
  <2>3. pc'[r] \in {"log", "done"} /\ \A q \in Requests \ {r} : pc'[q] = pc[q]
    BY <1>9 DEF RevokeRow, IInv, TypeOK
  <2>. QED
    BY <1>5, <2>1, <2>2, <2>3 DEF CurrentVersions
<1>10. ASSUME NEW r \in Requests,
              Fetch(r) \/ Refuse(r) \/ Deny(r) \/ NameTaken(r) \/ LockSecret(r)
              \/ PickNumber(r) \/ CheckTarget(r) \/ ReadValue(r) \/ Log(r)
       PROVE  ClearInv' /\ OneCurrent'
  <2>1. UNCHANGED << secret, versions, writes, todo, kind >>
    BY <1>10, Zenon DEF Fetch, Refuse, Deny, NameTaken, LockSecret, PickNumber,
       CheckTarget, ReadValue, Log
  <2>2. \E to \in Steps \ {"update", "insertVersion", "commit"} :
             pc' = [pc EXCEPT ![r] = to]
    <3>1. CASE Fetch(r)
      <4>1. kind[r] \in {"rotate", "rollback", "revoke", "read"}
        BY <3>1 DEF Fetch, IInv, KindInv
      <4>2. FirstStep[kind[r]] \in Steps \ {"update", "insertVersion", "commit"}
        BY <4>1 DEF FirstStep, Steps
      <4>. QED
        BY <3>1, <4>2 DEF Fetch
    <3>2. CASE Refuse(r) \/ NameTaken(r) \/ LockSecret(r) \/ Log(r)
      BY <3>2 DEF Steps, Refuse, NameTaken, LockSecret, Log
    <3>3. CASE Deny(r)
      BY <3>3 DEF Steps, Deny
    <3>4. CASE PickNumber(r)
      BY <3>4 DEF Steps, PickNumber
    <3>5. CASE CheckTarget(r)
      BY <3>5 DEF Steps, CheckTarget
    <3>6. CASE ReadValue(r)
      BY <3>6 DEF Steps, ReadValue
    <3>. QED
      BY <1>10, <3>1, <3>2, <3>3, <3>4, <3>5, <3>6
  <2>3. /\ pc'[r] \notin {"update", "insertVersion", "commit"}
        /\ \A q \in Requests \ {r} : pc'[q] = pc[q]
    BY <2>2 DEF IInv, TypeOK
  <2>. QED
    BY <1>5, <2>1, <2>3 DEF CurrentVersions
<1>12. ASSUME NEW r \in Requests, BeginSet(r) PROVE FALSE
  BY <1>12, Assumption DEF BeginSet, IInv, KindInv, TypeOK
<1>11. CASE UNCHANGED vars
  BY <1>11 DEF vars, ClearInv, OneCurrent, CurrentVersions
<1>. QED
  BY <1>1, <1>2, <1>3, <1>4, <1>6, <1>7, <1>8, <1>9, <1>10, <1>11,
     <1>12 DEF Next, AllDone, Serve

\* Rotations, however many run together, leave exactly one current version:
\* it is only rollbacks that the lock on `secrets` does not order.
THEOREM RotationsKeepOneCurrent ==
    ASSUME "rollback" \notin Kinds
    PROVE  Spec => []OneCurrent
<1>1. Init => ClearInv /\ OneCurrent
  <2> SUFFICES ASSUME Init PROVE ClearInv /\ OneCurrent
    OBVIOUS
  <2>1. ClearInv
    <3>1. \A r \in Requests : pc[r] = "idle"
      BY DEF Init
    <3>. QED
      BY <3>1 DEF ClearInv
  <2>2. CASE Seed = 0
    <3>1. secret = "absent"
      BY <2>2 DEF Init
    <3>. QED
      BY <2>1, <3>1 DEF OneCurrent
  <2>3. CASE Seed # 0
    <3>1. PICK c \in 1 .. Seed :
            versions = [v \in 1 .. Seed |-> [value |-> None, current |-> v = c]]
      BY <2>3 DEF Init
    <3>2. CurrentVersions = {c} /\ c \in DOMAIN versions
      BY <3>1 DEF CurrentVersions
    <3>3. \E v \in DOMAIN versions : CurrentVersions = {v}
      BY <3>2
    <3>. QED
      BY <2>1, <3>3 DEF OneCurrent
  <2>. QED
    BY <2>1, <2>2, <2>3
<1>2. IInv /\ ClearInv /\ OneCurrent /\ [Next]_vars => ClearInv' /\ OneCurrent'
  BY NextOneCurrent
<1>. QED
  BY <1>1, <1>2, InductiveInvariant, PTL DEF Spec
==============================================================================
