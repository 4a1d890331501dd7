------------------------- MODULE SecretAnswersProofs -------------------------
(* What the callers of SecretVersions are told, and the abstract history the *)
(* requests implement, for every set of requests: theorems that rest on the  *)
(* inductive invariant IInv of SecretVersionsProofs.                         *)
EXTENDS SecretVersionsProofs, Sequences, SequenceTheorems

-----------------------------------------------------------------------------
(* A read that starts after a revocation. *)

\* A read that started after the revocation has no answer before the status
\* check, and that check refuses it.
RevokedInv ==
    \A r \in Requests :
        /\ pc[r] \in {"idle", "fetch"} => result[r] = "none"
        /\ kind[r] = "read" /\ born[r].revoked =>
             /\ secret = "revoked"
             /\ pc[r] \in {"fetch", "done"}
             /\ result[r] # "ok"

\* What a step of one request leaves alone.
LEMMA OthersUntouched ==
    ASSUME IInv, NEW r \in Requests, Start(r) \/ Serve(r) \/ Fail(r)
    PROVE  \A q \in Requests \ {r} :
             /\ pc'[q] = pc[q] /\ result'[q] = result[q] /\ kind'[q] = kind[q]
             /\ born'[q] = born[q] /\ num'[q] = num[q]
             /\ writes'[q] = writes[q] /\ todo'[q] = todo[q]
             /\ q \in logged' <=> q \in logged
<1>. USE DEF IInv, TypeOK, Goto, Answer, Release, DB, Tx, Call
<1>1. CASE Start(r)
  BY <1>1 DEF Start
<1>2. CASE Fail(r) \/ DeadlockVictim(r)
  BY <1>2 DEF Fail, DeadlockVictim
<1>3. CASE Fetch(r) \/ Refuse(r) \/ Deny(r) \/ InsertSecret(r) \/ NameTaken(r)
  BY <1>3 DEF Fetch, Refuse, Deny, InsertSecret, NameTaken
<1>4. CASE LockSecret(r) \/ PickNumber(r) \/ BeginClear(r) \/ CheckTarget(r) \/ BeginSet(r)
  BY <1>4 DEF LockSecret, PickNumber, BeginClear, CheckTarget, BeginSet
<1>5. CASE InsertVersion(r)
  BY <1>5 DEF InsertVersion
<1>6. CASE UpdateRow(r) \/ EndUpdate(r) \/ Commit(r)
  BY <1>6 DEF UpdateRow, EndUpdate, Commit
<1>7. CASE RevokeRow(r) \/ ReadValue(r) \/ Log(r)
  BY <1>7 DEF RevokeRow, ReadValue, Log
<1>. QED
  BY <1>1, <1>2, <1>3, <1>4, <1>5, <1>6, <1>7 DEF Serve

\* Only a commit and a revocation change the committed state.
LEMMA WhoCommits ==
    ASSUME NEW r \in Requests, Start(r) \/ Serve(r) \/ Fail(r),
           ~Commit(r), ~RevokeRow(r)
    PROVE  UNCHANGED << secret, versions >>
BY DEF DB, Start, Fail, Serve, Fetch, Refuse, Deny, InsertSecret, NameTaken,
       LockSecret, PickNumber, BeginClear, InsertVersion, CheckTarget, BeginSet,
       UpdateRow, EndUpdate, ReadValue, Log, DeadlockVictim

LEMMA RevocationFinal ==
    ASSUME IInv, NEW r \in Requests, Start(r) \/ Serve(r) \/ Fail(r),
           secret = "revoked"
    PROVE  secret' = "revoked"
<1>1. CASE Commit(r)
  BY <1>1 DEF IInv, NumInv, Appending, Commit, Goto
<1>2. CASE RevokeRow(r)
  BY <1>2 DEF RevokeRow
<1>. QED
  BY <1>1, <1>2, WhoCommits

LEMMA NextRevoked ==
    ASSUME IInv, RevokedInv, [Next]_vars
    PROVE  RevokedInv'
<1>1. ASSUME NEW r \in Requests, Start(r) \/ Serve(r) \/ Fail(r) PROVE RevokedInv'
  <2> DEFINE Part(q) ==
        /\ pc[q] \in {"idle", "fetch"} => result[q] = "none"
        /\ kind[q] = "read" /\ born[q].revoked =>
             /\ secret = "revoked"
             /\ pc[q] \in {"fetch", "done"}
             /\ result[q] # "ok"
  <2>1. \A q \in Requests \ {r} : Part(q)'
    BY <1>1, OthersUntouched, RevocationFinal DEF RevokedInv
  <2>2. Part(r)'
    <3> USE DEF IInv, TypeOK, Goto, Answer, DB, Call
    <3>1. CASE Start(r)
      <4>1. /\ pc[r] = "idle" /\ result' = result
            /\ pc'[r] \in {"insertSecret", "fetch"}
            /\ born'[r].revoked = (secret = "revoked")
            /\ kind'[r] = "read" => pc'[r] = "fetch"
            /\ secret' = secret
        BY <3>1, Zenon DEF Start
      <4>. QED
        BY <4>1 DEF RevokedInv
    <3>2. CASE Fail(r) \/ DeadlockVictim(r)
      BY <3>2, <1>1, RevocationFinal DEF Fail, DeadlockVictim, RevokedInv
    <3>3. CASE Fetch(r)
      <4>1. ~(kind[r] = "read" /\ born[r].revoked)
        BY <3>3 DEF Fetch, RevokedInv
      <4>2. kind[r] \in {"rotate", "rollback", "revoke", "read"}
        BY <3>3 DEF Fetch, KindInv
      <4>3. pc'[r] = FirstStep[kind[r]] /\ UNCHANGED << kind, born, result >>
        BY <3>3 DEF Fetch
      <4>4. FirstStep[kind[r]] \notin {"idle", "fetch"}
        BY <4>2 DEF FirstStep
      <4>. QED
        BY <4>1, <4>3, <4>4
    <3>4. CASE Refuse(r)
      BY <3>4 DEF Refuse, RevokedInv
    <3>5. CASE Deny(r)
      BY <3>5 DEF Deny, RevokedInv, KindInv
    <3>6. CASE \/ InsertSecret(r) \/ NameTaken(r) \/ LockSecret(r) \/ PickNumber(r)
               \/ BeginClear(r) \/ CheckTarget(r) \/ BeginSet(r) \/ Log(r)
      <4>1. /\ UNCHANGED << kind, born >>
            /\ pc[r] \notin {"idle", "fetch", "done"}
            /\ pc'[r] \notin {"idle", "fetch"}
        BY <3>6 DEF InsertSecret, NameTaken, LockSecret, PickNumber, BeginClear,
                    CheckTarget, BeginSet, Log
      <4>. QED
        BY <4>1 DEF RevokedInv
    <3>7. CASE InsertVersion(r) \/ UpdateRow(r) \/ EndUpdate(r) \/ Commit(r)
      <4>1. /\ UNCHANGED << kind, born >>
            /\ pc[r] \notin {"idle", "fetch", "done"}
            /\ pc'[r] \notin {"idle", "fetch"}
        BY <3>7 DEF InsertVersion, UpdateRow, EndUpdate, Commit
      <4>. QED
        BY <4>1 DEF RevokedInv
    <3>8. CASE RevokeRow(r) \/ ReadValue(r)
      <4>1. /\ UNCHANGED << kind, born >>
            /\ pc[r] \notin {"idle", "fetch", "done"}
            /\ pc'[r] \notin {"idle", "fetch"}
        BY <3>8 DEF RevokeRow, ReadValue
      <4>. QED
        BY <4>1 DEF RevokedInv
    <3>. QED
      BY <1>1, <3>1, <3>2, <3>3, <3>4, <3>5, <3>6, <3>7, <3>8 DEF Serve
  <2>. QED
    BY <2>1, <2>2 DEF RevokedInv
<1>2. CASE UNCHANGED vars
  BY <1>2 DEF vars, RevokedInv
<1>. QED
  BY <1>1, <1>2 DEF Next, AllDone

\* A read that starts after a revocation has committed returns no value, for
\* any number of requests running beside it (GetSecretValue).
THEOREM RevokedStaysUnread == Spec => []RevokedRefused
<1>1. Init => RevokedInv
  BY DEF Init, RevokedInv
<1>2. IInv /\ RevokedInv /\ [Next]_vars => RevokedInv'
  BY NextRevoked
<1>3. RevokedInv => RevokedRefused
  BY DEF RevokedInv, RevokedRefused
<1>. QED
  BY <1>1, <1>2, <1>3, InductiveInvariant, PTL DEF Spec
-----------------------------------------------------------------------------
(* What a writer is told and what it has stored. *)

\* Before its commit a request has stored nothing and has no answer; at its
\* commit a writer holds its own value in a new row; past its commit that
\* row is there.
StoredInv ==
    \A r \in Requests :
        /\ pc[r] \notin {"log", "done"} =>
             StoredBy(r) = {} /\ result[r] = "none" /\ r \notin logged
        /\ pc[r] = "log" => r \notin logged
        /\ pc[r] = "revoke" => kind[r] = "revoke"
        /\ pc[r] = "readValue" => kind[r] = "read"
        /\ pc[r] = "log" /\ Writer(r) => result[r] = "ok" /\ StoredBy(r) # {}
        /\ pc[r] = "commit" /\ Writer(r) => writes[r][num[r]].value = r
        /\ \A v, w \in StoredBy(r) : v = w
        /\ Writer(r) /\ (result[r] = "ok" \/ r \in logged) => StoredBy(r) # {}
        /\ result[r] \in {"denied", "notFound", "conflict", "duplicate",
                          "deadlock", "error"} => StoredBy(r) = {}

\* A commit stores one value of its own request if it is a writer, and none
\* of any other request.
LEMMA CommitStores ==
    ASSUME IInv, StoredInv, NEW r \in Requests, Commit(r)
    PROVE  /\ \A q \in Requests \ {r} : StoredBy(q)' = StoredBy(q)
           /\ StoredBy(r)' = IF Writer(r) THEN {num[r]} ELSE {}
<1>1. pc[r] = "commit" /\ StoredBy(r) = {}
  BY DEF Commit, Goto, StoredInv
<1>2. /\ DOMAIN versions' = DOMAIN versions \cup DOMAIN writes[r]
      /\ \A v \in DOMAIN versions' :
           versions'[v] = IF v \in DOMAIN writes[r] THEN writes[r][v] ELSE versions[v]
      /\ \A v \in DOMAIN versions : versions'[v].value = versions[v].value
  BY CommitRows DEF Commit, Overlay
<1>3. CASE Writer(r)
  <2>1. kind[r] # "rollback" /\ writes[r][num[r]].value = r
    BY <1>1, <1>3 DEF Writer, StoredInv
  <2>2. num[r] = MaxVersion + 1 /\ num[r] \notin DOMAIN versions
    BY <1>1, <2>1 DEF IInv, NumInv, Appending, RowsInv
  <2>3. DOMAIN versions' = DOMAIN versions \cup {num[r]} /\ versions'[num[r]].value = r
    BY <1>1, <1>2, <2>1, <2>2, CommitRows DEF IInv, WritesInv
  <2>. QED
    BY <1>1, <1>2, <1>3, <2>2, <2>3 DEF StoredBy
<1>4. CASE ~Writer(r)
  <2>1. kind[r] = "rollback"
    BY <1>1, <1>4 DEF Writer, IInv, KindInv
  <2>2. DOMAIN versions' = DOMAIN versions
    BY <2>1, CommitRows
  <2>. QED
    BY <1>1, <1>2, <1>4, <2>2 DEF StoredBy
<1>. QED
  BY <1>3, <1>4

LEMMA NextStored ==
    ASSUME IInv, StoredInv, [Next]_vars
    PROVE  StoredInv'
<1>. USE DEF IInv, TypeOK, Goto, Answer, DB, Call
<1>1. ASSUME NEW r \in Requests, Start(r) \/ Serve(r) \/ Fail(r) PROVE StoredInv'
  <2> DEFINE Part(q) ==
        /\ pc[q] \notin {"log", "done"} =>
             StoredBy(q) = {} /\ result[q] = "none" /\ q \notin logged
        /\ pc[q] = "log" => q \notin logged
        /\ pc[q] = "revoke" => kind[q] = "revoke"
        /\ pc[q] = "readValue" => kind[q] = "read"
        /\ pc[q] = "log" /\ Writer(q) => result[q] = "ok" /\ StoredBy(q) # {}
        /\ pc[q] = "commit" /\ Writer(q) => writes[q][num[q]].value = q
        /\ \A v, w \in StoredBy(q) : v = w
        /\ Writer(q) /\ (result[q] = "ok" \/ q \in logged) => StoredBy(q) # {}
        /\ result[q] \in {"denied", "notFound", "conflict", "duplicate",
                          "deadlock", "error"} => StoredBy(q) = {}
  <2>1. \A q \in Requests \ {r} : StoredBy(q)' = StoredBy(q)
    <3>1. CASE Commit(r)
      BY <3>1, CommitStores
    <3>2. CASE ~Commit(r)
      <4>1. versions' = versions
        BY <1>1, <3>2, WhoCommits DEF RevokeRow
      <4>. QED
        BY <4>1 DEF StoredBy
    <3>. QED
      BY <3>1, <3>2
  <2>2. \A q \in Requests \ {r} : Part(q)'
    BY <1>1, <2>1, OthersUntouched DEF StoredInv, Writer
  <2>3. Part(r)
    BY DEF StoredInv
  <2>4. ~Commit(r) => StoredBy(r)' = StoredBy(r)
    <3>1. ~Commit(r) => versions' = versions
      BY <1>1, WhoCommits DEF RevokeRow
    <3>. QED
      BY <3>1 DEF StoredBy
  <2>5. Part(r)'
    <3>1. CASE Start(r)
      <4>1. /\ pc[r] = "idle" /\ UNCHANGED << result, logged >>
            /\ pc'[r] \in {"insertSecret", "fetch"}
            /\ ~Commit(r)
        BY <3>1, Zenon DEF Start, Commit
      <4>. QED
        BY <2>3, <2>4, <4>1
    <3>2. CASE Fail(r)
      <4>1. /\ pc[r] \notin {"idle", "done"} /\ UNCHANGED << kind, logged >>
            /\ pc'[r] = "done" /\ ~Commit(r)
            /\ result'[r] = IF pc[r] = "log" THEN "unknown" ELSE "error"
        BY <3>2, Zenon DEF Fail, Running, Commit
      <4>. QED
        BY <2>3, <2>4, <4>1 DEF Writer
    <3>3. CASE DeadlockVictim(r)
      <4>1. pc[r] = "update" /\ pc'[r] = "done" /\ UNCHANGED << kind, logged >>
            /\ result'[r] = "deadlock" /\ ~Commit(r)
        BY <3>3 DEF DeadlockVictim, Deadlocked, Commit
      <4>. QED
        BY <2>3, <2>4, <4>1 DEF Writer
    <3>4. CASE Commit(r)
      <4>1. /\ pc[r] = "commit" /\ UNCHANGED << kind, logged >>
            /\ \/ pc'[r] = "log" /\ result'[r] = "ok"
               \/ pc'[r] = "done" /\ result'[r] = "unknown"
        BY <3>4 DEF Commit
      <4>. QED
        BY <2>3, <3>4, <4>1, CommitStores DEF Writer
    <3>5. CASE InsertVersion(r)
      <4>1. /\ pc[r] = "insertVersion" /\ UNCHANGED << kind, logged, num, versions >>
            /\ ~Commit(r)
        BY <3>5 DEF InsertVersion, Commit
      <4>2. \/ pc'[r] = "done" /\ result'[r] = "duplicate"
            \/ /\ pc'[r] = "commit" /\ result' = result
               /\ writes'[r] = Overlay(writes[r],
                                       OneRow(num[r], [value |-> r, current |-> TRUE]))
        BY <3>5 DEF InsertVersion
      <4>3. pc'[r] = "commit" => writes'[r][num[r]].value = r
        BY <4>2 DEF Overlay, OneRow
      <4>. QED
        BY <2>3, <2>4, <4>1, <4>2, <4>3 DEF Writer
    <3>6. CASE Log(r)
      <4>1. /\ pc[r] = "log" /\ pc'[r] = "done" /\ UNCHANGED << kind, result >>
            /\ ~Commit(r)
        BY <3>6 DEF Log, Commit
      <4>. QED
        BY <2>3, <2>4, <4>1 DEF Writer
    <3>7. CASE Fetch(r)
      <4>1. pc'[r] = FirstStep[kind[r]] /\ UNCHANGED << kind, result, logged >>
            /\ pc[r] = "fetch" /\ ~Commit(r)
        BY <3>7 DEF Fetch, Commit
      <4>2. FirstStep[kind[r]] \in {"lockSecret", "checkTarget", "revoke", "readValue"}
        BY <4>1 DEF KindInv, FirstStep
      <4>3. /\ pc'[r] = "revoke" => kind[r] = "revoke"
            /\ pc'[r] = "readValue" => kind[r] = "read"
        BY <4>1 DEF KindInv, FirstStep
      <4>. QED
        BY <2>3, <2>4, <4>1, <4>2, <4>3 DEF Writer
    <3>8. CASE Refuse(r) \/ Deny(r) \/ NameTaken(r)
      <4>1. /\ pc[r] \in {"fetch", "insertSecret"} /\ UNCHANGED << kind, logged >>
            /\ result'[r] \in {"notFound", "revoked", "denied", "conflict"}
            /\ pc'[r] = "done" \/ (pc'[r] = "log" /\ kind[r] = "read")
        <5>1. CASE Refuse(r)
          BY <5>1 DEF Refuse
        <5>2. CASE Deny(r)
          BY <5>2 DEF Deny
        <5>3. CASE NameTaken(r)
          BY <5>3 DEF NameTaken
        <5>. QED
          BY <3>8, <5>1, <5>2, <5>3
      <4>2. ~Commit(r)
        BY <4>1 DEF Commit
      <4>. QED
        BY <2>3, <2>4, <4>1, <4>2 DEF Writer
    <3>9. CASE \/ InsertSecret(r) \/ LockSecret(r) \/ PickNumber(r)
               \/ BeginClear(r) \/ BeginSet(r) \/ UpdateRow(r)
      <4>1. /\ pc[r] \notin {"log", "done"} /\ UNCHANGED << kind, logged, result >>
            /\ pc'[r] \in {"insertVersion", "pickNumber", "clear", "update"}
            /\ ~Commit(r)
        BY <3>9 DEF InsertSecret, LockSecret, PickNumber, BeginClear, BeginSet,
                    UpdateRow, Commit
      <4>. QED
        BY <2>3, <2>4, <4>1 DEF Writer
    <3>10. CASE EndUpdate(r)
      <4>1. /\ pc[r] = "update" /\ UNCHANGED << kind, logged, result >>
            /\ kind[r] \in {"rotate", "rollback"} /\ ~Commit(r)
            /\ pc'[r] = IF kind[r] = "rotate" THEN "insertVersion" ELSE "commit"
        BY <3>10 DEF EndUpdate, Commit, KindInv
      <4>. QED
        BY <2>3, <2>4, <4>1 DEF Writer
    <3>11. CASE CheckTarget(r)
      <4>1. /\ pc[r] = "checkTarget" /\ UNCHANGED << kind, logged >> /\ ~Commit(r)
            /\ \/ pc'[r] = "set" /\ result' = result
               \/ pc'[r] = "done" /\ result'[r] = "notFound"
        BY <3>11 DEF CheckTarget, Commit
      <4>. QED
        BY <2>3, <2>4, <4>1 DEF Writer
    <3>12. CASE RevokeRow(r) \/ ReadValue(r)
      <4>1. /\ pc[r] \in {"revoke", "readValue"} /\ UNCHANGED << kind, logged >>
            /\ ~Commit(r) /\ pc'[r] \in {"log", "done"}
            /\ result'[r] \in {"ok", "unknown", "notFound"}
        BY <3>12 DEF RevokeRow, ReadValue, Commit
      <4>2. ~Writer(r)
        BY <2>3, <4>1 DEF Writer
      <4>. QED
        BY <2>3, <2>4, <4>1, <4>2 DEF Writer
    <3>. QED
      BY <1>1, <3>1, <3>2, <3>3, <3>4, <3>5, <3>6, <3>7, <3>8, <3>9, <3>10,
         <3>11, <3>12 DEF Serve
  <2>. QED
    BY <2>2, <2>5 DEF StoredInv
<1>2. CASE UNCHANGED vars
  BY <1>2 DEF vars, StoredInv, StoredBy, Writer
<1>. QED
  BY <1>1, <1>2 DEF Next, AllDone

\* A writer that is told "ok" or has its event stored has stored its value
\* exactly once, and one that is told of a refusal or an abort has stored
\* nothing, wherever anything fails (CreateSecretWithVersion, RotateInTx).
LEMMA StoredInvariant == Spec => []StoredInv
<1>1. Init => StoredInv
  <2> SUFFICES ASSUME Init PROVE StoredInv
    OBVIOUS
  <2>1. \A v \in DOMAIN versions : versions[v].value = None
    <3>1. CASE versions = NoRows
      BY <3>1 DEF NoRows
    <3>2. ASSUME NEW c \in 1 .. Seed,
                 versions = [v \in 1 .. Seed |-> [value |-> None, current |-> v = c]]
          PROVE  \A v \in DOMAIN versions : versions[v].value = None
      BY <3>2
    <3>. QED
      BY <3>1, <3>2 DEF Init
  <2>2. \A r \in Requests : StoredBy(r) = {}
    BY <2>1, Assumption DEF StoredBy
  <2>. QED
    BY <2>2 DEF Init, StoredInv
<1>2. IInv /\ StoredInv /\ [Next]_vars => StoredInv'
  BY NextStored
<1>. QED
  BY <1>1, <1>2, InductiveInvariant, PTL DEF Spec

\* A writer that is told "ok" or has its event stored has stored its value
\* exactly once, and one that is told of a refusal or an abort has stored
\* nothing, wherever anything fails (CreateSecretWithVersion, RotateInTx).
THEOREM AnswersAreTrue == Spec => []AnswerMatchesEffect
<1>1. StoredInv => AnswerMatchesEffect
  BY DEF StoredInv, AnswerMatchesEffect
<1>. QED
  BY <1>1, StoredInvariant, PTL
-----------------------------------------------------------------------------
(* Where nobody rolls back, a read is as fresh as the moment it started. *)

\* The newest version is the current one, and no read has seen a later one.
FreshInv ==
    /\ secret # "absent" => CurrentVersions = {MaxVersion}
    /\ \A r \in Requests : born[r].last <= MaxVersion
    /\ ReadFresh

LEMMA NextFresh ==
    ASSUME "rollback" \notin Kinds, IInv, StoredInv, ClearInv, FreshInv, [Next]_vars
    PROVE  FreshInv'
<1>. USE DEF IInv, TypeOK, Goto, Answer, DB, Call
<1>1. ASSUME NEW r \in Requests, Start(r) \/ Serve(r) \/ Fail(r) PROVE FreshInv'
  <2>1. MaxVersion \in Nat /\ \A q \in Requests : born[q].last \in Nat /\ num[q] \in Nat
    BY DEF RowsInv
  <2>2. /\ MaxVersion' \in Nat /\ MaxVersion <= MaxVersion'
        /\ secret' # "absent" => CurrentVersions' = {MaxVersion'}
    <3>1. CASE Commit(r)
      <4>1. kind[r] # "rollback" /\ Appending(r) /\ pc[r] = "commit"
        BY <3>1, Assumption DEF Commit, Appending, KindInv
      <4>2. MaxVersion' = MaxVersion + 1 /\ num[r] = MaxVersion + 1
        BY <3>1, <4>1, CommitRows DEF NumInv
      <4>. QED
        BY <2>1, <3>1, <4>2, CommitOneCurrent
    <3>2. CASE RevokeRow(r)
      <4>1. secret # "absent" /\ versions' = versions
        BY <3>2 DEF RevokeRow, NumInv
      <4>. QED
        BY <2>1, <4>1 DEF FreshInv, CurrentVersions, MaxVersion
    <3>3. CASE ~Commit(r) /\ ~RevokeRow(r)
      <4>1. UNCHANGED << secret, versions >>
        BY <1>1, <3>3, WhoCommits
      <4>. QED
        BY <2>1, <4>1 DEF FreshInv, CurrentVersions, MaxVersion
    <3>. QED
      BY <3>1, <3>2, <3>3
  <2>3. \A q \in Requests \ {r} :
          /\ born'[q].last <= MaxVersion'
          /\ kind'[q] = "read" /\ result'[q] = "ok" => num'[q] >= born'[q].last
    <3>1. \A q \in Requests \ {r} :
            /\ result'[q] = result[q] /\ kind'[q] = kind[q]
            /\ born'[q] = born[q] /\ num'[q] = num[q]
      BY <1>1, OthersUntouched
    <3>. QED
      BY <2>1, <2>2, <3>1 DEF FreshInv, ReadFresh
  <2>4. /\ born'[r].last <= MaxVersion'
        /\ kind'[r] = "read" /\ result'[r] = "ok" => num'[r] >= born'[r].last
    <3>1. CASE Start(r)
      <4>1. /\ pc[r] = "idle" /\ UNCHANGED << result, versions >>
            /\ born'[r].last = MaxVersion
        BY <3>1 DEF Start
      <4>2. result[r] = "none"
        BY <4>1 DEF StoredInv
      <4>. QED
        BY <2>1, <2>2, <4>1, <4>2
    <3>2. CASE ReadValue(r)
      <4>1. pc[r] = "readValue" /\ UNCHANGED << secret, versions, kind, born >>
        BY <3>2 DEF ReadValue
      <4>2. CASE CurrentVersions = {}
        <5>1. result'[r] = "notFound"
          BY <3>2, <4>2 DEF ReadValue
        <5>. QED
          BY <2>1, <2>2, <4>1, <5>1 DEF FreshInv
      <4>3. CASE CurrentVersions # {}
        <5>1. secret # "absent"
          BY <4>3 DEF RowsInv, CurrentVersions
        <5>2. PICK v \in CurrentVersions : num' = [num EXCEPT ![r] = v]
          BY <3>2, <4>3 DEF ReadValue
        <5>3. num'[r] = MaxVersion
          BY <5>1, <5>2 DEF FreshInv
        <5>. QED
          BY <2>1, <2>2, <4>1, <5>3 DEF FreshInv
      <4>. QED
        BY <4>2, <4>3
    <3>3. CASE ~Start(r) /\ ~ReadValue(r)
      <4>1. /\ UNCHANGED << kind, born >>
            /\ kind[r] = "read" /\ result'[r] = "ok" => result[r] = "ok" /\ num' = num
        <5>1. CASE Fail(r) \/ DeadlockVictim(r)
          BY <5>1 DEF Fail, DeadlockVictim
        <5>2. CASE Fetch(r)
          BY <5>2 DEF Fetch
        <5>3. CASE Refuse(r) \/ Deny(r) \/ NameTaken(r)
          BY <5>3 DEF Refuse, Deny, NameTaken
        <5>4. CASE InsertSecret(r) \/ PickNumber(r)
          BY <5>4 DEF InsertSecret, PickNumber, KindInv
        <5>5. CASE LockSecret(r) \/ BeginClear(r) \/ BeginSet(r) \/ UpdateRow(r)
                   \/ EndUpdate(r) \/ Log(r)
          BY <5>5 DEF LockSecret, BeginClear, BeginSet, UpdateRow, EndUpdate, Log
        <5>6. CASE InsertVersion(r) \/ CheckTarget(r)
          BY <5>6 DEF InsertVersion, CheckTarget
        <5>7. CASE Commit(r)
          BY <5>7 DEF Commit, KindInv
        <5>8. CASE RevokeRow(r)
          BY <5>8 DEF RevokeRow, StoredInv
        <5>. QED
          BY <1>1, <3>3, <5>1, <5>2, <5>3, <5>4, <5>5, <5>6, <5>7, <5>8 DEF Serve
      <4>. QED
        BY <2>1, <2>2, <4>1 DEF FreshInv, ReadFresh
    <3>. QED
      BY <3>1, <3>2, <3>3
  <2>. QED
    BY <2>2, <2>3, <2>4 DEF FreshInv, ReadFresh
<1>2. CASE UNCHANGED vars
  BY <1>2 DEF vars, FreshInv, ReadFresh, CurrentVersions, MaxVersion
<1>. QED
  BY <1>1, <1>2 DEF Next, AllDone

\* A secret without versions, or with one, starts fresh.
LEMMA InitFresh ==
    ASSUME Init, Seed <= 1
    PROVE  ClearInv /\ FreshInv
<1>1. ClearInv
  BY DEF Init, ClearInv
<1>2. CASE Seed = 0
  <2>1. secret = "absent" /\ versions = NoRows
    BY <1>2 DEF Init
  <2>2. MaxVersion = 0
    BY <2>1 DEF MaxVersion, MaxOf, NoRows
  <2>. QED
    BY <1>1, <2>1, <2>2 DEF Init, FreshInv, ReadFresh
<1>3. CASE Seed = 1
  <2>1. PICK c \in 1 .. 1 :
          versions = [v \in 1 .. 1 |-> [value |-> None, current |-> v = c]]
    BY <1>3 DEF Init
  <2>2. CurrentVersions = {1} /\ DOMAIN versions = 1 .. 1
    <3>1. c = 1 /\ 1 .. 1 = {1}
      OBVIOUS
    <3>2. DOMAIN versions = {1} /\ versions[1].current
      BY <2>1, <3>1
    <3>. QED
      BY <3>1, <3>2 DEF CurrentVersions
  <2>3. MaxVersion = 1
    BY <2>2, MaxOfRange DEF MaxVersion
  <2>. QED
    BY <1>1, <2>2, <2>3 DEF Init, FreshInv, ReadFresh
<1>. QED
  BY <1>2, <1>3, Assumption

\* Where nobody rolls back, a read returns a version at least as new as any
\* that was committed when it started (GetCurrentVersion, RotateInTx).
THEOREM ReadsAreFresh ==
    ASSUME "rollback" \notin Kinds, Seed <= 1
    PROVE  Spec => []ReadFresh
<1>1. Init => ClearInv /\ FreshInv
  BY InitFresh
<1>2. IInv /\ StoredInv /\ ClearInv /\ OneCurrent /\ FreshInv /\ [Next]_vars
        => ClearInv' /\ FreshInv'
  BY NextFresh, NextOneCurrent
<1>3. FreshInv => ReadFresh
  BY DEF FreshInv
<1>4. Spec => []OneCurrent
  BY RotationsKeepOneCurrent
<1>. QED
  BY <1>1, <1>2, <1>3, <1>4, InductiveInvariant, StoredInvariant, PTL DEF Spec
-----------------------------------------------------------------------------
(* Where nobody rolls back, the service implements VersionedSecret. *)

\* The version that is current, as VersionedSecret has it.
Current == IF \E v \in DOMAIN versions : CurrentVersions = {v}
           THEN CHOOSE v \in DOMAIN versions : CurrentVersions = {v}
           ELSE 0

LEMMA CurrentIs ==
    ASSUME NEW v \in DOMAIN versions, CurrentVersions = {v}
    PROVE  Current = v
BY DEF Current

LEMMA HistoryIsSequence ==
    ASSUME IInv
    PROVE  /\ History \in Seq(Requests \cup {None})
           /\ Len(History) = MaxVersion
           /\ DOMAIN History = 1 .. MaxVersion
<1>1. MaxVersion \in Nat /\ DOMAIN versions = 1 .. MaxVersion
  BY DEF IInv, RowsInv
<1>2. \A v \in 1 .. MaxVersion : versions[v].value \in Requests \cup {None}
  BY <1>1 DEF IInv, TypeOK, Row
<1>3. History \in [1 .. MaxVersion -> Requests \cup {None}]
  BY <1>1, <1>2 DEF History
<1>. QED
  BY <1>1, <1>3

\* The commit of a creation or rotation appends the value of its request.
LEMMA WriterAppends ==
    ASSUME NEW r \in Requests, IInv, StoredInv, Commit(r), kind[r] # "rollback"
    PROVE  /\ History' = Append(History, r)
           /\ num[r] = Len(History) + 1
           /\ kind[r] = "create" => secret = "absent" /\ MaxVersion = 0
           /\ kind[r] # "create" => secret # "absent"
<1>1. pc[r] = "commit" /\ kind[r] \in {"create", "rotate"} /\ Appending(r)
  BY DEF Commit, Goto, IInv, KindInv, Appending
<1>2. /\ num[r] = MaxVersion + 1 /\ MaxVersion \in Nat
      /\ DOMAIN versions = 1 .. MaxVersion
      /\ kind[r] = "create" => secret = "absent" /\ MaxVersion = 0
      /\ kind[r] # "create" => secret # "absent"
  BY <1>1 DEF IInv, NumInv, RowsInv
<1>3. /\ DOMAIN versions' = 1 .. (MaxVersion + 1)
      /\ \A v \in DOMAIN versions : versions'[v].value = versions[v].value
  <2>1. /\ DOMAIN versions' = DOMAIN versions \cup {MaxVersion + 1}
        /\ \A v \in DOMAIN versions : versions'[v].value = versions[v].value
    BY <1>1, CommitRows
  <2>. QED
    BY <1>2, <2>1
<1>4. versions'[num[r]].value = r
  <2>1. StoredBy(r)' = {num[r]}
    BY <1>1, CommitStores DEF Writer
  <2>. QED
    BY <2>1 DEF StoredBy
<1>5. History' = Append(History, r)
  <2>1. History \in Seq(Requests \cup {None}) /\ Len(History) = MaxVersion
    BY HistoryIsSequence
  <2>2. /\ Append(History, r) \in Seq(Requests \cup {None})
        /\ Len(Append(History, r)) = MaxVersion + 1
        /\ \A v \in 1 .. MaxVersion : Append(History, r)[v] = History[v]
        /\ Append(History, r)[MaxVersion + 1] = r
    BY <2>1, AppendProperties
  <2>3. \A v \in 1 .. (MaxVersion + 1) : History'[v] = Append(History, r)[v]
    BY <1>2, <1>3, <1>4, <2>2 DEF History
  <2>4. /\ DOMAIN Append(History, r) = 1 .. (MaxVersion + 1)
        /\ Append(History, r) = [v \in 1 .. (MaxVersion + 1) |-> Append(History, r)[v]]
    BY <1>2, <2>2, LenProperties
  <2>5. History' = [v \in 1 .. (MaxVersion + 1) |-> History'[v]]
    BY <1>3 DEF History
  <2>. QED
    BY <2>3, <2>4, <2>5
<1>. QED
  BY <1>2, <1>5, HistoryIsSequence

\* Where nobody rolls back, the version it adds is the one that is current.
LEMMA CommitAppends ==
    ASSUME "rollback" \notin Kinds, NEW r \in Requests, IInv, StoredInv, ClearInv,
           Commit(r)
    PROVE  /\ History' = Append(History, r)
           /\ Current' = Len(History) + 1
           /\ kind[r] = "create" => secret = "absent" /\ MaxVersion = 0
           /\ kind[r] # "create" => secret # "absent"
<1>1. pc[r] = "commit" /\ kind[r] \in {"create", "rotate"}
  BY Assumption DEF Commit, Goto, IInv, TypeOK, KindInv
<1>2. CurrentVersions' = {num[r]} /\ num[r] \in DOMAIN versions'
  BY CommitOneCurrent
<1>3. Current' = num[r]
  BY <1>2 DEF Current
<1>. QED
  BY <1>1, <1>3, WriterAppends

\* Rotations, revocations and reads, however they interleave and fail, are
\* creations, rotations and revocations of the abstract history, each at one
\* instant: the commit of its transaction.
THEOREM RotationsRefineHistory ==
    ASSUME "rollback" \notin Kinds
    PROVE  Spec => ImplementsVersionedSecret
<1>1. Init => Abstract!Init
  <2> SUFFICES ASSUME Init PROVE Abstract!Init
    OBVIOUS
  <2>1. History \in Seq(Requests \cup {None}) /\ Len(History) = MaxVersion
        /\ DOMAIN History = 1 .. MaxVersion /\ MaxVersion \in Nat
        /\ DOMAIN versions = 1 .. MaxVersion
    BY InitIInv, HistoryIsSequence DEF IInv, RowsInv
  <2>2. CASE Seed = 0
    <3>1. secret = "absent" /\ DOMAIN versions = {}
      BY <2>2 DEF Init, NoRows
    <3>2. History = << >> /\ Current = 0
      BY <2>1, <3>1 DEF Current, History
    <3>. QED
      BY <2>1, <3>1, <3>2 DEF Abstract!Init, History, Current
  <2>3. CASE Seed # 0
    <3>1. PICK c \in 1 .. Seed :
            versions = [v \in 1 .. Seed |-> [value |-> None, current |-> v = c]]
      BY <2>3 DEF Init
    <3>2. CurrentVersions = {c} /\ c \in DOMAIN versions /\ DOMAIN versions = 1 .. Seed
      BY <3>1 DEF CurrentVersions
    <3>3. Current = c /\ secret = "active"
      BY <2>3, <3>2, CurrentIs DEF Init
    <3>4. c \in 1 .. Len(History)
      BY <2>1, <3>2
    <3>5. History # << >>
      BY <2>1, <3>4
    <3>. QED
      BY <2>1, <3>3, <3>4, <3>5 DEF Abstract!Init, History, Current
  <2>. QED
    BY <2>2, <2>3
<1>2. ASSUME IInv, StoredInv, ClearInv, [Next]_vars
      PROVE  [Abstract!Next]_<< History, Current, secret >>
  <2>1. ASSUME NEW r \in Requests, Commit(r) PROVE Abstract!Next
    <3>1. /\ History' = Append(History, r)
          /\ Current' = Len(History) + 1
          /\ kind[r] = "create" => secret = "absent" /\ MaxVersion = 0
          /\ kind[r] # "create" => secret # "absent"
      BY <1>2, <2>1, CommitAppends
    <3>2. secret' = IF kind[r] = "create" THEN "active" ELSE secret
      BY <2>1 DEF Commit
    <3>3. CASE kind[r] = "create"
      <4>1. Len(History) = 0 /\ History \in Seq(Requests \cup {None})
        BY <1>2, <3>1, <3>3, HistoryIsSequence
      <4>2. History' = << r >> /\ Current' = 1
        BY <3>1, <4>1
      <4>3. Abstract!Create(r)
        BY <3>1, <3>2, <3>3, <4>2 DEF Abstract!Create, History, Current
      <4>. QED
        BY <4>3 DEF Abstract!Next
    <3>4. CASE kind[r] # "create"
      <4>1. Abstract!Rotate(r)
        BY <3>1, <3>2, <3>4 DEF Abstract!Rotate, History, Current
      <4>. QED
        BY <4>1 DEF Abstract!Next
    <3>. QED
      BY <3>3, <3>4
  <2>2. ASSUME NEW r \in Requests, RevokeRow(r) PROVE Abstract!Next
    <3>1. secret # "absent" /\ secret' = "revoked" /\ versions' = versions
      BY <1>2, <2>2 DEF RevokeRow, IInv, NumInv, Goto
    <3>2. History' = History /\ Current' = Current
      BY <3>1 DEF History, Current, CurrentVersions
    <3>3. Abstract!Revoke
      BY <3>1, <3>2 DEF Abstract!Revoke, History, Current
    <3>. QED
      BY <3>3 DEF Abstract!Next
  <2>3. ASSUME UNCHANGED << secret, versions >>
        PROVE  UNCHANGED << History, Current, secret >>
    BY <2>3 DEF History, Current, CurrentVersions
  <2>4. CASE UNCHANGED vars
    BY <2>3, <2>4 DEF vars
  <2>. QED
    BY <1>2, <2>1, <2>2, <2>3, <2>4, WhoCommits DEF Next, AllDone
<1>3. IInv /\ StoredInv /\ ClearInv /\ [Next]_vars
        => [Abstract!Next]_<< History, Current, secret >>
  BY <1>2
<1>4. Init => ClearInv
  BY DEF Init, ClearInv
<1>5. IInv /\ ClearInv /\ OneCurrent /\ [Next]_vars => ClearInv'
  BY NextOneCurrent
<1>6. Spec => []OneCurrent
  BY RotationsKeepOneCurrent
<1>7. Spec => Abstract!Init /\ [][Abstract!Next]_<< History, Current, secret >>
  BY <1>1, <1>3, <1>4, <1>5, <1>6, InductiveInvariant, StoredInvariant, PTL DEF Spec
<1>. QED
  BY <1>7, PTL DEF ImplementsVersionedSecret, Abstract!Spec, History, Current
-----------------------------------------------------------------------------
(* Where rotations and rollbacks meet, it implements ContendedSecret. *)

\* An UPDATE leaves the rows it has visited not current, but for the target of
\* a rollback.
FlagInv ==
    \A r \in Requests : \A v \in DOMAIN writes[r] \cap DOMAIN versions :
        writes[r][v].current = (kind[r] = "rollback" /\ v = num[r])

LEMMA TurnIs ==
    ASSUME IInv
    PROVE  /\ Turn \in Requests \cup {None}
           /\ \A r \in Requests : Turn = r <=> Rotating(r)
<1>1. \A r \in Requests : Rotating(r) => lock = r
  BY DEF IInv, NumInv, Appending, Rotating
<1>. QED
  BY <1>1, Assumption DEF Turn

\* Whose turn it is changes with who rotates only.
LEMMA TurnMoves ==
    ASSUME IInv, IInv', NEW r \in Requests,
           \A q \in Requests \ {r} : Rotating(q)' = Rotating(q)
    PROVE  /\ Rotating(r)' = Rotating(r) => Turn' = Turn
           /\ Rotating(r)' => Turn' = r
           /\ ~Rotating(r)' => Turn' = IF Turn = r THEN None ELSE Turn
<1>1. /\ Turn \in Requests \cup {None} /\ Turn' \in Requests \cup {None}
      /\ \A q \in Requests : (Turn = q <=> Rotating(q)) /\ (Turn' = q <=> Rotating(q)')
  <2>1. \A q \in Requests : Rotating(q)' => lock' = q
    BY DEF IInv, NumInv, Appending, Rotating
  <2>2. Turn' \in Requests \cup {None} /\ \A q \in Requests : Turn' = q <=> Rotating(q)'
    BY <2>1, Assumption DEF Turn
  <2>. QED
    BY <2>2, TurnIs
<1>2. None \notin Requests
  BY Assumption
<1>. QED
  BY <1>1, <1>2

\* A commit adds no version that another request holds or has selected.
LEMMA CommitSparesOthers ==
    ASSUME IInv, NEW r \in Requests, Commit(r), NEW q \in Requests \ {r}
    PROVE  DOMAIN writes[q] \cap DOMAIN versions' = DOMAIN writes[q] \cap DOMAIN versions
<1>1. CASE kind[r] = "rollback"
  BY <1>1, CommitRows
<1>2. CASE kind[r] # "rollback"
  <2>1. ~Appending(q)
    BY <1>2 DEF IInv, NumInv, Appending, Commit, Goto
  <2>2. DOMAIN writes[q] \subseteq DOMAIN versions
    BY <2>1 DEF IInv, WritesInv, NumInv, Appending, KindInv
  <2>. QED
    BY <2>2, CommitRows
<1>. QED
  BY <1>1, <1>2

LEMMA OthersSeen ==
    ASSUME IInv, NEW r \in Requests, Start(r) \/ Serve(r) \/ Fail(r),
           NEW q \in Requests \ {r}
    PROVE  /\ DOMAIN writes'[q] \cap DOMAIN versions' = DOMAIN writes[q] \cap DOMAIN versions
           /\ Seen(q)' = Seen(q) /\ Rotating(q)' = Rotating(q)
<1>1. writes'[q] = writes[q] /\ todo'[q] = todo[q] /\ kind'[q] = kind[q] /\ pc'[q] = pc[q]
  BY OthersUntouched
<1>2. CASE Commit(r)
  <2>1. todo[q] \subseteq DOMAIN versions /\ DOMAIN versions \subseteq DOMAIN versions'
    BY <1>2, CommitRows DEF IInv, WritesInv
  <2>2. DOMAIN writes[q] \cap DOMAIN versions' = DOMAIN writes[q] \cap DOMAIN versions
    BY <1>2, CommitSparesOthers
  <2>. QED
    BY <1>1, <2>1, <2>2 DEF Seen, Rotating
<1>3. CASE ~Commit(r)
  <2>1. versions' = versions
    BY <1>3, WhoCommits DEF RevokeRow
  <2>. QED
    BY <1>1, <2>1 DEF Seen, Rotating
<1>. QED
  BY <1>2, <1>3

\* Which rows the step of r leaves it with, and under which number.
LEMMA OwnRows ==
    ASSUME IInv, NEW r \in Requests, Start(r) \/ Serve(r) \/ Fail(r)
    PROVE  \/ DOMAIN writes'[r] = {}
           \/ /\ UpdateRow(r) \/ InsertVersion(r)
              /\ UNCHANGED << versions, kind, num >>
           \/ UNCHANGED << writes, versions, kind, num >>
<1>. USE DEF IInv, TypeOK, Goto, Answer, DB, Tx, Call
<1>1. pc[r] \notin {"update", "insertVersion", "commit"} => DOMAIN writes[r] = {}
  BY DEF WritesInv
<1>2. DOMAIN NoRows = {}
  BY DEF NoRows
<1>3. CASE Start(r)
  BY <1>1, <1>3 DEF Start
<1>4. CASE Fail(r) \/ DeadlockVictim(r) \/ Commit(r)
  BY <1>2, <1>4 DEF Fail, DeadlockVictim, Commit, Release
<1>5. CASE \/ Fetch(r) \/ Refuse(r) \/ Deny(r) \/ InsertSecret(r) \/ NameTaken(r)
           \/ LockSecret(r) \/ PickNumber(r) \/ BeginClear(r) \/ CheckTarget(r) \/ BeginSet(r)
  BY <1>1, <1>5 DEF Fetch, Refuse, Deny, InsertSecret, NameTaken, LockSecret, PickNumber,
                    BeginClear, CheckTarget, BeginSet
<1>6. CASE UpdateRow(r) \/ InsertVersion(r)
  BY <1>6 DEF UpdateRow, InsertVersion
<1>7. CASE EndUpdate(r) \/ RevokeRow(r) \/ ReadValue(r) \/ Log(r)
  BY <1>1, <1>7 DEF EndUpdate, RevokeRow, ReadValue, Log
<1>. QED
  BY <1>3, <1>4, <1>5, <1>6, <1>7 DEF Serve

LEMMA NextFlag ==
    ASSUME IInv, FlagInv, [Next]_vars
    PROVE  FlagInv'
<1>1. ASSUME NEW r \in Requests, Start(r) \/ Serve(r) \/ Fail(r) PROVE FlagInv'
  <2>1. ASSUME NEW q \in Requests \ {r},
               NEW v \in DOMAIN writes'[q] \cap DOMAIN versions'
        PROVE  writes'[q][v].current = (kind'[q] = "rollback" /\ v = num'[q])
    <3>1. v \in DOMAIN writes[q] \cap DOMAIN versions
      BY <1>1, <2>1, OthersSeen
    <3>. QED
      BY <1>1, <3>1, OthersUntouched DEF FlagInv
  <2>2. ASSUME NEW v \in DOMAIN writes'[r] \cap DOMAIN versions'
        PROVE  writes'[r][v].current = (kind'[r] = "rollback" /\ v = num'[r])
    <3>1. CASE UNCHANGED << writes, versions, kind, num >>
      BY <2>2, <3>1 DEF FlagInv
    <3>2. CASE UpdateRow(r) /\ UNCHANGED << versions, kind, num >>
      <4>1. PICK w \in todo[r] :
              writes' = [writes EXCEPT ![r] = Overlay(@, OneRow(w, Updated(r, w)))]
        BY <3>2 DEF UpdateRow
      <4>2. writes'[r] = Overlay(writes[r], OneRow(w, Updated(r, w)))
        BY <4>1 DEF IInv, TypeOK
      <4>3. /\ v \in DOMAIN writes[r] \cup {w}
            /\ writes'[r][v] = IF v = w THEN Updated(r, w) ELSE writes[r][v]
        BY <2>2, <4>2 DEF Overlay, OneRow
      <4>4. v = w => versions[w] \in Row
        BY <2>2, <3>2 DEF IInv, TypeOK
      <4>5. v = w => Updated(r, w).current = (kind[r] = "rollback" /\ w = num[r])
        BY <4>4 DEF Updated, Row
      <4>. QED
        BY <2>2, <3>2, <4>3, <4>5 DEF FlagInv
    <3>3. CASE InsertVersion(r) /\ UNCHANGED << versions, kind, num >>
      <4>1. num[r] \notin DOMAIN versions
        BY <3>3 DEF InsertVersion, Goto, IInv, NumInv, Appending, RowsInv
      <4>2. writes'[r] = Overlay(writes[r], OneRow(num[r], [value |-> r, current |-> TRUE]))
        BY <3>3, <4>1 DEF InsertVersion, IInv, TypeOK
      <4>3. v \in DOMAIN writes[r] /\ writes'[r][v] = writes[r][v]
        BY <2>2, <3>3, <4>1, <4>2 DEF Overlay, OneRow
      <4>. QED
        BY <2>2, <3>3, <4>3 DEF FlagInv
    <3>. QED
      BY <1>1, <2>2, <3>1, <3>2, <3>3, OwnRows
  <2>. QED
    BY <2>1, <2>2 DEF FlagInv
<1>2. CASE UNCHANGED vars
  BY <1>2 DEF vars, FlagInv
<1>. QED
  BY <1>1, <1>2 DEF Next, AllDone

LEMMA FlagInvariant == Spec => []FlagInv
<1>1. Init => FlagInv
  BY DEF Init, FlagInv, NoRows
<1>2. IInv /\ FlagInv /\ [Next]_vars => FlagInv'
  BY NextFlag
<1>. QED
  BY <1>1, <1>2, InductiveInvariant, PTL DEF Spec

\* What a commit makes of the current versions.
LEMMA CommitReplaces ==
    ASSUME IInv, FlagInv, NEW r \in Requests, Commit(r)
    PROVE  /\ CurrentVersions' = (CurrentVersions \ Seen(r)) \cup {num[r]}
           /\ Seen(r)' = {} /\ ~Rotating(r)'
           /\ kind[r] = "rollback" => num[r] \in Seen(r)
<1>1. /\ pc[r] = "commit" /\ pc'[r] # "commit" /\ todo[r] = {}
      /\ pc'[r] \in {"log", "done"}
      /\ writes'[r] = NoRows /\ todo'[r] = {}
  BY DEF Commit, Goto, Release, IInv, TypeOK, WritesInv
<1>2. /\ DOMAIN versions' = DOMAIN versions \cup DOMAIN writes[r]
      /\ \A v \in DOMAIN versions' :
           versions'[v] = IF v \in DOMAIN writes[r] THEN writes[r][v] ELSE versions[v]
  BY DEF Commit, Overlay
<1>3. /\ num[r] \in DOMAIN writes[r] /\ versions'[num[r]].current
      /\ DOMAIN writes[r] \subseteq DOMAIN versions \cup {num[r]}
  BY <1>1, <1>2 DEF IInv, WritesInv
<1>4. Seen(r) = DOMAIN writes[r] \cap DOMAIN versions
  BY <1>1 DEF Seen
<1>5. \A v \in DOMAIN writes[r] \cap DOMAIN versions : v # num[r] => ~writes[r][v].current
  BY DEF FlagInv
<1>6. CurrentVersions' = (CurrentVersions \ Seen(r)) \cup {num[r]}
  <2>1. ASSUME NEW v
        PROVE  v \in CurrentVersions' <=> v \in (CurrentVersions \ Seen(r)) \cup {num[r]}
    <3>1. CASE v \in DOMAIN writes[r]
      BY <1>2, <1>3, <1>4, <1>5, <3>1 DEF CurrentVersions
    <3>2. CASE v \notin DOMAIN writes[r]
      BY <1>2, <1>3, <1>4, <3>2 DEF CurrentVersions
    <3>. QED
      BY <3>1, <3>2
  <2>. QED
    BY <2>1
<1>7. Seen(r)' = {} /\ ~Rotating(r)'
  BY <1>1 DEF Seen, NoRows, Rotating
<1>8. kind[r] = "rollback" => num[r] \in Seen(r)
  BY <1>1, <1>3, <1>4 DEF IInv, NumInv
<1>. QED
  BY <1>6, <1>7, <1>8

LEMMA SeenMoves ==
    ASSUME IInv, NEW r \in Requests, Start(r) \/ Serve(r) \/ Fail(r)
    PROVE  SeenBy' = [SeenBy EXCEPT ![r] = Seen(r)']
BY OthersSeen DEF SeenBy

\* What the steps that commit nothing make of the request that takes them.
LEMMA StepsSee ==
    ASSUME IInv, NEW r \in Requests, Start(r) \/ Serve(r) \/ Fail(r),
           ~Commit(r), ~RevokeRow(r)
    PROVE  \/ Seen(r)' = Seen(r) /\ Rotating(r)' = Rotating(r)
           \/ Seen(r)' = {} /\ ~Rotating(r)'
           \/ /\ BeginClear(r)
              /\ Seen(r)' = CurrentVersions /\ Rotating(r)' /\ Turn = None
           \/ /\ BeginSet(r)
              /\ Seen(r)' = DOMAIN versions /\ ~Rotating(r) /\ ~Rotating(r)'
<1>. USE DEF IInv, TypeOK, Goto, Answer, DB, Tx, Call
<1>1. versions' = versions
  BY WhoCommits
<1>2. pc[r] \notin {"update", "insertVersion", "commit"} =>
        DOMAIN writes[r] = {} /\ todo[r] = {} /\ Seen(r) = {} /\ ~Rotating(r)
  BY DEF WritesInv, Seen, Rotating
<1>3. DOMAIN NoRows = {}
  BY DEF NoRows
<1>4. CASE Start(r)
  BY <1>1, <1>2, <1>4 DEF Start, Seen, Rotating
<1>5. CASE Fail(r) \/ DeadlockVictim(r)
  BY <1>3, <1>5 DEF Fail, DeadlockVictim, Release, Seen, Rotating
<1>6. CASE Fetch(r)
  <2>1. pc'[r] \in {"lockSecret", "checkTarget", "revoke", "readValue"}
    BY <1>6 DEF Fetch, KindInv, FirstStep
  <2>. QED
    BY <1>1, <1>2, <1>6, <2>1 DEF Fetch, Seen, Rotating
<1>7. CASE Refuse(r) \/ Deny(r) \/ NameTaken(r) \/ LockSecret(r) \/ PickNumber(r)
           \/ CheckTarget(r) \/ ReadValue(r) \/ Log(r)
  BY <1>1, <1>2, <1>7 DEF Refuse, Deny, NameTaken, LockSecret, PickNumber, CheckTarget,
                          ReadValue, Log, Seen, Rotating
<1>8. CASE InsertSecret(r)
  BY <1>1, <1>2, <1>8 DEF InsertSecret, KindInv, Seen, Rotating
<1>9. CASE BeginClear(r)
  <2>1. /\ pc[r] = "clear" /\ kind[r] = "rotate" /\ lock = r
        /\ pc'[r] = "update" /\ kind' = kind /\ writes' = writes
        /\ todo'[r] = CurrentVersions
    BY <1>9 DEF BeginClear, KindInv, NumInv, Appending
  <2>2. Turn = None
    BY <1>2, <2>1 DEF Turn
  <2>3. Seen(r)' = CurrentVersions
    BY <1>1, <1>2, <2>1 DEF Seen, CurrentVersions
  <2>. QED
    BY <1>9, <2>1, <2>2, <2>3 DEF Rotating
<1>10. CASE BeginSet(r)
  <2>1. /\ pc[r] = "set" /\ kind[r] = "rollback" /\ kind' = kind /\ writes' = writes
        /\ todo'[r] = DOMAIN versions
    BY <1>10 DEF BeginSet, KindInv
  <2>2. Seen(r)' = DOMAIN versions
    BY <1>1, <1>2, <2>1 DEF Seen
  <2>. QED
    BY <1>10, <2>1, <2>2 DEF Rotating
<1>11. CASE UpdateRow(r)
  <2>1. PICK v \in todo[r] :
          /\ writes' = [writes EXCEPT ![r] = Overlay(@, OneRow(v, Updated(r, v)))]
          /\ todo' = [todo EXCEPT ![r] = @ \ {v}]
    BY <1>11 DEF UpdateRow
  <2>2. DOMAIN writes'[r] = DOMAIN writes[r] \cup {v} /\ todo'[r] = todo[r] \ {v}
    BY <2>1 DEF Overlay, OneRow
  <2>3. pc' = pc /\ kind' = kind
    BY <1>11 DEF UpdateRow
  <2>. QED
    BY <1>1, <2>2, <2>3 DEF Seen, Rotating
<1>12. CASE EndUpdate(r)
  <2>1. /\ UNCHANGED << writes, todo, kind >>
        /\ pc[r] = "update" /\ pc'[r] \in {"insertVersion", "commit"}
    BY <1>12 DEF EndUpdate
  <2>. QED
    BY <1>1, <2>1 DEF Seen, Rotating
<1>13. CASE InsertVersion(r)
  <2>1. num[r] \notin DOMAIN versions /\ pc[r] = "insertVersion"
    <3>1. pc[r] = "insertVersion"
      BY <1>13 DEF InsertVersion
    <3>2. num[r] = MaxVersion + 1 /\ MaxVersion \in Nat /\ DOMAIN versions = 1 .. MaxVersion
      BY <3>1 DEF NumInv, Appending, RowsInv
    <3>3. MaxVersion + 1 \notin 1 .. MaxVersion
      BY <3>2
    <3>. QED
      BY <3>1, <3>2, <3>3
  <2>2. /\ writes'[r] = Overlay(writes[r],
                                OneRow(num[r], [value |-> r, current |-> TRUE]))
        /\ UNCHANGED << todo, kind >> /\ pc'[r] = "commit"
    BY <1>13, <2>1 DEF InsertVersion
  <2>3. DOMAIN writes'[r] = DOMAIN writes[r] \cup {num[r]}
    BY <2>2 DEF Overlay, OneRow
  <2>. QED
    BY <1>1, <2>1, <2>2, <2>3 DEF Seen, Rotating
<1>. QED
  BY <1>4, <1>5, <1>6, <1>7, <1>8, <1>9, <1>10, <1>11, <1>12, <1>13 DEF Serve

\* Each step of a request is one of the abstract specification, or none.
LEMMA StepRefines ==
    ASSUME IInv, IInv', StoredInv, FlagInv,
           NEW r \in Requests, Start(r) \/ Serve(r) \/ Fail(r)
    PROVE  Contended!Next \/ UNCHANGED << History, CurrentVersions, secret, SeenBy, Turn >>
<1>1. SeenBy' = [SeenBy EXCEPT ![r] = Seen(r)'] /\ SeenBy[r] = Seen(r)
  BY SeenMoves DEF SeenBy
<1>2. /\ Rotating(r)' = Rotating(r) => Turn' = Turn
      /\ Rotating(r)' => Turn' = r
      /\ ~Rotating(r)' => Turn' = IF Turn = r THEN None ELSE Turn
      /\ Turn = r <=> Rotating(r)
  BY OthersSeen, TurnMoves, TurnIs
<1>3. CASE ~Commit(r) /\ ~RevokeRow(r)
  <2>1. UNCHANGED << secret, versions >> /\ UNCHANGED << History, CurrentVersions >>
    <3>1. UNCHANGED << secret, versions >>
      BY <1>3, WhoCommits
    <3>. QED
      BY <3>1 DEF History, CurrentVersions
  <2>2. CASE Seen(r)' = Seen(r) /\ Rotating(r)' = Rotating(r)
    <3>1. SeenBy' = SeenBy
      BY <1>1, <2>2 DEF SeenBy
    <3>. QED
      BY <1>2, <2>1, <2>2, <3>1
  <2>3. CASE Seen(r)' = {} /\ ~Rotating(r)'
    <3>1. Contended!GiveUp(r)
      BY <1>1, <1>2, <2>1, <2>3 DEF Contended!GiveUp
    <3>. QED
      BY <3>1 DEF Contended!Next
  <2>4. CASE Seen(r)' = CurrentVersions /\ Rotating(r)' /\ Turn = None
    <3>1. Contended!LookToRotate(r)
      BY <1>1, <1>2, <2>1, <2>4 DEF Contended!LookToRotate
    <3>. QED
      BY <3>1 DEF Contended!Next
  <2>5. CASE Seen(r)' = DOMAIN versions /\ ~Rotating(r) /\ ~Rotating(r)'
    <3>1. DOMAIN History = DOMAIN versions
      BY DEF History
    <3>2. Contended!LookToRollback(r)
      BY <1>1, <1>2, <2>1, <2>5, <3>1 DEF Contended!LookToRollback
    <3>. QED
      BY <3>2 DEF Contended!Next
  <2>. QED
    BY <1>3, <2>2, <2>3, <2>4, <2>5, StepsSee
<1>4. CASE RevokeRow(r)
  <2>1. secret # "absent" /\ secret' = "revoked"
    BY <1>4 DEF RevokeRow, IInv, NumInv, Goto
  <2>2. UNCHANGED << versions, writes, todo, kind >> /\ pc[r] = "revoke"
        /\ pc'[r] \in {"log", "done"}
    BY <1>4 DEF RevokeRow, Goto, Tx, Call, IInv, TypeOK
  <2>3. Seen(r)' = Seen(r) /\ Rotating(r)' = Rotating(r)
    BY <2>2 DEF Seen, Rotating
  <2>4. UNCHANGED << History, CurrentVersions >>
    BY <2>2 DEF History, CurrentVersions
  <2>5. SeenBy' = SeenBy
    BY <1>1, <2>3 DEF SeenBy
  <2>6. Contended!Revoke
    BY <1>2, <2>1, <2>3, <2>4, <2>5 DEF Contended!Revoke
  <2>. QED
    BY <2>6 DEF Contended!Next
<1>5. CASE Commit(r)
  <2>1. /\ CurrentVersions' = (CurrentVersions \ Seen(r)) \cup {num[r]}
        /\ Seen(r)' = {} /\ ~Rotating(r)'
        /\ kind[r] = "rollback" => num[r] \in Seen(r)
        /\ secret' = IF kind[r] = "create" THEN "active" ELSE secret
        /\ kind[r] \in {"create", "rotate", "rollback"} /\ pc[r] = "commit"
    BY <1>5, CommitReplaces DEF Commit, Goto, IInv, KindInv
  <2>2. CASE kind[r] = "rollback"
    <3>1. History' = History
      BY <1>5, <2>2, CommitRows DEF History
    <3>2. Turn # r /\ Turn' = Turn
      BY <1>2, <2>1, <2>2 DEF Rotating
    <3>3. Contended!Rollback(r)
      BY <1>1, <2>1, <2>2, <3>1, <3>2 DEF Contended!Rollback, Contended!Replace
    <3>. QED
      BY <3>3 DEF Contended!Next
  <2>3. CASE kind[r] = "rotate"
    <3>1. History' = Append(History, r) /\ num[r] = Len(History) + 1 /\ secret # "absent"
      BY <1>5, <2>3, WriterAppends
    <3>2. Turn = r /\ Turn' = None
      BY <1>2, <2>1, <2>3 DEF Rotating
    <3>3. Contended!Rotate(r, r)
      BY <1>1, <2>1, <2>3, <3>1, <3>2 DEF Contended!Rotate, Contended!Replace
    <3>. QED
      BY <3>3 DEF Contended!Next
  <2>4. CASE kind[r] = "create"
    <3>1. /\ History' = Append(History, r) /\ num[r] = Len(History) + 1
          /\ secret = "absent" /\ MaxVersion = 0
      BY <1>5, <2>4, WriterAppends
    <3>2. /\ History \in Seq(Requests \cup {None}) /\ Len(History) = 0
          /\ DOMAIN versions = {}
      BY <3>1, HistoryIsSequence DEF IInv, RowsInv
    <3>3. History' = << r >> /\ num[r] = 1
      BY <3>1, <3>2
    <3>4. CurrentVersions' = {1} /\ Seen(r)' = Seen(r)
      BY <2>1, <3>2, <3>3 DEF CurrentVersions, Seen
    <3>5. SeenBy' = SeenBy
      BY <1>1, <3>4 DEF SeenBy
    <3>6. Turn' = Turn
      BY <1>2, <2>1, <2>4 DEF Rotating
    <3>7. Contended!Create(r)
      BY <2>1, <2>4, <3>1, <3>3, <3>4, <3>5, <3>6 DEF Contended!Create
    <3>. QED
      BY <3>7 DEF Contended!Next
  <2>. QED
    BY <2>1, <2>2, <2>3, <2>4
<1>. QED
  BY <1>3, <1>4, <1>5

\* Any requests, however they interleave and fail, write the history of a secret
\* as ContendedSecret says, rollbacks included: a second current version comes
\* from a writer that had not seen the first, and from nothing else (RotateInTx,
\* SetCurrentVersion, RevokeSecret).
THEOREM WritesRefineContended == Spec => ImplementsContendedSecret
<1>1. Init => Contended!Init
  <2> SUFFICES ASSUME Init PROVE Contended!Init
    OBVIOUS
  <2>1. History \in Seq(Requests \cup {None}) /\ DOMAIN History = DOMAIN versions
    BY InitIInv, HistoryIsSequence DEF History
  <2>2. SeenBy = [r \in Requests |-> {}] /\ Turn = None
    BY DEF Init, SeenBy, Seen, Turn, Rotating, NoRows
  <2>3. CASE Seed = 0
    <3>1. secret = "absent" /\ DOMAIN versions = {}
      BY <2>3 DEF Init, NoRows
    <3>2. History = << >> /\ CurrentVersions = {}
      BY <2>1, <3>1 DEF CurrentVersions
    <3>. QED
      BY <2>1, <2>2, <3>1, <3>2 DEF Contended!Init
  <2>4. CASE Seed # 0
    <3>1. PICK c \in 1 .. Seed :
            versions = [v \in 1 .. Seed |-> [value |-> None, current |-> v = c]]
      BY <2>4 DEF Init
    <3>2. CurrentVersions = {c} /\ c \in DOMAIN History /\ secret = "active"
      BY <2>1, <2>4, <3>1 DEF CurrentVersions, Init
    <3>. QED
      BY <2>1, <2>2, <3>2 DEF Contended!Init
  <2>. QED
    BY <2>3, <2>4
<1>2. IInv /\ IInv' /\ StoredInv /\ FlagInv /\ [Next]_vars
        => [Contended!Next]_<< History, CurrentVersions, secret, SeenBy, Turn >>
  <2>1. ASSUME UNCHANGED vars
        PROVE  UNCHANGED << History, CurrentVersions, secret, SeenBy, Turn >>
    BY <2>1 DEF vars, History, CurrentVersions, SeenBy, Seen, Turn, Rotating
  <2>. QED
    BY <2>1, StepRefines DEF Next, AllDone
<1>. QED
  BY <1>1, <1>2, InductiveInvariant, StoredInvariant, FlagInvariant, PTL
     DEF Spec, ImplementsContendedSecret, Contended!Spec, Contended!contendedVars
-----------------------------------------------------------------------------
(* Where nobody rolls back, nobody is the victim of a deadlock. *)

\* Rotations lock the row of the secret before they visit versions, so no two of
\* them hold versions at the same time (RotateInTx).
LEMMA NobodyDeadlocked ==
    ASSUME "rollback" \notin Kinds, IInv, NEW S \in SUBSET Requests
    PROVE  ~Deadlocked(S)
<1> SUFFICES ASSUME Deadlocked(S) PROVE FALSE
  OBVIOUS
<1>1. \A r \in S : pc[r] = "update" /\ lock = r
  <2> SUFFICES ASSUME NEW r \in S PROVE pc[r] = "update" /\ lock = r
    OBVIOUS
  <2>1. pc[r] = "update"
    BY DEF Deadlocked
  <2>2. kind[r] # "rollback"
    BY DEF IInv, TypeOK
  <2>. QED
    BY <2>1, <2>2 DEF IInv, NumInv, Appending
<1>2. PICK r \in S : todo[r] # {}
  BY DEF Deadlocked
<1>3. PICK q \in S \ {r} : TRUE
  BY <1>2 DEF Deadlocked
<1>. QED
  BY <1>1, <1>2, <1>3

\* PostgreSQL aborts no creation, rotation, revocation or read for a deadlock,
\* however many run at once, where nobody rolls back: the lock RotateInTx takes
\* first is enough (secret_repo.go:213).
THEOREM RotationsNeverDeadlock ==
    ASSUME "rollback" \notin Kinds
    PROVE  Spec => [](\A r \in Requests : result[r] # "deadlock")
<1> DEFINE Undisturbed == \A r \in Requests : result[r] # "deadlock"
<1>1. Init => Undisturbed
  BY DEF Init
<1>2. IInv /\ Undisturbed /\ [Next]_vars => Undisturbed'
  <2> SUFFICES ASSUME IInv, Undisturbed, [Next]_vars PROVE Undisturbed'
    OBVIOUS
  <2>1. ASSUME NEW r \in Requests, Start(r) \/ Serve(r) \/ Fail(r) PROVE Undisturbed'
    <3>1. ~DeadlockVictim(r)
      BY NobodyDeadlocked DEF DeadlockVictim
    <3>2. result'[r] # "deadlock"
      BY <2>1, <3>1 DEF IInv, TypeOK, Answer, Start, Serve, Fail, Fetch, Refuse, Deny,
         InsertSecret, NameTaken, LockSecret, PickNumber, BeginClear, InsertVersion,
         CheckTarget, BeginSet, UpdateRow, EndUpdate, Commit, RevokeRow, ReadValue, Log
    <3>. QED
      BY <2>1, <3>2, OthersUntouched
  <2>2. CASE UNCHANGED vars
    BY <2>2 DEF vars
  <2>. QED
    BY <2>1, <2>2 DEF Next, AllDone
<1>. QED
  BY <1>1, <1>2, InductiveInvariant, PTL DEF Spec
==============================================================================
