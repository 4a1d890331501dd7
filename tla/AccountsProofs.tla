---------------------------- MODULE AccountsProofs ----------------------------
(***************************************************************************)
(* What Accounts guarantees for any number of users, service accounts and  *)
(* concurrent calls.                                                       *)
(*                                                                         *)
(* What a call has read is out of date when it uses it.  The invariant     *)
(* says what of it still holds: a table of users that was not empty is not *)
(* empty (LateRegistrations), a caller that was an admin is one            *)
(* (BlockersAreAdmins), and a call whose principal was barred when it      *)
(* started has got no further than the check it will fail (BarredCalls).   *)
(***************************************************************************)
EXTENDS Accounts, TLAPS

\* A registration that will not insert an admin has seen a user.
LateRegistrations ==
    \A r \in Requests : pc[r] = "insert" /\ ~seen[r] => DOMAIN users # {}

\* Who is about to block a user is an admin and somebody else.
BlockersAreAdmins ==
    \A r \in Requests :
        pc[r] = "setBlocked" => By(r) \in Admins /\ By(r) # Target(r)

\* A barred call has an invalid principal, and has not passed the check of
\* its token or of its row.
BarredCalls ==
    \A r \in barred :
        /\ ~Valid(By(r))
        /\ pc[r] \in {"count", "insert", "readRow", "compare", "validate", "done"}
        /\ pc[r] = "compare" => ~seen[r]
        /\ Kind(r) = "register" \/ result[r] # "ok"

\* Who may be calling.
Callers ==
    \A r \in Requests :
        /\ pc[r] # "idle" => By(r) \in Principals
        /\ pc[r] \in {"count", "insert"} => Kind(r) = "register" /\ By(r) \in Users
        /\ pc[r] = "validate" => Kind(r) \in DOMAIN NextStep
        /\ pc[r] \in {"readActor", "setBlocked"} => Kind(r) \in {"block", "unblock"}

TypeInv == TypeOK /\ Callers

AdminInv ==
    /\ SomeAdmin
    /\ SoleAdminNotBlocked
    /\ LateRegistrations
    /\ BlockersAreAdmins

\* Nothing is answered before the end.
AnswersLast == \A r \in Requests : pc[r] # "done" => result[r] = "none"

BarredInv == AnswersLast /\ BarredCalls

IInv == TypeInv /\ AdminInv /\ BarredInv
-----------------------------------------------------------------------------
(* Types *)

LEMMA InitType == Init => TypeOK
<1> SUFFICES ASSUME Init PROVE TypeOK
  OBVIOUS
<1>1. DOMAIN users \subseteq Users /\ users \in [DOMAIN users -> [admin : BOOLEAN, blocked : BOOLEAN]]
  <2>1. CASE users = NoUsers
    BY <2>1 DEF NoUsers
  <2>2. CASE users # NoUsers
    <3>1. PICK S \in Seeds : \E first \in S :
            users = [u \in S |-> [admin |-> u = first, blocked |-> FALSE]]
      BY <2>2 DEF Init
    <3> QED
      BY <3>1, Assumption
  <2> QED
    BY <2>1, <2>2
<1>2. accounts \in [Accounts -> {"absent", "active", "revoked"}]
  BY DEF Init
<1>3. tokens \subseteq Principals
  BY <1>1 DEF Init, Principals
<1> QED
  BY <1>1, <1>2, <1>3 DEF Init, TypeOK, Steps, Answers

\* Calls that start, and calls that go on.
LEMMA StartCallers ==
    ASSUME TypeInv, NEW r \in Requests, Start(r)
    PROVE  TypeInv'
<1>1. PICK k \in Kinds, p \in Principals, t \in Principals :
        /\ k = "register" => p \in Users
        /\ call' = [call EXCEPT ![r] = [kind |-> k, by |-> p, target |-> t]]
        /\ Goto(r, "idle", FirstStep[k])
        /\ barred' = IF Valid(p) THEN barred ELSE barred \cup {r}
  BY DEF Start
<1>2. FirstStep[k] \in Steps \ {"idle", "insert", "readActor", "setBlocked"} /\ (FirstStep[k] = "count" => k = "register")
         /\ (FirstStep[k] = "validate" => k \in DOMAIN NextStep)
  BY Assumption DEF FirstStep, NextStep, Steps
<1>3. TypeOK'
  BY <1>1, <1>2 DEF Start, TypeInv, TypeOK, Goto, DB
<1>4. Callers'
  BY <1>1, <1>2 DEF TypeInv, TypeOK, Callers, Goto, By, Kind
<1> QED
  BY <1>3, <1>4 DEF TypeInv

LEMMA GoOnCallers ==
    ASSUME TypeInv, NEW r \in Requests, UNCHANGED call,
           pc[r] # "idle",
           NEW to \in Steps \ {"count", "validate"}, pc' = [pc EXCEPT ![r] = to],
           to = "insert" => pc[r] = "count",
           to = "setBlocked" => pc[r] = "readActor",
           to = "readActor" => Kind(r) \in {"block", "unblock"}
    PROVE  Callers'
  BY DEF TypeInv, TypeOK, Callers, By, Kind, Steps

\* Where a step takes its call.
LEMMA StepMoves ==
    ASSUME TypeInv, NEW r \in Requests, Step(r)
    PROVE  \E to \in Steps \ {"count", "validate"} :
             /\ pc' = [pc EXCEPT ![r] = to]
             /\ pc[r] # "idle" /\ UNCHANGED call
             /\ to = "insert" => pc[r] = "count"
             /\ to = "setBlocked" => pc[r] = "readActor"
             /\ to = "readActor" => Kind(r) \in {"block", "unblock"}
             /\ to # "done" => UNCHANGED result
<1> USE DEF Goto, Answer, Finish, DB
<1>1. CASE Validate(r)
  <2>1. pc[r] = "validate" /\ UNCHANGED call
    BY <1>1 DEF Validate
  <2>2. Kind(r) \in DOMAIN NextStep
    BY <2>1 DEF TypeInv, Callers
  <2>3. NextStep[Kind(r)] \in Steps \ {"count", "validate", "insert", "done"}
        /\ (NextStep[Kind(r)] \in {"readActor", "setBlocked"} =>
              NextStep[Kind(r)] = "readActor" /\ Kind(r) \in {"block", "unblock"})
    BY <2>2 DEF NextStep, Steps
  <2>4. \/ pc' = [pc EXCEPT ![r] = NextStep[Kind(r)]] /\ UNCHANGED result
        \/ pc' = [pc EXCEPT ![r] = "done"]
    BY <1>1 DEF Validate
  <2> QED
    BY <2>1, <2>3, <2>4 DEF Steps
<1>2. CASE NoRole(r) \/ WrongPassword(r) \/ LoginRefused(r) \/ Serve(r)
           \/ IssueUserToken(r) \/ IssueAccountToken(r)
  BY <1>2 DEF NoRole, WrongPassword, LoginRefused, Serve, IssueUserToken,
     IssueAccountToken, Steps
<1>3. CASE InsertUser(r) \/ SetBlocked(r) \/ InsertAccount(r) \/ SetRevoked(r)
  BY <1>3 DEF InsertUser, SetBlocked, InsertAccount, SetRevoked, Wrote, Steps
<1>4. CASE Count(r) \/ Authenticated(r)
  BY <1>4 DEF Count, Authenticated, Steps
<1>5. CASE ReadRow(r)
  BY <1>5 DEF ReadRow, Steps
<1>6. CASE ReadActor(r)
  BY <1>6 DEF ReadActor, Steps
<1>7. CASE ReadAccount(r)
  BY <1>7 DEF ReadAccount, Steps
<1> QED
  BY <1>1, <1>2, <1>3, <1>4, <1>5, <1>6, <1>7 DEF Step

LEMMA TypeStep == TypeInv /\ [Next]_vars => TypeInv'
<1> SUFFICES ASSUME TypeInv, [Next]_vars PROVE TypeInv'
  OBVIOUS
<1>1. CASE UNCHANGED vars
  BY <1>1 DEF vars, TypeInv, TypeOK, Callers, Kind, By
<1>2. CASE AllDone
  BY <1>1, <1>2 DEF AllDone
<1>3. ASSUME NEW r \in Requests, Start(r) PROVE TypeInv'
  BY <1>3, StartCallers
<1>4. ASSUME NEW r \in Requests, Fail(r) PROVE TypeInv'
  <2>1. TypeOK'
    BY <1>4 DEF Fail, TypeInv, TypeOK, Answer, DB, Steps, Answers
  <2>2. pc' = [pc EXCEPT ![r] = "done"] /\ pc[r] # "idle" /\ UNCHANGED call
    BY <1>4 DEF Fail, Running
  <2> QED
    BY <2>1, <2>2, GoOnCallers DEF TypeInv, Steps
<1>5. ASSUME NEW r \in Requests, Step(r) PROVE TypeInv'
  <2> USE DEF Goto, Answer, Finish, DB
  <2>0. PICK to \in Steps \ {"count", "validate"} :
          /\ pc' = [pc EXCEPT ![r] = to]
          /\ pc[r] # "idle" /\ UNCHANGED call
          /\ to = "insert" => pc[r] = "count"
          /\ to = "setBlocked" => pc[r] = "readActor"
          /\ to = "readActor" => Kind(r) \in {"block", "unblock"}
    BY <1>5, StepMoves
  <2>1. Callers'
    BY <2>0, GoOnCallers
  <2>2. pc' \in [Requests -> Steps] /\ By(r) \in Principals
    BY <2>0 DEF TypeInv, TypeOK, Callers
  <2>3. result' \in [Requests -> Answers]
    <3>1. PICK a \in Answers : result' = [result EXCEPT ![r] = a] \/ UNCHANGED result
      BY <1>5 DEF Step, Count, InsertUser, ReadRow, WrongPassword, LoginRefused,
         IssueUserToken, Authenticated, IssueAccountToken, Validate, Serve, ReadActor,
         SetBlocked, NoRole, InsertAccount, ReadAccount, SetRevoked, Wrote, Answers
    <3> QED
      BY <3>1 DEF TypeInv, TypeOK
  <2>4. seen' \in [Requests -> BOOLEAN]
    BY <1>5 DEF Step, Count, InsertUser, ReadRow, WrongPassword, LoginRefused,
       IssueUserToken, Authenticated, IssueAccountToken, Validate, Serve, ReadActor,
       SetBlocked, NoRole, InsertAccount, ReadAccount, SetRevoked, Valid, TypeInv, TypeOK
  <2>5. tokens' \subseteq Principals
    BY <1>5, <2>2 DEF Step, Count, InsertUser, ReadRow, WrongPassword, LoginRefused,
       IssueUserToken, Authenticated, IssueAccountToken, Validate, Serve, ReadActor,
       SetBlocked, NoRole, InsertAccount, ReadAccount, SetRevoked, TypeInv, TypeOK
  <2>6. barred' \subseteq Requests
    BY <1>5 DEF Step, Count, InsertUser, ReadRow, WrongPassword, LoginRefused,
       IssueUserToken, Authenticated, IssueAccountToken, Validate, Serve, ReadActor,
       SetBlocked, NoRole, InsertAccount, ReadAccount, SetRevoked, Admit, TypeInv, TypeOK
  <2>7. /\ DOMAIN users' \subseteq Users
        /\ users' \in [DOMAIN users' -> [admin : BOOLEAN, blocked : BOOLEAN]]
    <3>1. CASE UNCHANGED users
      BY <3>1 DEF TypeInv, TypeOK
    <3>2. CASE users' = NewRow(r) /\ pc[r] = "insert"
      BY <3>2 DEF NewRow, TypeInv, TypeOK, Callers
    <3>3. CASE users' = [users EXCEPT ![Target(r)].blocked = Kind(r) = "block"]
      <4>1. DOMAIN users' = DOMAIN users
        BY <3>3
      <4>2. \A u \in DOMAIN users :
              users'[u] \in [admin : BOOLEAN, blocked : BOOLEAN]
        <5> SUFFICES ASSUME NEW u \in DOMAIN users
                     PROVE  users'[u] \in [admin : BOOLEAN, blocked : BOOLEAN]
          OBVIOUS
        <5>1. users[u] \in [admin : BOOLEAN, blocked : BOOLEAN]
          BY DEF TypeInv, TypeOK
        <5>2. CASE u # Target(r)
          BY <3>3, <5>1, <5>2
        <5>3. CASE u = Target(r)
          BY <3>3, <5>1, <5>3
        <5> QED
          BY <5>2, <5>3
      <4>3. users' = [u \in DOMAIN users' |-> users'[u]]
        BY <3>3
      <4> QED
        BY <4>1, <4>2, <4>3 DEF TypeInv, TypeOK
    <3> QED
      BY <1>5, <3>1, <3>2, <3>3 DEF Step, Count, InsertUser, ReadRow, WrongPassword,
         LoginRefused, IssueUserToken, Authenticated, IssueAccountToken, Validate,
         Serve, ReadActor, SetBlocked, NoRole, InsertAccount, ReadAccount, SetRevoked, Wrote
  <2>8. accounts' \in [Accounts -> {"absent", "active", "revoked"}]
    BY <1>5 DEF Step, Count, InsertUser, ReadRow, WrongPassword, LoginRefused,
       IssueUserToken, Authenticated, IssueAccountToken, Validate, Serve, ReadActor,
       SetBlocked, NoRole, InsertAccount, ReadAccount, SetRevoked, TypeInv, TypeOK
  <2>9. TypeOK'
    BY <2>0, <2>2, <2>3, <2>4, <2>5, <2>6, <2>7, <2>8 DEF TypeOK, TypeInv
  <2> QED
    BY <2>1, <2>9 DEF TypeInv
<1> QED
  BY <1>1, <1>2, <1>3, <1>4, <1>5 DEF Next
-----------------------------------------------------------------------------
(* The table of users *)

\* A call inserts its own user, blocks or unblocks its target, or leaves the
\* table alone.
Inserts(r) ==
    /\ pc[r] = "insert"
    /\ By(r) \notin DOMAIN users
    /\ DOMAIN users' = DOMAIN users \cup {By(r)}
    /\ \A u \in DOMAIN users : users'[u] = users[u]
    /\ users'[By(r)] = [admin |-> seen[r], blocked |-> FALSE]
    /\ Admit(By(r))

Blocks(r) ==
    /\ pc[r] = "setBlocked"
    /\ DOMAIN users' = DOMAIN users
    /\ \A u \in DOMAIN users :
        /\ users'[u].admin = users[u].admin
        /\ u # Target(r) => users'[u] = users[u]
        /\ u = Target(r) => users'[u].blocked = (Kind(r) = "block")
    /\ IF Kind(r) = "unblock" THEN Admit(Target(r)) ELSE UNCHANGED barred

LEMMA UsersStep ==
    ASSUME TypeInv, NEW r \in Requests, Step(r)
    PROVE  \/ UNCHANGED users /\ (UNCHANGED barred \/ InsertAccount(r))
           \/ Inserts(r) \/ Blocks(r)
<1>1. CASE InsertUser(r)
  BY <1>1 DEF InsertUser, NewRow, Inserts, Wrote, Finish, Goto
<1>2. CASE SetBlocked(r) /\ Target(r) \in DOMAIN users
  <2>1. /\ pc[r] = "setBlocked"
        /\ users' = [users EXCEPT ![Target(r)].blocked = Kind(r) = "block"]
        /\ IF Kind(r) = "unblock" THEN Admit(Target(r)) ELSE UNCHANGED barred
    BY <1>2 DEF SetBlocked, Wrote, Finish, Goto
  <2>2. \A u \in DOMAIN users : users[u] \in [admin : BOOLEAN, blocked : BOOLEAN]
    BY DEF TypeInv, TypeOK
  <2>3. DOMAIN users' = DOMAIN users
    BY <2>1
  <2>4. ASSUME NEW u \in DOMAIN users, u # Target(r) PROVE users'[u] = users[u]
    BY <2>1, <2>4
  <2>5. /\ users'[Target(r)].admin = users[Target(r)].admin
        /\ users'[Target(r)].blocked = (Kind(r) = "block")
    BY <1>2, <2>1, <2>2
  <2> QED
    BY <2>1, <2>3, <2>4, <2>5 DEF Blocks
<1>3. CASE SetBlocked(r) /\ Target(r) \notin DOMAIN users
  BY <1>3 DEF SetBlocked
<1> QED
  BY <1>1, <1>2, <1>3 DEF Step, Count, ReadRow, WrongPassword, LoginRefused, IssueUserToken,
     Authenticated, IssueAccountToken, Validate, Serve, ReadActor, NoRole,
     InsertAccount, ReadAccount, SetRevoked, DB

\* Nobody stops being a user or an admin.
LEMMA UsersStay ==
    ASSUME TypeInv, NEW r \in Requests, Step(r)
    PROVE  DOMAIN users \subseteq DOMAIN users' /\ Admins \subseteq Admins'
<1>1. CASE UNCHANGED users
  BY <1>1 DEF Admins
<1>2. CASE Inserts(r)
  BY <1>2 DEF Admins, Inserts
<1>3. CASE Blocks(r)
  BY <1>3 DEF Admins, Blocks
<1> QED
  BY <1>1, <1>2, <1>3, UsersStep
-----------------------------------------------------------------------------
(* Admins *)

LEMMA InitAdmin == Init => AdminInv
<1> SUFFICES ASSUME Init PROVE AdminInv
  OBVIOUS
<1>1. CASE users = NoUsers
  BY <1>1 DEF Init, AdminInv, SomeAdmin, SoleAdminNotBlocked, LateRegistrations,
     BlockersAreAdmins, NoUsers, Admins
<1>2. CASE users # NoUsers
  <2>1. PICK S \in Seeds : \E first \in S :
          users = [u \in S |-> [admin |-> u = first, blocked |-> FALSE]]
    BY <1>2 DEF Init
  <2>2. PICK first \in S : users = [u \in S |-> [admin |-> u = first, blocked |-> FALSE]]
    BY <2>1
  <2> QED
    BY <2>2 DEF Init, AdminInv, SomeAdmin, SoleAdminNotBlocked, LateRegistrations,
       BlockersAreAdmins, Admins
<1> QED
  BY <1>1, <1>2

LEMMA AdminStep == TypeInv /\ AdminInv /\ [Next]_vars => AdminInv'
<1> SUFFICES ASSUME TypeInv, AdminInv, [Next]_vars PROVE AdminInv'
  OBVIOUS
<1>1. CASE UNCHANGED vars
  BY <1>1 DEF vars, AdminInv, SomeAdmin, SoleAdminNotBlocked, LateRegistrations,
     BlockersAreAdmins, Admins, By, Target
<1>2. CASE AllDone
  BY <1>1, <1>2 DEF AllDone
<1>3. ASSUME NEW r \in Requests, Start(r) \/ Fail(r) PROVE AdminInv'
  <2>1. UNCHANGED << users, seen >>
    BY <1>3 DEF Start, Fail, DB
  <2>2. PICK to \in Steps \ {"insert", "setBlocked"} : pc' = [pc EXCEPT ![r] = to]
    <3>1. CASE Start(r)
      <4>1. PICK k \in Kinds : Goto(r, "idle", FirstStep[k])
        BY <3>1 DEF Start
      <4>2. FirstStep[k] \in Steps \ {"insert", "setBlocked"}
        BY Assumption DEF FirstStep, Steps
      <4> QED
        BY <4>1, <4>2 DEF Goto
    <3>2. CASE Fail(r)
      BY <3>2 DEF Fail, Steps
    <3> QED
      BY <1>3, <3>1, <3>2
  <2>3. \A q \in Requests \ {r} : call'[q] = call[q]
    BY <1>3 DEF Start, Fail, TypeInv, TypeOK
  <2> QED
    BY <2>1, <2>2, <2>3 DEF AdminInv, SomeAdmin, SoleAdminNotBlocked, LateRegistrations,
       BlockersAreAdmins, Admins, By, Target, TypeInv, TypeOK
<1>4. ASSUME NEW r \in Requests, Step(r) PROVE AdminInv'
  <2>1. DOMAIN users \subseteq DOMAIN users' /\ Admins \subseteq Admins'
    BY <1>4, UsersStay
  <2>5. PICK to \in Steps :
          /\ pc' = [pc EXCEPT ![r] = to] /\ UNCHANGED call
          /\ to = "insert" => pc[r] = "count"
          /\ to = "setBlocked" => pc[r] = "readActor"
    BY <1>4, StepMoves
  <2>2. SomeAdmin' /\ SoleAdminNotBlocked'
    <3>1. CASE UNCHANGED users
      BY <3>1 DEF AdminInv, SomeAdmin, SoleAdminNotBlocked, Admins
    <3>2. CASE Inserts(r)
      <4>1. seen[r] \/ Admins # {}
        BY <3>2 DEF Inserts, AdminInv, LateRegistrations, SomeAdmin
      <4>2. Admins' = Admins \cup {u \in {By(r)} : seen[r]}
        BY <3>2 DEF Inserts, Admins
      <4>3. SomeAdmin'
        BY <4>1, <4>2 DEF SomeAdmin
      <4>4. ASSUME NEW a \in DOMAIN users', Admins' = {a} PROVE ~users'[a].blocked
        <5>1. CASE a = By(r)
          BY <3>2, <5>1 DEF Inserts
        <5>2. CASE a # By(r)
          BY <3>2, <4>2, <4>4, <5>2 DEF Inserts, AdminInv, SoleAdminNotBlocked
        <5> QED
          BY <5>1, <5>2
      <4> QED
        BY <4>3, <4>4 DEF SoleAdminNotBlocked
    <3>3. CASE Blocks(r)
      <4>1. Admins' = Admins
        BY <3>3 DEF Blocks, Admins
      <4>2. By(r) \in Admins /\ By(r) # Target(r)
        BY <3>3 DEF Blocks, AdminInv, BlockersAreAdmins
      <4> QED
        BY <3>3, <4>1, <4>2 DEF Blocks, AdminInv, SomeAdmin, SoleAdminNotBlocked
    <3> QED
      BY <1>4, <3>1, <3>2, <3>3, UsersStep
  <2>3. LateRegistrations'
    <3>1. CASE Count(r)
      BY <3>1, <2>1 DEF Count, Goto, DB, AdminInv, LateRegistrations, TypeInv, TypeOK
    <3>2. CASE ~Count(r)
      <4>1. pc[r] # "count"
        BY <1>4, <3>2 DEF Step, InsertUser, ReadRow, WrongPassword, LoginRefused,
           IssueUserToken, Authenticated, IssueAccountToken, Validate, Serve, ReadActor,
           SetBlocked, NoRole, InsertAccount, ReadAccount, SetRevoked, Goto, Finish, Wrote
      <4>2. \A q \in Requests : pc'[q] = "insert" => q # r /\ pc[q] = "insert"
        BY <4>1, <2>5 DEF TypeInv, TypeOK
      <4>3. \A q \in Requests \ {r} : seen'[q] = seen[q]
        BY <1>4, <3>2 DEF Step, InsertUser, ReadRow, WrongPassword, LoginRefused,
           IssueUserToken, Authenticated, IssueAccountToken, Validate, Serve, ReadActor,
           SetBlocked, NoRole, InsertAccount, ReadAccount, SetRevoked, TypeInv, TypeOK
      <4> QED
        BY <2>1, <4>2, <4>3 DEF AdminInv, LateRegistrations
    <3> QED
      BY <3>1, <3>2
  <2>4. BlockersAreAdmins'
    <3>1. CASE pc'[r] = "setBlocked"
      <4>1. pc[r] = "readActor"
        BY <3>1, <2>5 DEF TypeInv, TypeOK
      <4>2. ReadActor(r)
        BY <1>4, <4>1 DEF Step, Count, InsertUser, ReadRow, WrongPassword, LoginRefused,
           IssueUserToken, Authenticated, IssueAccountToken, Validate, Serve,
           SetBlocked, NoRole, InsertAccount, ReadAccount, SetRevoked, Goto, Finish, Wrote
      <4>3. By(r) \in Admins /\ By(r) # Target(r)
        BY <3>1, <4>2 DEF ReadActor, Goto, Finish, TypeInv, TypeOK
      <4> QED
        BY <2>1, <2>5, <4>3 DEF AdminInv, BlockersAreAdmins, By, Target, TypeInv, TypeOK
    <3>2. CASE pc'[r] # "setBlocked"
      BY <2>1, <2>5, <3>2 DEF AdminInv, BlockersAreAdmins, By, Target, TypeInv, TypeOK
    <3> QED
      BY <3>1, <3>2
  <2> QED
    BY <2>2, <2>3, <2>4 DEF AdminInv
<1> QED
  BY <1>1, <1>2, <1>3, <1>4 DEF Next
-----------------------------------------------------------------------------
(* Barred calls *)

LEMMA InitBarred == Init => BarredInv
  BY DEF Init, BarredInv, AnswersLast, BarredCalls

LEMMA StartBarred ==
    ASSUME TypeInv, BarredInv, NEW r \in Requests, Start(r)
    PROVE  BarredInv'
<1>1. PICK k \in Kinds, p \in Principals, t \in Principals :
        /\ call' = [call EXCEPT ![r] = [kind |-> k, by |-> p, target |-> t]]
        /\ Goto(r, "idle", FirstStep[k])
        /\ barred' = IF Valid(p) THEN barred ELSE barred \cup {r}
  BY DEF Start
<1>2. FirstStep[k] \in {"count", "readRow", "validate"}
  BY Assumption DEF FirstStep
<1>3. UNCHANGED << users, accounts, tokens, seen, result >>
  BY DEF Start, DB
<1>4. AnswersLast'
  BY <1>1, <1>2, <1>3 DEF BarredInv, AnswersLast, Goto, TypeInv, TypeOK
<1>5. ASSUME NEW q \in barred', q # r
      PROVE  q \in barred /\ pc'[q] = pc[q] /\ call'[q] = call[q]
  BY <1>1, <1>5 DEF Goto, TypeInv, TypeOK
<1>6. r \notin barred
  BY <1>1 DEF BarredInv, BarredCalls, Goto
<1>7. r \in barred' => ~Valid(p) /\ By(r)' = p /\ result[r] = "none"
  BY <1>1, <1>6 DEF By, TypeInv, TypeOK, BarredInv, AnswersLast, Goto
<1>8. BarredCalls'
  BY <1>1, <1>2, <1>3, <1>5, <1>7 DEF BarredInv, BarredCalls, Valid, By, Kind, Goto, TypeInv, TypeOK
<1> QED
  BY <1>4, <1>8 DEF BarredInv

\* A principal that is invalid before a step and valid after it has no call
\* among the barred ones any more.
LEMMA StaysInvalid ==
    ASSUME TypeInv, NEW r \in Requests, Step(r), NEW q \in barred'
    PROVE  q \in barred /\ (~Valid(By(q)) => ~Valid(By(q))')
<1>0. UNCHANGED call
  BY StepMoves
<1>1. CASE UNCHANGED << users, barred >> /\ UNCHANGED accounts
  BY <1>0, <1>1 DEF Valid, By
<1>2. CASE SetRevoked(r)
  BY <1>0, <1>2 DEF SetRevoked, Valid, By, TypeInv, TypeOK
<1>3. CASE InsertAccount(r)
  BY <1>0, <1>3 DEF InsertAccount, Wrote, Admit, Valid, By, TypeInv, TypeOK
<1>4. CASE Inserts(r) /\ UNCHANGED accounts
  BY <1>0, <1>4 DEF Inserts, Admit, Valid, By
<1>5. CASE Blocks(r) /\ UNCHANGED accounts
  <2>1. Kind(r) \in {"block", "unblock"}
    BY <1>5 DEF Blocks, TypeInv, Callers
  <2>2. q \in barred /\ (Kind(r) = "unblock" => By(q) # Target(r))
    BY <1>5, <2>1 DEF Blocks, Admit
  <2>3. CASE By(q) \in DOMAIN users
    BY <1>0, <1>5, <2>1, <2>2, <2>3, Assumption DEF Blocks, Valid, By, TypeInv, TypeOK
  <2>4. CASE By(q) \notin DOMAIN users
    BY <1>0, <1>5, <2>2, <2>4 DEF Blocks, Valid, By
  <2> QED
    BY <2>3, <2>4
<1>6. UNCHANGED accounts \/ SetRevoked(r) \/ InsertAccount(r)
  BY DEF Step, Count, InsertUser, ReadRow, WrongPassword, LoginRefused, IssueUserToken,
     Authenticated, IssueAccountToken, Validate, Serve, ReadActor, SetBlocked, NoRole,
     ReadAccount, DB
<1> QED
  BY <1>1, <1>2, <1>3, <1>4, <1>5, <1>6, UsersStep

LEMMA StepBarred ==
    ASSUME TypeInv, BarredInv, NEW r \in Requests, Step(r)
    PROVE  BarredInv'
<1>1. PICK to \in Steps :
        /\ pc' = [pc EXCEPT ![r] = to] /\ pc[r] # "idle"
        /\ UNCHANGED call
        /\ to # "done" => UNCHANGED result
  BY StepMoves
<1>2. \A q \in Requests \ {r} : /\ pc'[q] = pc[q]
                               /\ result'[q] = result[q]
                               /\ seen'[q] = seen[q]
  BY <1>1 DEF Step, Count, InsertUser, ReadRow, WrongPassword, LoginRefused,
     IssueUserToken, Authenticated, IssueAccountToken, Validate, Serve, ReadActor,
     SetBlocked, NoRole, InsertAccount, ReadAccount, SetRevoked, Answer, Finish, Wrote,
     TypeInv, TypeOK
<1>3. AnswersLast'
  <2>1. \A q \in Requests \ {r} : pc'[q] # "done" => result'[q] = "none"
    BY <1>2 DEF BarredInv, AnswersLast
  <2>2. pc[r] # "done"
    BY DEF Step, Count, InsertUser, ReadRow, WrongPassword, LoginRefused,
     IssueUserToken, Authenticated, IssueAccountToken, Validate, Serve, ReadActor,
     SetBlocked, NoRole, InsertAccount, ReadAccount, SetRevoked, Goto, Finish, Wrote
  <2>3. pc'[r] # "done" => result'[r] = "none"
    BY <1>1, <2>2 DEF BarredInv, AnswersLast, TypeInv, TypeOK
  <2> QED
    BY <2>1, <2>3 DEF AnswersLast
<1>4. ASSUME NEW q \in barred', q # r
      PROVE  /\ ~Valid(By(q))'
             /\ pc'[q] \in {"count", "insert", "readRow", "compare", "validate", "done"}
             /\ pc'[q] = "compare" => ~seen'[q]
             /\ Kind(q)' = "register" \/ result'[q] # "ok"
  BY <1>1, <1>2, <1>4, StaysInvalid DEF BarredInv, BarredCalls, Kind, TypeInv, TypeOK
<1>5. ASSUME r \in barred'
      PROVE  /\ ~Valid(By(r))'
             /\ pc'[r] \in {"count", "insert", "readRow", "compare", "validate", "done"}
             /\ pc'[r] = "compare" => ~seen'[r]
             /\ Kind(r)' = "register" \/ result'[r] # "ok"
  <2>1. /\ r \in barred /\ ~Valid(By(r)) /\ ~Valid(By(r))'
        /\ pc[r] \in {"count", "insert", "readRow", "compare", "validate", "done"}
        /\ pc[r] = "compare" => ~seen[r]
        /\ Kind(r)' = Kind(r)
        /\ Kind(r) = "register" \/ result[r] # "ok"
        /\ pc[r] = "insert" => Kind(r) = "register"
    BY <1>1, <1>5, StaysInvalid DEF BarredInv, BarredCalls, Kind, TypeInv, Callers
  <2>2. \/ Count(r) \/ InsertUser(r) \/ ReadRow(r) \/ WrongPassword(r)
        \/ LoginRefused(r) \/ Validate(r)
    BY <2>1 DEF Step, IssueUserToken, Authenticated, IssueAccountToken, Serve, ReadActor,
       SetBlocked, NoRole, InsertAccount, ReadAccount, SetRevoked, Goto, Finish, Wrote
  <2>3. CASE Count(r)
    BY <2>1, <2>3 DEF Count, Goto, TypeInv, TypeOK
  <2>4. CASE InsertUser(r)
    BY <2>1, <2>4 DEF InsertUser, Goto, Finish, Wrote, TypeInv, TypeOK
  <2>5. CASE ReadRow(r)
    BY <2>1, <2>5 DEF ReadRow, Goto, Finish, Answer, TypeInv, TypeOK
  <2>6. CASE WrongPassword(r) \/ LoginRefused(r)
    BY <2>1, <2>6 DEF WrongPassword, LoginRefused, Goto, Finish, Answer, TypeInv, TypeOK
  <2>7. CASE Validate(r)
    BY <2>1, <2>7 DEF Validate, Goto, Finish, Answer, TypeInv, TypeOK
  <2> QED
    BY <2>2, <2>3, <2>4, <2>5, <2>6, <2>7
<1>6. BarredCalls'
  BY <1>4, <1>5 DEF BarredCalls
<1> QED
  BY <1>3, <1>6 DEF BarredInv

LEMMA BarredStep == TypeInv /\ BarredInv /\ [Next]_vars => BarredInv'
<1> SUFFICES ASSUME TypeInv, BarredInv, [Next]_vars PROVE BarredInv'
  OBVIOUS
<1>1. CASE UNCHANGED vars
  BY <1>1 DEF vars, BarredInv, AnswersLast, BarredCalls, Valid, By, Kind
<1>2. CASE AllDone
  BY <1>1, <1>2 DEF AllDone
<1>3. ASSUME NEW r \in Requests, Start(r) PROVE BarredInv'
  BY <1>3, StartBarred
<1>4. ASSUME NEW r \in Requests, Fail(r) PROVE BarredInv'
  BY <1>4 DEF Fail, DB, Answer, BarredInv, AnswersLast, BarredCalls, Valid, By, Kind,
     TypeInv, TypeOK
<1>5. ASSUME NEW r \in Requests, Step(r) PROVE BarredInv'
  BY <1>5, StepBarred
<1> QED
  BY <1>1, <1>2, <1>3, <1>4, <1>5 DEF Next
-----------------------------------------------------------------------------
(* Racing registrations *)

\* Where a registration is, and what its success means: the row is there, and
\* was not there for any other call that succeeded.
Registrations ==
    /\ \A r \in Requests : Kind(r) = "register" =>
            /\ pc[r] \in {"count", "insert", "done"}
            /\ result[r] = "ok" => pc[r] = "done" /\ By(r) \in DOMAIN users
    /\ OneRegistration

\* Its two statements, and no other, belong to a registration.
LEMMA RegistrationSteps ==
    ASSUME TypeInv, Registrations, NEW r \in Requests, Step(r), Kind(r) = "register"
    PROVE  Count(r) \/ InsertUser(r)
  BY DEF Registrations, Step, ReadRow, WrongPassword, LoginRefused, IssueUserToken,
     Authenticated, IssueAccountToken, Validate, Serve, ReadActor, SetBlocked, NoRole,
     InsertAccount, ReadAccount, SetRevoked, Goto, Finish, Wrote

LEMMA RegistrationsStep ==
    TypeInv /\ BarredInv /\ Registrations /\ [Next]_vars => Registrations'
<1> SUFFICES ASSUME TypeInv, BarredInv, Registrations, [Next]_vars PROVE Registrations'
  OBVIOUS
<1> USE DEF Kind, By
<1>1. CASE UNCHANGED vars
  BY <1>1 DEF vars, Registrations, OneRegistration
<1>2. CASE AllDone
  BY <1>1, <1>2 DEF AllDone
<1>3. ASSUME NEW r \in Requests, Start(r) PROVE Registrations'
  <2>1. PICK k \in Kinds, p, t \in Principals :
          /\ call' = [call EXCEPT ![r] = [kind |-> k, by |-> p, target |-> t]]
          /\ Goto(r, "idle", FirstStep[k])
    BY <1>3 DEF Start
  <2>2. UNCHANGED << users, result >> /\ result[r] = "none"
    BY <1>3, <2>1 DEF Start, DB, Goto, BarredInv, AnswersLast
  <2>3. k = "register" => FirstStep[k] = "count"
    BY DEF FirstStep
  <2> QED
    BY <2>1, <2>2, <2>3 DEF Goto, Registrations, OneRegistration, TypeInv, TypeOK
<1>4. ASSUME NEW r \in Requests, Fail(r) PROVE Registrations'
  BY <1>4 DEF Fail, DB, Answer, Registrations, OneRegistration, TypeInv, TypeOK
<1>5. ASSUME NEW r \in Requests, Step(r) PROVE Registrations'
  <2>1. DOMAIN users \subseteq DOMAIN users' /\ UNCHANGED call
    BY <1>5, UsersStay, StepMoves
  <2>2. \A q \in Requests \ {r} : pc'[q] = pc[q] /\ result'[q] = result[q]
    BY <1>5 DEF Step, Count, InsertUser, ReadRow, WrongPassword, LoginRefused,
       IssueUserToken, Authenticated, IssueAccountToken, Validate, Serve, ReadActor,
       SetBlocked, NoRole, InsertAccount, ReadAccount, SetRevoked, Goto, Answer, Finish,
       Wrote, TypeInv, TypeOK
  <2>3. CASE Kind(r) # "register"
    BY <2>1, <2>2, <2>3 DEF Registrations, OneRegistration
  <2>4. CASE Count(r)
    BY <2>4, <2>1, <2>2 DEF Count, DB, Goto, Registrations, OneRegistration, TypeInv, TypeOK
  <2>5. CASE Kind(r) = "register" /\ InsertUser(r)
    <3>1. pc'[r] = "done"
      BY <2>5 DEF InsertUser, Goto, Finish, Wrote, TypeInv, TypeOK
    <3>2. CASE By(r) \in DOMAIN users
      BY <2>1, <2>2, <2>5, <3>1, <3>2 DEF InsertUser, Goto, Finish, Answer,
         Registrations, OneRegistration, TypeInv, TypeOK
    <3>3. CASE By(r) \notin DOMAIN users
      <4>1. By(r) \in DOMAIN users'
        BY <2>5, <3>3 DEF InsertUser, NewRow
      <4>2. \A q \in Requests \ {r} :
              Kind(q) = "register" /\ result[q] = "ok" => By(q) # By(r)
        BY <3>3 DEF Registrations
      <4> QED
        BY <2>1, <2>2, <3>1, <4>1, <4>2 DEF Registrations, OneRegistration
    <3> QED
      BY <3>2, <3>3
  <2> QED
    BY <1>5, <2>3, <2>4, <2>5, RegistrationSteps
<1> QED
  BY <1>1, <1>2, <1>3, <1>4, <1>5 DEF Next
-----------------------------------------------------------------------------
(* The theorems *)

LEMMA InductiveInvariant == Spec => []IInv
<1>1. Init => IInv
  <2>1. Init => Callers
    BY DEF Init, Callers
  <2> QED
    BY <2>1, InitType, InitAdmin, InitBarred DEF IInv, TypeInv
<1>2. IInv /\ [Next]_vars => IInv'
  BY TypeStep, AdminStep, BarredStep DEF IInv
<1> QED
  BY <1>1, <1>2, PTL DEF Spec

\* The types of the variables.
THEOREM AccountTypes == Spec => []TypeOK
<1>1. IInv => TypeOK
  BY DEF IInv, TypeInv
<1> QED
  BY <1>1, InductiveInvariant, PTL

\* For any number of racing registrations, blocks and unblocks there is an
\* admin as soon as there is a user, and an admin who is the only one is
\* never locked out (CreateUser, BlockUser).
THEOREM AdminRemains == Spec => [](SomeAdmin /\ SoleAdminNotBlocked)
<1>1. IInv => SomeAdmin /\ SoleAdminNotBlocked
  BY DEF IInv, AdminInv
<1> QED
  BY <1>1, InductiveInvariant, PTL

\* The first half of it: registrations, however they race, leave an admin.
THEOREM SomeAdminRemains == Spec => []SomeAdmin
BY AdminRemains, PTL

\* A blocked user and a revoked service account are out: no call they start
\* while they are succeeds (ValidatePrincipal, Login, Authenticate).
THEOREM BarredPrincipalsStayOut == Spec => []BarredStaysOut
<1>1. IInv => BarredStaysOut
  BY DEF IInv, BarredInv, BarredCalls, BarredStaysOut
<1> QED
  BY <1>1, InductiveInvariant, PTL

\* Of any number of registrations for one email that race, no more than one
\* succeeds (CreateUser).
THEOREM RegistersOnce == Spec => []OneRegistration
<1>1. Init => Registrations
  BY DEF Init, Registrations, OneRegistration, Kind
<1>2. IInv /\ Registrations /\ [Next]_vars => Registrations'
  BY RegistrationsStep DEF IInv
<1>3. Registrations => OneRegistration
  BY DEF Registrations
<1> QED
  BY <1>1, <1>2, <1>3, InductiveInvariant, PTL DEF Spec

\* Who is an admin is settled when they register, and a revoked service account
\* is never active again, whatever calls race (CreateUser, CreateServiceAccount).
THEOREM IdentitiesStay == Spec => IdentitiesKept
<1> DEFINE Kept ==
      /\ \A u \in DOMAIN users :
            u \in DOMAIN users' /\ users'[u].admin = users[u].admin
      /\ \A a \in Accounts : accounts[a] = "revoked" => accounts'[a] = "revoked"
<1>1. ASSUME IInv, [Next]_vars PROVE [Kept]_vars
  <2> SUFFICES ASSUME Next, ~UNCHANGED vars PROVE Kept
    BY <1>1
  <2>0. TypeInv
    BY <1>1 DEF IInv
  <2>1. ASSUME NEW r \in Requests, Start(r) \/ Fail(r) PROVE Kept
    BY <2>1 DEF Start, Fail, DB
  <2>2. ASSUME NEW r \in Requests, Step(r) PROVE Kept
    <3>1. \A u \in DOMAIN users :
            u \in DOMAIN users' /\ users'[u].admin = users[u].admin
      BY <2>0, <2>2, UsersStep DEF Inserts, Blocks
    <3>2. UNCHANGED accounts \/ SetRevoked(r) \/ InsertAccount(r)
      BY <2>2 DEF Step, Count, InsertUser, ReadRow, WrongPassword, LoginRefused,
         IssueUserToken, Authenticated, IssueAccountToken, Validate, Serve, ReadActor,
         SetBlocked, NoRole, ReadAccount, DB
    <3>3. \A a \in Accounts : accounts[a] = "revoked" => accounts'[a] = "revoked"
      BY <2>0, <3>2 DEF SetRevoked, InsertAccount, TypeInv, TypeOK
    <3> QED
      BY <3>1, <3>3
  <2> QED
    BY <2>1, <2>2 DEF Next, AllDone
<1> QED
  BY <1>1, InductiveInvariant, PTL DEF Spec, IdentitiesKept
==============================================================================
