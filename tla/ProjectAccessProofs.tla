-------------------------- MODULE ProjectAccessProofs --------------------------
(***************************************************************************)
(* What ProjectAccess guarantees for any number of users, projects and     *)
(* concurrent calls.                                                       *)
(*                                                                         *)
(* A membership and a grant are read in two statements and used later.     *)
(* The invariant follows a call along its checks (OnItsRoute): what a      *)
(* check has let through was true of the caller at that moment, so it is   *)
(* among the facts that ever held (Permitted), and what a check has found  *)
(* missing is not among those that always held (NotEntitled).              *)
(***************************************************************************)
EXTENDS ProjectAccess, TLAPS

AccessSteps == {"checkManager", "checkSecret", "upsertGrant", "deleteGrant",
                "readMember", "readGrant", "checkAccount", "serve"}

\* The statements of each call, and what they are given.
OnItsRoute(r) ==
    /\ call[r].kind \in MemberCalls \cup AccessCalls \cup {"none"}
    /\ call[r].kind = "none" <=> pc[r] = "idle"
    /\ call[r].kind \in MemberCalls => pc[r] \in Steps
    /\ pc[r] = "checkAdmin" => call[r].kind \in ProjectCalls
    /\ call[r].kind \in GrantCalls =>
         /\ pc[r] \in {"checkManager", "checkSecret", "upsertGrant", "deleteGrant", "done"}
         /\ call[r].target \in Users
    /\ call[r].kind = "grant" => call[r].arg \in LiveGrants
    /\ call[r].kind = "manage" =>
         pc[r] \in {"checkManager", "serve", "done"} /\ call[r].project = Home
    /\ call[r].kind \in ReaderCalls => pc[r] \in {"readMember", "readGrant", "serve", "done"}
    /\ call[r].kind = "readAsAccount" => pc[r] \in {"checkAccount", "serve", "done"}
    /\ pc[r] = "upsertGrant" => call[r].kind = "grant"
    /\ pc[r] = "readGrant" => call[r].kind = "read"
    /\ pc[r] \in AccessSteps => Home \in projects
    /\ pc[r] # "done" => result[r] = "none"

\* What held at some moment of a call that got this far.
Permitted(r) ==
    /\ call[r].kind \in ReaderCalls =>
         (pc[r] \in {"readGrant", "serve"} \/ result[r] = "ok" => "member" \in ever[r])
    /\ call[r].kind = "read" =>
         (pc[r] = "serve" \/ result[r] = "ok" => ever[r] \cap {"manager", "grant"} # {})
    /\ pc[r] = "checkSecret" /\ call[r].project = Home => "manager" \in ever[r]
    /\ pc[r] \in {"upsertGrant", "deleteGrant"} => "manager" \in ever[r]
    /\ call[r].kind \in ManagerCalls =>
         (pc[r] = "serve" \/ result[r] = "ok" => "manager" \in ever[r])

\* What did not hold all along when a check said no.
NotEntitled(r) ==
    /\ Running(r) /\ call[r].kind \in AccessCalls => always[r] \subseteq FactsOf(r)
    /\ pc[r] = "readGrant" => "manager" \notin always[r]
    /\ call[r].kind = "read" /\ Refused(r) =>
         "manager" \notin always[r] /\ ~({"member", "grant"} \subseteq always[r])

Followed(r) == OnItsRoute(r) /\ Permitted(r) /\ NotEntitled(r)

\* call is a function of the requests.
Functional ==
    /\ DOMAIN call = Requests
    /\ call = [r \in Requests |-> call[r]]

\* The inductive invariant.
AccessIInv == AccessTypeOK /\ Functional /\ \A r \in Requests : Followed(r)
-----------------------------------------------------------------------------
LEMMA InitAccess == AccessInit => AccessIInv
<1> SUFFICES ASSUME AccessInit PROVE AccessIInv
  OBVIOUS
<1>1. AccessTypeOK
  BY AccessAssumption DEF AccessInit, Init, AccessTypeOK, Steps, Answers
<1>2. ASSUME NEW r \in Requests PROVE Followed(r)
  BY DEF AccessInit, Init, Followed, OnItsRoute, Permitted, NotEntitled, Running, Refused,
     MemberCalls, ProjectCalls, TeamCalls, AccessCalls, ManagerCalls, GrantCalls,
     ReaderCalls, AccessSteps
<1> QED
  BY <1>1, <1>2 DEF AccessInit, Init, AccessIInv, Functional

\* What a step adds to the histories.
LEMMA Histories ==
    ASSUME ObserveFacts, NEW r \in Requests
    PROVE  /\ ever[r] \subseteq ever'[r]
           /\ pc[r] # "idle" => always'[r] \subseteq always[r]
           /\ Running(r)' /\ call'[r].kind \in AccessCalls =>
                FactsOf(r)' \subseteq ever'[r] /\ always'[r] \subseteq FactsOf(r)'
           /\ ~Running(r)' => ever'[r] = ever[r] /\ always'[r] = always[r]
BY DEF ObserveFacts

LEMMA HistoryTypes ==
    ASSUME AccessTypeOK, ObserveFacts
    PROVE  ever' \in [Requests -> SUBSET Facts] /\ always' \in [Requests -> SUBSET Facts]
BY DEF ObserveFacts, AccessTypeOK, FactsOf

\* A call that another one runs beside loses nothing of what it relies on.
LEMMA BesideKept ==
    ASSUME NEW r \in Requests, Followed(r), ObserveFacts, projects \subseteq projects',
           pc'[r] = pc[r], call'[r] = call[r], result'[r] = result[r]
    PROVE  Followed(r)'
<1>1. OnItsRoute(r)'
  BY DEF Followed, OnItsRoute
<1>2. Permitted(r)'
  BY Histories DEF Followed, Permitted
<1>3. NotEntitled(r)'
  <2>1. CASE pc[r] = "idle"
    <3>1. call[r].kind = "none"
      BY <2>1 DEF Followed, OnItsRoute
    <3> QED
      BY <2>1, <3>1 DEF NotEntitled, AccessCalls, ManagerCalls, GrantCalls, ReaderCalls
  <2>2. CASE pc[r] # "idle"
    BY <2>2, Histories DEF Followed, NotEntitled, Refused
  <2> QED
    BY <2>1, <2>2
<1> QED
  BY <1>1, <1>2, <1>3 DEF Followed
-----------------------------------------------------------------------------
(* The steps of the calls on members *)

\* They move a call on members, or let any call fail.
LEMMA MemberMoves ==
    ASSUME AccessIInv, NEW r \in Requests, MemberStep(r)
    PROVE  /\ projects \subseteq projects'
           /\ Functional'
           /\ \E to \in Steps \ {"idle"} : pc' = [pc EXCEPT ![r] = to]
           /\ \E a \in Answers : UNCHANGED result \/ result' = [result EXCEPT ![r] = a]
           /\ \/ /\ call[r].kind = "none"
                 /\ \E k \in MemberCalls : call' = [call EXCEPT ![r] = call'[r]] /\ call'[r].kind = k
                 /\ UNCHANGED result
                 /\ pc'[r] = "checkAdmin" => call'[r].kind \in ProjectCalls
                 /\ pc'[r] # "done"
              \/ /\ call[r].kind \in MemberCalls /\ UNCHANGED call
                 /\ pc'[r] # "checkAdmin"
                 /\ pc[r] # "done" /\ (pc'[r] # "done" => UNCHANGED result)
              \/ /\ UNCHANGED call
                 /\ pc[r] # "idle" /\ pc'[r] = "done" /\ result'[r] = "error"
<1> USE DEF AccessIInv, AccessTypeOK, Functional, tables
<1>0. OnItsRoute(r)
  BY DEF Followed
<1>1. CASE Start(r)
  <2>1. PICK k \in Kinds \cap MemberCalls, u \in Users, p \in Projects :
          \E t \in TargetsFor(k, u), x \in RolesFor(k) :
            /\ call' = [call EXCEPT ![r] = [kind |-> k, by |-> u, project |-> p,
                                            target |-> t, arg |-> x]]
            /\ Goto(r, "idle", FirstStep(k))
    BY <1>1 DEF Start
  <2>2. /\ FirstStep(k) \in Steps \ {"idle", "done"}
        /\ FirstStep(k) = "checkAdmin" => k \in ProjectCalls
    BY DEF FirstStep, MemberCalls, Steps
  <2>3. UNCHANGED << projects, result >>
    BY <1>1 DEF Start
  <2>4. /\ call' = [call EXCEPT ![r] = call'[r]] /\ call'[r].kind = k
        /\ pc' = [pc EXCEPT ![r] = FirstStep(k)] /\ pc[r] = "idle"
    BY <2>1 DEF Goto
  <2> QED
    BY <1>0, <2>2, <2>3, <2>4 DEF OnItsRoute, Answers
<1>2. CASE Fail(r)
  BY <1>2 DEF Fail, Finish, Goto, Answer, Steps, Answers
<1>3. CASE CheckAdmin(r)
  <2>1. NextStep[call[r].kind] \in Steps \ {"idle", "checkAdmin", "done"}
        /\ call[r].kind \in MemberCalls
    BY <1>0, <1>3 DEF CheckAdmin, Finish, Goto, OnItsRoute, NextStep, ProjectCalls, Steps,
       MemberCalls
  <2> QED
    BY <1>3, <2>1 DEF CheckAdmin, Finish, Goto, Answer, Steps, Answers
<1>4. CASE \/ InsertProject(r) \/ InsertCreator(r) \/ UpsertMember(r) \/ DeleteMember(r)
           \/ UpdateMember(r) \/ InsertLink(r) \/ ListTeam(r) \/ AddNext(r) \/ EndOfList(r)
           \/ DeleteLink(r) \/ InsertTeam(r) \/ InsertOwner(r) \/ CheckOwner(r)
           \/ UpsertTeamMember(r) \/ DeleteTeamMember(r)
  <2>1. pc[r] \in Steps \ {"idle", "done", "checkAdmin"}
    BY <1>4 DEF InsertProject, InsertCreator, UpsertMember, DeleteMember, UpdateMember,
       InsertLink, ListTeam, AddNext, EndOfList, DeleteLink, InsertTeam, InsertOwner,
       CheckOwner, UpsertTeamMember, DeleteTeamMember, Wrote, Finish, Goto, Steps
  <2>2. call[r].kind \in MemberCalls
    BY <1>0, <2>1 DEF OnItsRoute, Steps, AccessCalls, ManagerCalls, GrantCalls, ReaderCalls
  <2>3. UNCHANGED call /\ projects \subseteq projects'
    BY <1>4 DEF InsertProject, InsertCreator, UpsertMember, DeleteMember, UpdateMember,
       InsertLink, ListTeam, AddNext, EndOfList, DeleteLink, InsertTeam, InsertOwner,
       CheckOwner, UpsertTeamMember, DeleteTeamMember
  <2>4. PICK to \in Steps \ {"idle", "checkAdmin"} :
          /\ pc' = [pc EXCEPT ![r] = to]
          /\ to # "done" => UNCHANGED result
    <3>1. CASE AddNext(r)
      BY <2>1, <3>1 DEF AddNext
    <3>2. CASE ~AddNext(r)
      BY <1>4, <3>2 DEF InsertProject, InsertCreator, UpsertMember, DeleteMember, UpdateMember,
         InsertLink, ListTeam, EndOfList, DeleteLink, InsertTeam, InsertOwner,
         CheckOwner, UpsertTeamMember, DeleteTeamMember, Wrote, Finish, Goto, Steps
    <3> QED
      BY <3>1, <3>2
  <2>5. \E a \in Answers : UNCHANGED result \/ result' = [result EXCEPT ![r] = a]
    BY <1>4 DEF InsertProject, InsertCreator, UpsertMember, DeleteMember, UpdateMember,
       InsertLink, ListTeam, AddNext, EndOfList, DeleteLink, InsertTeam, InsertOwner,
       CheckOwner, UpsertTeamMember, DeleteTeamMember, Wrote, Finish, Goto, Answer, Answers
  <2>6. /\ pc[r] # "done" /\ pc'[r] # "checkAdmin"
        /\ pc'[r] # "done" => UNCHANGED result
    BY <2>1, <2>4
  <2> QED
    BY <2>2, <2>3, <2>4, <2>5, <2>6
<1> QED
  BY <1>1, <1>2, <1>3, <1>4 DEF MemberStep

LEMMA MemberStepKeeps ==
    ASSUME AccessIInv, NEW r \in Requests, MemberStep(r), UNCHANGED grant, ObserveFacts
    PROVE  AccessIInv'
<1>1. PICK to \in Steps \ {"idle"} : pc' = [pc EXCEPT ![r] = to]
  BY MemberMoves
<1>2. PICK a \in Answers : UNCHANGED result \/ result' = [result EXCEPT ![r] = a]
  BY MemberMoves
<1>3. AccessTypeOK'
  BY <1>1, <1>2, HistoryTypes, MemberMoves DEF AccessIInv, AccessTypeOK
<1>4. ASSUME NEW q \in Requests, q # r PROVE Followed(q)'
  <2>1. pc'[q] = pc[q] /\ call'[q] = call[q] /\ result'[q] = result[q]
    BY <1>1, <1>2, <1>4, MemberMoves DEF AccessIInv, AccessTypeOK, Functional
  <2> QED
    BY <2>1, BesideKept, MemberMoves DEF AccessIInv
<1>5. Followed(r)'
  <2>0. Followed(r) /\ projects \subseteq projects' /\ pc'[r] = to
    BY <1>1, MemberMoves DEF AccessIInv, AccessTypeOK
  <2> USE DEF AccessCalls, ManagerCalls, GrantCalls, ReaderCalls, MemberCalls, ProjectCalls,
       TeamCalls
  <2>1. CASE call'[r].kind \in MemberCalls
    <3>0. /\ pc'[r] = "checkAdmin" => call'[r].kind \in ProjectCalls
          /\ pc'[r] # "done" => result'[r] = "none"
          /\ pc'[r] \in Steps \ {"idle"}
      BY <1>1, <2>0, <2>1, MemberMoves DEF Followed, OnItsRoute
    <3>1. OnItsRoute(r)'
      BY <3>0, <2>1 DEF OnItsRoute, Steps, AccessSteps
    <3> QED
      BY <2>0, <2>1, <3>1 DEF Followed, Permitted, NotEntitled, Steps
  <2>2. CASE /\ UNCHANGED call /\ pc[r] # "idle" /\ pc'[r] = "done"
             /\ result'[r] = "error"
    BY <2>0, <2>2, Histories DEF Followed, OnItsRoute, Permitted, NotEntitled, Refused,
       Running, AccessSteps
  <2> QED
    BY <2>1, <2>2, MemberMoves
<1> QED
  BY <1>3, <1>4, <1>5, MemberMoves DEF AccessIInv
-----------------------------------------------------------------------------
(* The steps of the calls that need access *)

\* A call starts with the first check of its method.
LEMMA StartAccess ==
    ASSUME AccessIInv, NEW r \in Requests, AccessStart(r), ObserveFacts
    PROVE  AccessIInv'
<1> USE DEF AccessIInv, AccessTypeOK, Functional
<1>1. PICK k \in Kinds \cap AccessCalls, u \in Users, p \in Projects :
        \E t \in IF k \in GrantCalls THEN Users ELSE {u},
           x \in IF k = "grant" THEN LiveGrants ELSE {"none"} :
          /\ k \in GrantCalls \cup {"readAsAccount"} \/ p = Home
          /\ call' = [call EXCEPT ![r] = [kind |-> k, by |-> u, project |-> p,
                                          target |-> t, arg |-> x]]
          /\ Goto(r, "idle", IF k \in ManagerCalls THEN "checkManager"
                             ELSE IF k \in ReaderCalls THEN "readMember"
                             ELSE "checkAccount")
  BY DEF AccessStart
<1>2. /\ call'[r].kind = k
      /\ call'[r].project = Home \/ k \in GrantCalls \cup {"readAsAccount"}
      /\ call'[r].target \in Users
      /\ k = "grant" => call'[r].arg \in LiveGrants
      /\ call' = [call EXCEPT ![r] = call'[r]]
  BY <1>1
<1>3. /\ pc[r] = "idle"
      /\ \E to \in {"checkManager", "readMember", "checkAccount"} :
           /\ pc' = [pc EXCEPT ![r] = to]
           /\ k \in ManagerCalls => to = "checkManager"
           /\ k \in ReaderCalls => to = "readMember"
           /\ k = "readAsAccount" => to = "checkAccount"
  BY <1>1 DEF Goto, AccessCalls, ManagerCalls, GrantCalls, ReaderCalls
<1>4. Home \in projects /\ UNCHANGED << tables, grant, rest, result >>
  BY DEF AccessStart
<1>5. AccessTypeOK'
  BY <1>3, <1>4, HistoryTypes DEF tables
<1>6. ASSUME NEW q \in Requests, q # r PROVE Followed(q)'
  BY <1>2, <1>3, <1>4, <1>6, BesideKept DEF tables
<1>7. Followed(r)'
  <2>0. result'[r] = "none"
    BY <1>3, <1>4 DEF Followed, OnItsRoute
  <2> USE DEF AccessCalls, ManagerCalls, GrantCalls, ReaderCalls
  <2>1. OnItsRoute(r)'
    BY <1>2, <1>3, <1>4, <2>0 DEF OnItsRoute, MemberCalls, ProjectCalls, TeamCalls, tables
  <2>2. Permitted(r)'
    BY <1>3, <2>0 DEF Permitted
  <2>3. NotEntitled(r)'
    BY <1>3, <2>0, Histories DEF NotEntitled, Refused
  <2> QED
    BY <2>1, <2>2, <2>3 DEF Followed
<1> QED
  BY <1>2, <1>5, <1>6, <1>7

\* What the statements of a call change: of the grants, what managers decide.
LEMMA AccessMoves ==
    ASSUME AccessIInv, NEW r \in Requests,
           \/ CheckManager(r) \/ CheckSecret(r) \/ UpsertGrant(r) \/ DeleteGrant(r)
           \/ ReadMember(r) \/ ReadGrant(r) \/ CheckAccount(r) \/ ServeCall(r)
    PROVE  /\ UNCHANGED << tables, call >>
           /\ pc[r] \in AccessSteps
           /\ \E to \in (AccessSteps \cup {"done"}) :
                /\ pc' = [pc EXCEPT ![r] = to] /\ to # pc[r]
                /\ to # "done" => UNCHANGED result
           /\ \E a \in Answers \cup {"expired"} :
                UNCHANGED result \/ result' = [result EXCEPT ![r] = a]
           /\ \/ UNCHANGED grant
              \/ /\ grant' \in [Users -> Grants] /\ Home \in projects
                 /\ pc[r] \in {"upsertGrant", "deleteGrant"}
<1> USE DEF AccessIInv, AccessTypeOK, AccessSteps, Goto, Finish, Answer, Answers, Wrote
<1>0. OnItsRoute(r)
  BY DEF Followed
<1>1. CASE UpsertGrant(r)
  <2>1. call[r].arg \in LiveGrants /\ Home \in projects
    BY <1>0, <1>1 DEF UpsertGrant, OnItsRoute
  <2> QED
    BY <1>1, <2>1 DEF UpsertGrant, SetGrant, Grants
<1>2. CASE DeleteGrant(r)
  <2>1. Home \in projects
    BY <1>0, <1>2 DEF DeleteGrant, OnItsRoute
  <2> QED
    BY <1>2, <2>1 DEF DeleteGrant, SetGrant, Grants
<1>3. CASE CheckManager(r)
  BY <1>3 DEF CheckManager
<1>4. CASE CheckSecret(r)
  BY <1>4 DEF CheckSecret
<1>5. CASE ReadMember(r)
  BY <1>5 DEF ReadMember
<1>6. CASE ReadGrant(r)
  BY <1>6 DEF ReadGrant
<1>7. CASE CheckAccount(r) \/ ServeCall(r)
  BY <1>7 DEF CheckAccount, ServeCall
<1> QED
  BY <1>1, <1>2, <1>3, <1>4, <1>5, <1>6, <1>7

\* What a check reads of the caller is among the facts of the next state.
LEMMA FactsRead ==
    ASSUME NEW r \in Requests, UNCHANGED << tables, call, grant >>
    PROVE  FactsOf(r)' = FactsOf(r)
BY DEF FactsOf, Manages, tables

LEMMA AccessStepKeeps ==
    ASSUME AccessIInv, NEW r \in Requests, ObserveFacts,
           \/ CheckManager(r) \/ CheckSecret(r) \/ UpsertGrant(r) \/ DeleteGrant(r)
           \/ ReadMember(r) \/ ReadGrant(r) \/ CheckAccount(r) \/ ServeCall(r)
    PROVE  AccessIInv'
<1> USE DEF AccessIInv, Functional
<1>1. PICK to \in AccessSteps \cup {"done"} :
        /\ pc' = [pc EXCEPT ![r] = to]
        /\ to # "done" => UNCHANGED result
  BY AccessMoves
<1>2. PICK a \in Answers \cup {"expired"} :
        UNCHANGED result \/ result' = [result EXCEPT ![r] = a]
  BY AccessMoves
<1>3. UNCHANGED << tables, call >> /\ pc[r] \in AccessSteps
  BY AccessMoves
<1>4. AccessTypeOK'
  <2>1. grant' \in [Users -> Grants] /\ (Home \notin projects => UNCHANGED grant)
    BY AccessMoves DEF AccessTypeOK
  <2> QED
    BY <1>1, <1>2, <1>3, <2>1, HistoryTypes DEF AccessTypeOK, tables, AccessSteps, Steps
<1>5. ASSUME NEW q \in Requests, q # r PROVE Followed(q)'
  BY <1>1, <1>2, <1>3, <1>5, BesideKept DEF tables, AccessTypeOK
<1>6. Followed(r)'
  <2> USE DEF AccessTypeOK, AccessCalls, ManagerCalls, GrantCalls, ReaderCalls, AccessSteps
  <2>0. /\ Followed(r) /\ OnItsRoute(r) /\ call[r].kind \in AccessCalls
        /\ result[r] = "none" /\ Running(r) /\ Home \in projects
    BY <1>3 DEF Followed, OnItsRoute, Running, Steps
  <2>1. /\ ever[r] \subseteq ever'[r] /\ always'[r] \subseteq always[r]
        /\ always[r] \subseteq FactsOf(r)
        /\ to # "done" /\ UNCHANGED grant =>
             FactsOf(r) \subseteq ever'[r] /\ always'[r] \subseteq FactsOf(r)'
        /\ to = "done" => ever'[r] = ever[r] /\ always'[r] = always[r]
    BY <1>1, <1>3, <2>0, Histories, FactsRead DEF Followed, NotEntitled, Running, Steps
  <2> USE DEF Goto, Finish, Answer, OnItsRoute
  <2>2. CASE CheckManager(r)
    <3>1. OnItsRoute(r)'
      BY <1>3, <2>0, <2>2 DEF CheckManager, tables, MemberCalls, ProjectCalls, TeamCalls
    <3>2. Permitted(r)'
      BY <1>1, <1>3, <2>0, <2>1, <2>2, <3>1 DEF CheckManager, Permitted, FactsOf, Facts
    <3>3. NotEntitled(r)'
      BY <1>1, <1>3, <2>0, <2>1, <2>2, <3>1 DEF CheckManager, NotEntitled, Running
    <3> QED
      BY <3>1, <3>2, <3>3 DEF Followed
  <2>3. CASE CheckSecret(r)
    <3>1. OnItsRoute(r)'
      BY <1>1, <1>3, <2>0, <2>3 DEF CheckSecret, tables, MemberCalls, ProjectCalls, TeamCalls
    <3>2. Permitted(r)'
      BY <1>1, <1>3, <2>0, <2>1, <2>3, <3>1 DEF CheckSecret, Followed, Permitted
    <3>3. NotEntitled(r)'
      BY <1>1, <1>3, <2>0, <2>1, <2>3, <3>1 DEF CheckSecret, Followed, NotEntitled, Refused, Running
    <3> QED
      BY <3>1, <3>2, <3>3 DEF Followed
  <2>4. CASE UpsertGrant(r)
    <3>1. OnItsRoute(r)'
      BY <1>1, <1>3, <2>0, <2>4 DEF UpsertGrant, Wrote, tables, MemberCalls, ProjectCalls, TeamCalls
    <3>2. Permitted(r)'
      BY <1>1, <1>3, <2>0, <2>1, <2>4, <3>1 DEF UpsertGrant, Wrote, Followed, Permitted
    <3>3. NotEntitled(r)'
      BY <1>1, <1>3, <2>0, <2>1, <2>4, <3>1 DEF UpsertGrant, Wrote, Followed, NotEntitled, Refused, Running
    <3> QED
      BY <3>1, <3>2, <3>3 DEF Followed
  <2>5. CASE DeleteGrant(r)
    <3>1. OnItsRoute(r)'
      BY <1>1, <1>3, <2>0, <2>5 DEF DeleteGrant, Wrote, tables, MemberCalls, ProjectCalls, TeamCalls
    <3>2. Permitted(r)'
      BY <1>1, <1>3, <2>0, <2>1, <2>5, <3>1 DEF DeleteGrant, Wrote, Followed, Permitted
    <3>3. NotEntitled(r)'
      BY <1>1, <1>3, <2>0, <2>1, <2>5, <3>1 DEF DeleteGrant, Wrote, Followed, NotEntitled, Refused, Running
    <3> QED
      BY <3>1, <3>2, <3>3 DEF Followed
  <2>6. CASE ReadMember(r)
    <3>1. OnItsRoute(r)'
      BY <1>1, <1>3, <2>0, <2>6 DEF ReadMember, tables, MemberCalls, ProjectCalls, TeamCalls
    <3>2. Permitted(r)'
      <4>1. call'[r].kind = call[r].kind /\ call[r].kind \in ReaderCalls
        BY <1>3, <2>0, <2>6 DEF ReadMember, MemberCalls, ProjectCalls, TeamCalls
      <4>2. CASE to # "done"
        <5>1. /\ UNCHANGED grant /\ "member" \in FactsOf(r)
              /\ to = "serve" /\ call[r].kind = "read" => "manager" \in FactsOf(r)
              /\ pc'[r] = to /\ to \in {"serve", "readGrant"} /\ result'[r] = "none"
          BY <1>1, <2>0, <2>6, <4>2 DEF ReadMember, FactsOf, Facts
        <5> QED
          BY <2>1, <4>1, <4>2, <5>1 DEF Permitted
      <4>3. CASE to = "done"
        <5>1. pc'[r] = "done" /\ result'[r] = "notFound"
          BY <1>1, <2>0, <2>6, <4>3 DEF ReadMember
        <5> QED
          BY <4>1, <5>1 DEF Permitted
      <4> QED
        BY <4>2, <4>3
    <3>3. NotEntitled(r)'
      <4>1. /\ call'[r].kind = call[r].kind /\ pc'[r] = to
            /\ call[r].kind \in ReaderCalls
        BY <1>1, <1>3, <2>0, <2>6 DEF ReadMember, MemberCalls, ProjectCalls, TeamCalls
      <4>2. CASE to # "done"
        <5>1. /\ UNCHANGED grant /\ result'[r] = "none"
              /\ to = "readGrant" => "manager" \notin FactsOf(r)
          BY <1>1, <2>0, <2>6, <4>2 DEF ReadMember, FactsOf
        <5> QED
          BY <2>1, <4>1, <4>2, <5>1 DEF NotEntitled, Refused
      <4>3. CASE to = "done"
        <5>1. "manager" \notin FactsOf(r) /\ "member" \notin FactsOf(r)
          BY <1>1, <2>0, <2>6, <4>3 DEF ReadMember, FactsOf, Manages
        <5> QED
          BY <2>1, <4>1, <4>3, <5>1 DEF NotEntitled, Running
      <4> QED
        BY <4>2, <4>3
    <3> QED
      BY <3>1, <3>2, <3>3 DEF Followed
  <2>7. CASE ReadGrant(r)
    <3>1. OnItsRoute(r)'
      BY <1>1, <1>3, <2>0, <2>7 DEF ReadGrant, tables, MemberCalls, ProjectCalls, TeamCalls
    <3>2. Permitted(r)'
      <4>1. call'[r].kind = "read" /\ call[r].kind = "read" /\ "member" \in ever'[r]
        BY <1>3, <2>0, <2>1, <2>7 DEF ReadGrant, Followed, Permitted
      <4>2. CASE to # "done"
        <5>1. /\ UNCHANGED grant /\ "grant" \in FactsOf(r)
              /\ pc'[r] = "serve" /\ result'[r] = "none"
          BY <1>1, <2>0, <2>7, <4>2 DEF ReadGrant, FactsOf, Facts
        <5> QED
          BY <2>1, <4>1, <4>2, <5>1 DEF Permitted
      <4>3. CASE to = "done"
        <5>1. pc'[r] = "done" /\ result'[r] \in {"expired", "forbidden"}
          BY <1>1, <2>0, <2>7, <4>3 DEF ReadGrant
        <5> QED
          BY <4>1, <5>1 DEF Permitted
      <4> QED
        BY <4>2, <4>3
    <3>3. NotEntitled(r)'
      BY <1>1, <1>3, <2>0, <2>1, <2>7, <3>1 DEF ReadGrant, Followed, NotEntitled,
         Refused, Running, FactsOf, LiveGrants
    <3> QED
      BY <3>1, <3>2, <3>3 DEF Followed
  <2>8. CASE CheckAccount(r)
    <3>1. OnItsRoute(r)'
      BY <1>1, <1>3, <2>0, <2>8 DEF CheckAccount, tables, MemberCalls, ProjectCalls, TeamCalls
    <3>2. Permitted(r)'
      BY <1>1, <1>3, <2>0, <2>1, <2>8, <3>1 DEF CheckAccount, Followed, Permitted
    <3>3. NotEntitled(r)'
      BY <1>1, <1>3, <2>0, <2>1, <2>8, <3>1 DEF CheckAccount, Followed, NotEntitled, Refused, Running
    <3> QED
      BY <3>1, <3>2, <3>3 DEF Followed
  <2>9. CASE ServeCall(r)
    <3>1. OnItsRoute(r)'
      BY <1>1, <1>3, <2>0, <2>9 DEF ServeCall, tables, MemberCalls, ProjectCalls, TeamCalls
    <3>2. Permitted(r)'
      BY <1>1, <1>3, <2>0, <2>1, <2>9, <3>1 DEF ServeCall, Followed, Permitted
    <3>3. NotEntitled(r)'
      BY <1>1, <1>3, <2>0, <2>1, <2>9, <3>1 DEF ServeCall, Followed, NotEntitled, Refused, Running
    <3> QED
      BY <3>1, <3>2, <3>3 DEF Followed
  <2> QED
    BY <2>2, <2>3, <2>4, <2>5, <2>6, <2>7, <2>8, <2>9
<1> QED
  BY <1>3, <1>4, <1>5, <1>6

\* The clock ends a grant: only the facts of the calls under way change.
LEMMA ExpireKeeps ==
    ASSUME AccessIInv, NEW u \in Users, Expire(u), ObserveFacts
    PROVE  AccessIInv'
<1>1. UNCHANGED << tables, pc, call, result >> /\ grant' = [grant EXCEPT ![u] = "expired"]
      /\ grant[u] = "timed"
  BY DEF Expire, SetGrant
<1>2. AccessTypeOK'
  BY <1>1, HistoryTypes DEF AccessIInv, AccessTypeOK, tables, Grants, LiveGrants, NoRoles
<1>3. ASSUME NEW r \in Requests PROVE Followed(r)'
  BY <1>1, <1>3, BesideKept DEF AccessIInv, tables
<1> QED
  BY <1>1, <1>2, <1>3 DEF AccessIInv, Functional

LEMMA AccessInductive == AccessIInv /\ [AccessNext]_accessVars => AccessIInv'
<1> SUFFICES ASSUME AccessIInv, [AccessNext]_accessVars PROVE AccessIInv'
  OBVIOUS
<1>1. CASE UNCHANGED accessVars
  <2>1. AccessTypeOK' /\ Functional'
    BY <1>1 DEF AccessIInv, AccessTypeOK, Functional, accessVars, memberVars, tables
  <2>2. ASSUME NEW r \in Requests PROVE Followed(r)'
    BY <1>1 DEF AccessIInv, accessVars, memberVars, tables, Followed, OnItsRoute, Permitted,
       NotEntitled, FactsOf, Manages, Running, Refused
  <2> QED
    BY <2>1, <2>2 DEF AccessIInv
<1>2. ASSUME NEW r \in Requests, AccessStep(r), ObserveFacts PROVE AccessIInv'
  BY <1>2, StartAccess, AccessStepKeeps DEF AccessStep
<1>3. ASSUME NEW r \in Requests, MemberStep(r), UNCHANGED grant, ObserveFacts
      PROVE  AccessIInv'
  BY <1>3, MemberStepKeeps
<1>4. ASSUME NEW u \in Users, Expire(u), ObserveFacts PROVE AccessIInv'
  BY <1>4, ExpireKeeps
<1> QED
  BY <1>1, <1>2, <1>3, <1>4 DEF AccessNext
-----------------------------------------------------------------------------
(* The theorems *)

LEMMA AccessInvariant == AccessSpec => []AccessIInv
BY InitAccess, AccessInductive, PTL DEF AccessSpec

\* The types of the variables, and that a grant is of a secret that exists.
THEOREM AccessTypes == AccessSpec => []AccessTypeOK
<1>1. AccessIInv => AccessTypeOK
  BY DEF AccessIInv
<1> QED
  BY <1>1, AccessInvariant, PTL

\* However memberships change meanwhile, nobody reads a secret or a list of a
\* project they did not belong to at some moment of the call
\* (authorizeProjectRead, CanReadSecret).
THEOREM OutsidersRefused == AccessSpec => []OutsidersAreRefused
<1>1. AccessIInv => OutsidersAreRefused
  BY DEF AccessIInv, Followed, Permitted, OutsidersAreRefused
<1> QED
  BY <1>1, AccessInvariant, PTL

\* Whoever reads the value of a secret managed the project, or held a grant
\* that was alive, at some moment of the call (CanReadSecret).
THEOREM ReadersPermitted == AccessSpec => []ReadersHadPermission
<1>1. AccessIInv => ReadersHadPermission
  BY DEF AccessIInv, Followed, Permitted, ReadersHadPermission
<1> QED
  BY <1>1, AccessInvariant, PTL

\* Whoever is entitled to the value during the whole call is not refused it,
\* whatever other calls do to their other rows (CanReadSecret).
THEOREM EntitledServed == AccessSpec => []EntitledAreServed
<1>1. AccessIInv => EntitledAreServed
  BY DEF AccessIInv, Followed, NotEntitled, EntitledAreServed
<1> QED
  BY <1>1, AccessInvariant, PTL

\* Grants, secrets and accounts of a project are written by its managers only,
\* and grants end by the clock (GrantAccess, RevokeAccess, CreateSecret).
THEOREM OnlyManagersDecide == AccessSpec => ManagersDecide
<1> DEFINE Decided ==
      /\ grant' # grant =>
            \/ \E u \in Users : grant[u] = "timed" /\ grant' = [grant EXCEPT ![u] = "expired"]
            \/ \E r \in Requests : pc'[r] # pc[r] /\ "manager" \in ever[r]
      /\ \A r \in Requests :
            call[r].kind \in ManagerCalls /\ result'[r] = "ok" => "manager" \in ever[r]
<1>1. ASSUME AccessIInv, AccessIInv', [AccessNext]_accessVars PROVE [Decided]_accessVars
  <2> SUFFICES ASSUME AccessNext, ~UNCHANGED accessVars PROVE Decided
    BY <1>1
  <2>0. ObserveFacts
    BY DEF AccessNext, accessVars
  <2>1. ASSUME grant' # grant
        PROVE  \/ \E u \in Users : grant[u] = "timed" /\ grant' = [grant EXCEPT ![u] = "expired"]
               \/ \E r \in Requests : pc'[r] # pc[r] /\ "manager" \in ever[r]
    <3>1. CASE \E u \in Users : Expire(u)
      BY <3>1 DEF Expire, SetGrant
    <3>2. ASSUME NEW r \in Requests, AccessStep(r)
          PROVE  pc'[r] # pc[r] /\ "manager" \in ever[r]
      <4>1. ~AccessStart(r)
        BY <2>1 DEF AccessStart
      <4>2. pc[r] \in {"upsertGrant", "deleteGrant"} /\ pc'[r] # pc[r]
        BY <1>1, <2>1, <3>2, <4>1, AccessMoves DEF AccessStep, AccessIInv, AccessTypeOK
      <4> QED
        BY <1>1, <4>2 DEF AccessIInv, Followed, Permitted
    <3> QED
      BY <2>1, <3>1, <3>2 DEF AccessNext, accessVars
  <2>2. ASSUME NEW r \in Requests, call[r].kind \in ManagerCalls, result'[r] = "ok"
        PROVE  "manager" \in ever[r]
    <3>1. pc[r] # "idle" /\ pc'[r] = "done"
      BY <1>1, <2>2 DEF AccessIInv, Followed, OnItsRoute, ManagerCalls, GrantCalls
    <3>2. call'[r] = call[r]
      <4>1. ASSUME NEW q \in Requests, AccessStart(q) \/ Start(q) PROVE call'[r] = call[r]
        <5>1. pc[q] = "idle" /\ \E c : call' = [call EXCEPT ![q] = c]
          BY <4>1 DEF AccessStart, Start, Goto
        <5> QED
          BY <1>1, <3>1, <5>1 DEF AccessIInv, Functional
      <4>2. ASSUME NEW q \in Requests, AccessStep(q), ~AccessStart(q) PROVE call'[r] = call[r]
        BY <1>1, <4>2, AccessMoves DEF AccessStep
      <4>3. ASSUME NEW q \in Requests, MemberStep(q), ~Start(q) PROVE call'[r] = call[r]
        BY <4>3 DEF MemberStep, Fail, InsertProject, InsertCreator, CheckAdmin, UpsertMember,
           DeleteMember, UpdateMember, InsertLink, ListTeam, AddNext, EndOfList, DeleteLink,
           InsertTeam, InsertOwner, CheckOwner, UpsertTeamMember, DeleteTeamMember
      <4>4. ASSUME NEW u \in Users, Expire(u) PROVE call'[r] = call[r]
        BY <4>4 DEF Expire
      <4> QED
        BY <4>1, <4>2, <4>3, <4>4 DEF AccessNext, accessVars
    <3>3. "manager" \in ever'[r]
      BY <1>1, <2>2, <3>2 DEF AccessIInv, Followed, Permitted
    <3>4. ever'[r] = ever[r]
      BY <2>0, <3>1, Histories DEF Running
    <3> QED
      BY <3>3, <3>4
  <2> QED
    BY <2>1, <2>2
<1> QED
  BY <1>1, AccessInvariant, PTL DEF AccessSpec, ManagersDecide
==============================================================================
