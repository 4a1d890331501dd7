-------------------------- MODULE ProjectMembersProofs --------------------------
(***************************************************************************)
(* What ProjectMembers guarantees for any number of users, projects and    *)
(* concurrent calls.                                                       *)
(*                                                                         *)
(* A role is checked in one statement and used in another.  The invariant  *)
(* says where each call can be (OnItsWay), that a call whose caller never  *)
(* had authority has got no further than its check (PowerlessWait), and    *)
(* that whoever is past a check writes rows whose project and team exist   *)
(* (References).                                                           *)
(***************************************************************************)
EXTENDS ProjectMembers, TLAPS

\* The steps of the method each call runs.
OnItsWay ==
    \A r \in Requests :
        /\ pc[r] # "idle" => /\ call[r].kind \in MemberCalls
                             /\ call[r].by \in Users /\ call[r].target \in Users
                             /\ call[r].project \in Projects
                             /\ call[r].arg \in RolesFor(call[r].kind)
        /\ pc[r] = "checkAdmin" => call[r].kind \in ProjectCalls
        /\ pc[r] = "checkOwner" => call[r].kind \in TeamCalls
        /\ pc[r] \in {"insertProject", "insertCreator"} => call[r].kind = "createProject"
        /\ pc[r] \in {"insertTeam", "insertOwner"} => call[r].kind = "createTeam"
        /\ pc[r] = "upsertMember" => call[r].kind = "addMember"
        /\ pc[r] = "deleteMember" => call[r].kind = "removeMember"
        /\ pc[r] = "updateMember" => call[r].kind = "updateRole"
        /\ pc[r] \in {"insertLink", "listTeam", "addNext"} => call[r].kind = "assignTeam"
        /\ pc[r] = "deleteLink" => call[r].kind = "unassignTeam"
        /\ pc[r] = "upsertTeamMember" => call[r].kind = "addTeamMember"
        /\ pc[r] = "deleteTeamMember" => call[r].kind = "removeTeamMember"

\* A call past its check changes a project, or a team, that exists.
References ==
    \A r \in Requests :
        /\ pc[r] \in {"insertCreator", "upsertMember", "deleteMember", "updateMember",
                      "insertLink", "listTeam", "addNext", "deleteLink"} =>
             call[r].project \in projects
        /\ pc[r] \in {"listTeam", "addNext", "insertOwner", "upsertTeamMember",
                      "deleteTeamMember"} => team

\* A call whose caller never had authority is before its check or at its end.
PowerlessWait ==
    \A r \in powerless :
        /\ pc[r] \in {"checkAdmin", "checkOwner", "done"}
        /\ pc[r] # "done" => ~Authority(r)

IInv == TypeOK /\ OnItsWay /\ References /\ PowerlessWait
-----------------------------------------------------------------------------
(* Types *)

LEMMA InitInv == Init => IInv
<1> SUFFICES ASSUME Init PROVE IInv
  OBVIOUS
<1>1. SeedRoles \subseteq [Projects -> [Users -> Roles \cup {"none"}]]
      /\ SeedTeams \subseteq [Users -> TeamRoles \cup {"none"}]
  BY MembersAssumption
<1>2. TypeOK
  BY <1>1 DEF Init, TypeOK, Steps, Answers, NoRoles
<1> QED
  BY <1>2 DEF Init, IInv, OnItsWay, References, PowerlessWait

\* What the steps that give a role store.
LEMMA RoleStored ==
    ASSUME TypeOK, NEW p \in projects, NEW u \in Users, NEW x \in Roles \cup {"none"}, SetRole(p, u, x)
    PROVE  /\ role' \in [Projects -> [Users -> Roles \cup {"none"}]]
           /\ \A q \in Projects \ projects : role'[q] = role[q]
           /\ \A q \in Projects : q # p => role'[q] = role[q]
BY DEF TypeOK, SetRole

\* A call begins at the first step of its method.
LEMMA StartType ==
    ASSUME IInv, NEW r \in Requests, Start(r), ObserveAuthority
    PROVE  TypeOK' /\ OnItsWay' /\ References'
<1>1. PICK k \in Kinds \cap MemberCalls, u \in Users, p \in Projects :
        \E t \in TargetsFor(k, u), x \in RolesFor(k) :
            /\ call' = [call EXCEPT ![r] = [kind |-> k, by |-> u, project |-> p,
                                            target |-> t, arg |-> x]]
            /\ Goto(r, "idle", FirstStep(k))
  BY DEF Start
<1>2. PICK t \in TargetsFor(k, u), x \in RolesFor(k) :
            /\ call' = [call EXCEPT ![r] = [kind |-> k, by |-> u, project |-> p,
                                            target |-> t, arg |-> x]]
            /\ Goto(r, "idle", FirstStep(k))
  BY <1>1
<1>3. t \in Users /\ x \in Roles \cup TeamRoles \cup {"none"}
  BY DEF TargetsFor, RolesFor
<1>4. \/ FirstStep(k) = "checkAdmin" /\ k \in ProjectCalls
      \/ FirstStep(k) = "checkOwner" /\ k \in TeamCalls
      \/ FirstStep(k) = "insertProject" /\ k = "createProject"
      \/ FirstStep(k) = "insertTeam" /\ k = "createTeam"
  BY DEF FirstStep, MemberCalls
<1>5. TypeOK'
  BY <1>2, <1>3, <1>4 DEF IInv, TypeOK, Start, tables, Goto, Steps, ObserveAuthority
<1>6. OnItsWay'
  BY <1>2, <1>3, <1>4 DEF IInv, TypeOK, OnItsWay, Goto
<1>7. References'
  BY <1>2, <1>4 DEF IInv, TypeOK, References, Goto, Start, tables
<1> QED
  BY <1>5, <1>6, <1>7

\* A call ends: what it leaves to prove is about the tables.
LEMMA Ending ==
    ASSUME IInv, NEW r \in Requests, ObserveAuthority, UNCHANGED << projects, team, call, rest >>,
           NEW from \in Steps \ {"idle"},
           Wrote(r, from) \/ \E a \in Answers : Finish(r, from, a)
    PROVE  /\ pc' \in [Requests -> Steps] /\ result' \in [Requests -> Answers]
           /\ call' = call /\ rest' = rest /\ powerless' \subseteq Requests
           /\ OnItsWay' /\ References'
<1> USE DEF IInv, TypeOK
<1>1. PICK a \in Answers : /\ pc' = [pc EXCEPT ![r] = "done"]
                           /\ result' = [result EXCEPT ![r] = a]
  BY DEF Wrote, Finish, Goto, Answer, Answers
<1>2. pc' \in [Requests -> Steps] /\ result' \in [Requests -> Answers]
  BY <1>1 DEF Steps
<1>3. pc' = [pc EXCEPT ![r] = "done"] /\ call' = call /\ pc[r] # "idle"
  BY <1>1 DEF Wrote, Finish, Goto
<1>4. OnItsWay'
  BY <1>3 DEF OnItsWay
<1>5. References'
  BY <1>3 DEF References
<1> QED
  BY <1>2, <1>4, <1>5 DEF ObserveAuthority

\* Each statement of project.Service keeps the invariant.
LEMMA ProjectTypes ==
    ASSUME IInv, NEW r \in Requests, ObserveAuthority,
           \/ InsertProject(r) \/ InsertCreator(r) \/ CheckAdmin(r)
           \/ UpsertMember(r) \/ DeleteMember(r) \/ UpdateMember(r)
           \/ InsertLink(r) \/ ListTeam(r) \/ AddNext(r) \/ EndOfList(r) \/ DeleteLink(r)
    PROVE  TypeOK' /\ OnItsWay' /\ References'
<1> USE DEF IInv, TypeOK, OnItsWay, References
<1>0. powerless' \subseteq Requests
  BY DEF ObserveAuthority
<1>1. CASE InsertProject(r)
  <2>1. /\ pc' = [pc EXCEPT ![r] = "insertCreator"] /\ pc[r] = "insertProject"
        /\ call[r].project \in Projects
        /\ projects' = projects \cup {call[r].project}
        /\ UNCHANGED << role, team, teamRole, assigned, call, rest, result >>
    BY <1>1 DEF InsertProject, Goto
  <2>2. TypeOK'
    BY <1>0, <2>1 DEF Steps
  <2>3. OnItsWay' /\ References'
    BY <2>1
  <2> QED
    BY <2>2, <2>3
<1>2. CASE InsertCreator(r)
  <2>1. /\ call[r].project \in projects /\ call[r].by \in Users
        /\ SetRole(call[r].project, call[r].by, "admin")
    BY <1>2 DEF InsertCreator, Wrote, Goto
  <2>2. /\ role' \in [Projects -> [Users -> Roles \cup {"none"}]]
        /\ \A q \in Projects \ projects : role'[q] = role[q]
    BY <2>1, RoleStored DEF Roles
  <2>3. /\ Wrote(r, "insertCreator")
        /\ UNCHANGED << projects, team, teamRole, assigned, call, rest >>
    BY <1>2 DEF InsertCreator
  <2> QED
    BY <2>2, <2>3, Ending DEF Steps
<1>3. CASE CheckAdmin(r)
  <2>1. IsAdmin(r) => call[r].project \in projects
    BY <1>3 DEF CheckAdmin, IsAdmin, NoRoles
  <2>2. CASE pc' = [pc EXCEPT ![r] = "done"]
    <3>1. /\ \/ Finish(r, "checkAdmin", "invalid")
             \/ Finish(r, "checkAdmin", "forbidden")
          /\ UNCHANGED << tables, call, rest >>
      BY <1>3, <2>2 DEF CheckAdmin, Goto, NextStep, ProjectCalls
    <3> QED
      BY <3>1, Ending DEF tables, Steps, Answers
  <2>3. CASE pc' # [pc EXCEPT ![r] = "done"]
    <3>1. /\ pc' = [pc EXCEPT ![r] = NextStep[call[r].kind]]
          /\ IsAdmin(r)
          /\ pc[r] = "checkAdmin"
          /\ UNCHANGED << tables, call, rest, result >>
      BY <1>3, <2>3 DEF CheckAdmin, Finish, Goto
    <3>2. \/ call[r].kind = "addMember" /\ NextStep[call[r].kind] = "upsertMember"
          \/ call[r].kind = "removeMember" /\ NextStep[call[r].kind] = "deleteMember"
          \/ call[r].kind = "updateRole" /\ NextStep[call[r].kind] = "updateMember"
          \/ call[r].kind = "assignTeam" /\ NextStep[call[r].kind] = "insertLink"
          \/ call[r].kind = "unassignTeam" /\ NextStep[call[r].kind] = "deleteLink"
      BY <3>1 DEF NextStep, ProjectCalls
    <3> QED
      BY <1>0, <2>1, <3>1, <3>2 DEF tables, Steps
  <2> QED
    BY <2>2, <2>3
<1>4. CASE UpsertMember(r)
  <2>1. /\ call[r].project \in projects /\ call[r].target \in Users /\ call[r].arg \in Roles
        /\ SetRole(call[r].project, call[r].target, call[r].arg)
    BY <1>4 DEF UpsertMember, Wrote, Goto, RolesFor
  <2>2. /\ role' \in [Projects -> [Users -> Roles \cup {"none"}]]
        /\ \A q \in Projects \ projects : role'[q] = role[q]
    BY <2>1, RoleStored
  <2>3. /\ Wrote(r, "upsertMember")
        /\ UNCHANGED << projects, team, teamRole, assigned, call, rest >>
    BY <1>4 DEF UpsertMember
  <2> QED
    BY <2>2, <2>3, Ending DEF Steps
<1>5. CASE DeleteMember(r)
  <2>1. CASE IsMember(r)
    <3>1. /\ call[r].project \in projects /\ call[r].target \in Users
          /\ SetRole(call[r].project, call[r].target, "none")
      BY <1>5, <2>1 DEF DeleteMember
    <3>2. /\ role' \in [Projects -> [Users -> Roles \cup {"none"}]]
          /\ \A q \in Projects \ projects : role'[q] = role[q]
      BY <3>1, RoleStored
    <3>3. Wrote(r, "deleteMember") /\ UNCHANGED << projects, team, teamRole, assigned, call, rest >>
      BY <1>5, <2>1 DEF DeleteMember
    <3> QED
      BY <3>1, <3>2, <3>3, Ending DEF Steps
  <2>2. CASE ~IsMember(r)
    <3>1. /\ Finish(r, "deleteMember", "notFound") /\ "notFound" \in Answers
          /\ UNCHANGED << tables, call, rest >>
      BY <1>5, <2>2 DEF DeleteMember, tables, Answers
    <3> QED
      BY <3>1, Ending DEF tables, Steps
  <2> QED
    BY <2>1, <2>2
<1>6. CASE UpdateMember(r)
  <2>1. CASE IsMember(r)
    <3>1. /\ call[r].project \in projects /\ call[r].target \in Users /\ call[r].arg \in Roles
          /\ SetRole(call[r].project, call[r].target, call[r].arg)
      BY <1>6, <2>1 DEF UpdateMember, RolesFor
    <3>2. /\ role' \in [Projects -> [Users -> Roles \cup {"none"}]]
          /\ \A q \in Projects \ projects : role'[q] = role[q]
      BY <3>1, RoleStored
    <3>3. Wrote(r, "updateMember") /\ UNCHANGED << projects, team, teamRole, assigned, call, rest >>
      BY <1>6, <2>1 DEF UpdateMember
    <3> QED
      BY <3>1, <3>2, <3>3, Ending DEF Steps
  <2>2. CASE ~IsMember(r)
    <3>1. /\ Finish(r, "updateMember", "notFound") /\ "notFound" \in Answers
          /\ UNCHANGED << tables, call, rest >>
      BY <1>6, <2>2 DEF UpdateMember, tables, Answers
    <3> QED
      BY <3>1, Ending DEF tables, Steps
  <2> QED
    BY <2>1, <2>2
<1>7. CASE InsertLink(r)
  <2>1. CASE team
    BY <1>0, <1>7, <2>1 DEF InsertLink, Goto, Steps
  <2>2. CASE ~team
    <3>1. /\ Finish(r, "insertLink", "error") /\ "error" \in Answers
          /\ UNCHANGED << tables, call, rest >>
      BY <1>7, <2>2 DEF InsertLink, tables, Answers
    <3> QED
      BY <3>1, Ending DEF tables, Steps
  <2> QED
    BY <2>1, <2>2
<1>8. CASE ListTeam(r)
  BY <1>0, <1>8 DEF ListTeam, Goto, tables, Steps
<1>9. CASE AddNext(r)
  <2>1. PICK u \in rest[r] :
            /\ rest' = [rest EXCEPT ![r] = @ \ {u}]
            /\ SetRole(call[r].project, u, call[r].arg) \/ UNCHANGED role
    BY <1>9 DEF AddNext
  <2>2. call[r].project \in projects /\ u \in Users /\ call[r].arg \in Roles
    BY <1>9, <2>1 DEF AddNext, RolesFor
  <2>3. /\ role' \in [Projects -> [Users -> Roles \cup {"none"}]]
        /\ \A q \in Projects \ projects : role'[q] = role[q]
    BY <2>1, <2>2, RoleStored
  <2> QED
    BY <1>0, <1>9, <2>1, <2>3 DEF AddNext
<1>10. CASE EndOfList(r)
  <2>1. /\ Finish(r, "addNext", "ok") /\ "ok" \in Answers
        /\ UNCHANGED << tables, call, rest >>
    BY <1>10 DEF EndOfList, Answers
  <2> QED
    BY <2>1, Ending DEF tables, Steps
<1>11. CASE DeleteLink(r)
  <2>1. CASE call[r].project \in assigned
    <3>1. /\ Wrote(r, "deleteLink") /\ assigned' = assigned \ {call[r].project}
          /\ UNCHANGED << projects, role, team, teamRole, call, rest >>
      BY <1>11, <2>1 DEF DeleteLink
    <3> QED
      BY <3>1, Ending DEF Steps
  <2>2. CASE call[r].project \notin assigned
    <3>1. /\ Finish(r, "deleteLink", "notFound") /\ "notFound" \in Answers
          /\ UNCHANGED << tables, call, rest >>
      BY <1>11, <2>2 DEF DeleteLink, tables, Answers
    <3> QED
      BY <3>1, Ending DEF tables, Steps
  <2> QED
    BY <2>1, <2>2
<1> QED
  BY <1>1, <1>2, <1>3, <1>4, <1>5, <1>6, <1>7, <1>8, <1>9, <1>10, <1>11

\* ... and so does each statement of team.Service.
LEMMA TeamTypes ==
    ASSUME IInv, NEW r \in Requests, ObserveAuthority,
           \/ InsertTeam(r) \/ InsertOwner(r)
           \/ CheckOwner(r) \/ UpsertTeamMember(r) \/ DeleteTeamMember(r)
    PROVE  TypeOK' /\ OnItsWay' /\ References'
<1> USE DEF IInv, TypeOK, OnItsWay, References
<1>0. powerless' \subseteq Requests
  BY DEF ObserveAuthority
<1>1. CASE InsertTeam(r)
  <2>1. CASE team
    <3>1. /\ Finish(r, "insertTeam", "conflict") /\ "conflict" \in Answers
          /\ UNCHANGED << tables, call, rest >>
      BY <1>1, <2>1 DEF InsertTeam, tables, Answers
    <3> QED
      BY <3>1, Ending DEF tables, Steps
  <2>2. CASE ~team
    <3>1. /\ pc' = [pc EXCEPT ![r] = "insertOwner"] /\ pc[r] = "insertTeam" /\ team'
          /\ UNCHANGED << projects, role, teamRole, assigned, call, rest, result >>
      BY <1>1, <2>2 DEF InsertTeam, Goto
    <3>2. TypeOK'
      BY <1>0, <3>1 DEF Steps
    <3>3. OnItsWay' /\ References'
      BY <3>1
    <3> QED
      BY <3>2, <3>3
  <2> QED
    BY <2>1, <2>2
<1>2. CASE InsertOwner(r)
  <2>1. /\ Wrote(r, "insertOwner") /\ SetTeamRole(call[r].by, "owner")
        /\ UNCHANGED << projects, role, team, assigned, call, rest >>
    BY <1>2 DEF InsertOwner
  <2>2. call[r].by \in Users /\ team
    BY <2>1 DEF Wrote, Goto
  <2> QED
    BY <2>1, <2>2, Ending DEF SetTeamRole, Steps, TeamRoles
<1>3. CASE CheckOwner(r)
  <2>1. CASE IsOwner(r)
    <3>1. team
      BY <1>3, <2>1 DEF CheckOwner, IsOwner, NoRoles
    <3>2. \/ call[r].kind = "addTeamMember" /\ pc' = [pc EXCEPT ![r] = "upsertTeamMember"]
          \/ call[r].kind = "removeTeamMember" /\ pc' = [pc EXCEPT ![r] = "deleteTeamMember"]
      BY <1>3, <2>1 DEF CheckOwner, Goto, TeamCalls
    <3> QED
      BY <1>0, <1>3, <2>1, <3>1, <3>2 DEF CheckOwner, tables, Steps
  <2>2. CASE ~IsOwner(r)
    <3>1. /\ Finish(r, "checkOwner", "forbidden") /\ "forbidden" \in Answers
          /\ UNCHANGED << tables, call, rest >>
      BY <1>3, <2>2 DEF CheckOwner, Answers
    <3> QED
      BY <3>1, Ending DEF tables, Steps
  <2> QED
    BY <2>1, <2>2
<1>4. CASE UpsertTeamMember(r)
  <2>1. call[r].target \in Users /\ call[r].arg \in TeamRoles /\ team
    BY <1>4 DEF UpsertTeamMember, Wrote, Goto, RolesFor
  <2>2. /\ Wrote(r, "upsertTeamMember") /\ SetTeamRole(call[r].target, call[r].arg)
        /\ UNCHANGED << projects, role, team, assigned, call, rest >>
    BY <1>4 DEF UpsertTeamMember
  <2> QED
    BY <2>1, <2>2, Ending DEF SetTeamRole, Steps
<1>5. CASE DeleteTeamMember(r)
  <2>1. CASE teamRole[call[r].target] # "none"
    <3>1. /\ Wrote(r, "deleteTeamMember") /\ SetTeamRole(call[r].target, "none")
          /\ UNCHANGED << projects, role, team, assigned, call, rest >> /\ team
      BY <1>5, <2>1 DEF DeleteTeamMember
    <3> QED
      BY <3>1, Ending DEF SetTeamRole, Steps
  <2>2. CASE teamRole[call[r].target] = "none"
    <3>1. /\ Finish(r, "deleteTeamMember", "notFound") /\ "notFound" \in Answers
          /\ UNCHANGED << tables, call, rest >>
      BY <1>5, <2>2 DEF DeleteTeamMember, tables, Answers
    <3> QED
      BY <3>1, Ending DEF tables, Steps
  <2> QED
    BY <2>1, <2>2
<1> QED
  BY <1>1, <1>2, <1>3, <1>4, <1>5
-----------------------------------------------------------------------------
(* Authority *)

\* A step moves one call.
LEMMA OthersWait ==
    ASSUME IInv, NEW r \in Requests, MemberStep(r), NEW q \in Requests, q # r
    PROVE  pc'[q] = pc[q] /\ call'[q] = call[q] /\ rest'[q] = rest[q] /\ result'[q] = result[q]
<1> USE DEF IInv, TypeOK
<1>1. CASE Start(r)
  BY <1>1 DEF Start, Goto
<1>2. CASE Fail(r)
  BY <1>2 DEF Fail, Finish, Goto, Answer
<1>3. CASE InsertProject(r) \/ InsertCreator(r) \/ UpsertMember(r) \/ ListTeam(r) \/ AddNext(r)
           \/ EndOfList(r)
  BY <1>3 DEF InsertProject, InsertCreator, UpsertMember, ListTeam, AddNext, EndOfList,
     Wrote, Finish, Goto, Answer
<1>4. CASE CheckAdmin(r) \/ CheckOwner(r)
  BY <1>4 DEF CheckAdmin, CheckOwner, Finish, Goto, Answer
<1>5. CASE DeleteMember(r) \/ UpdateMember(r) \/ InsertLink(r) \/ DeleteLink(r)
  BY <1>5 DEF DeleteMember, UpdateMember, InsertLink, DeleteLink, Wrote, Finish, Goto, Answer
<1>6. CASE InsertTeam(r) \/ InsertOwner(r) \/ UpsertTeamMember(r) \/ DeleteTeamMember(r)
  BY <1>6 DEF InsertTeam, InsertOwner, UpsertTeamMember, DeleteTeamMember, Wrote, Finish, Goto, Answer
<1> QED
  BY <1>1, <1>2, <1>3, <1>4, <1>5, <1>6 DEF MemberStep

\* A call in its check, or at its end, has few steps.
LEMMA FewSteps ==
    ASSUME NEW r \in Requests, MemberStep(r), pc[r] \in {"checkAdmin", "checkOwner", "done"}
    PROVE  \/ pc[r] = "checkAdmin" /\ (CheckAdmin(r) \/ Fail(r))
           \/ pc[r] = "checkOwner" /\ (CheckOwner(r) \/ Fail(r))
BY DEF MemberStep, Start, Fail, InsertProject, InsertCreator, CheckAdmin, UpsertMember,
   DeleteMember, UpdateMember, InsertLink, ListTeam, AddNext, EndOfList, DeleteLink,
   InsertTeam, InsertOwner, CheckOwner, UpsertTeamMember, DeleteTeamMember,
   Wrote, Finish, Goto

\* Where the caller has never had authority the check fails.
LEMMA PowerlessEnd ==
    ASSUME IInv, NEW r \in powerless, MemberStep(r)
    PROVE  pc[r] # "done" /\ pc'[r] = "done" /\ UNCHANGED tables /\ result'[r] # "ok"
<1>1. /\ r \in Requests
      /\ pc[r] \in {"checkAdmin", "checkOwner", "done"}
      /\ pc[r] # "done" => ~Authority(r)
  BY DEF IInv, TypeOK, PowerlessWait
<1>2. CASE pc[r] = "checkAdmin" /\ (CheckAdmin(r) \/ Fail(r))
  <2>1. ~IsAdmin(r)
    BY <1>1, <1>2 DEF IInv, OnItsWay, Authority, ProjectCalls, TeamCalls
  <2> QED
    BY <1>1, <1>2, <2>1 DEF IInv, TypeOK, CheckAdmin, Fail, Finish, Goto, Answer
<1>3. CASE pc[r] = "checkOwner" /\ (CheckOwner(r) \/ Fail(r))
  <2>1. ~IsOwner(r)
    BY <1>1, <1>3 DEF IInv, OnItsWay, Authority, ProjectCalls, TeamCalls
  <2> QED
    BY <1>1, <1>3, <2>1 DEF IInv, TypeOK, CheckOwner, Fail, Finish, Goto, Answer
<1> QED
  BY <1>1, <1>2, <1>3, FewSteps

\* A call whose caller has no authority starts with the check of it.
LEMMA PowerlessStart ==
    ASSUME IInv, NEW r \in Requests, Start(r), ~Authority(r)'
    PROVE  pc'[r] \in {"checkAdmin", "checkOwner"}
<1>1. call'[r].kind \in ProjectCalls \cup TeamCalls
  BY DEF Authority
<1>2. PICK k \in Kinds \cap MemberCalls, u \in Users, p \in Projects :
        \E t \in TargetsFor(k, u), x \in RolesFor(k) :
            /\ call' = [call EXCEPT ![r] = [kind |-> k, by |-> u, project |-> p,
                                            target |-> t, arg |-> x]]
            /\ Goto(r, "idle", FirstStep(k))
  BY DEF Start
<1>3. call'[r].kind = k /\ pc'[r] = FirstStep(k)
  BY <1>2 DEF Goto, IInv, TypeOK
<1> QED
  BY <1>1, <1>3 DEF FirstStep

LEMMA PowerlessStep ==
    ASSUME IInv, NEW r \in Requests, MemberStep(r), ObserveAuthority
    PROVE  PowerlessWait'
<1> SUFFICES ASSUME NEW q \in powerless'
             PROVE  /\ pc'[q] \in {"checkAdmin", "checkOwner", "done"}
                    /\ pc'[q] # "done" => ~Authority(q)'
  BY DEF PowerlessWait
<1>1. /\ q \in Requests
      /\ \/ pc[q] = "done" /\ q \in powerless
         \/ (q \in powerless \/ (pc[q] = "idle" /\ pc'[q] # "idle")) /\ ~Authority(q)'
  BY DEF ObserveAuthority
<1>2. CASE q # r
  <2>1. pc'[q] = pc[q]
    BY <1>1, <1>2, OthersWait
  <2> QED
    BY <1>1, <2>1 DEF IInv, PowerlessWait
<1>3. CASE q = r /\ q \in powerless
  BY <1>3, PowerlessEnd
<1>4. CASE q = r /\ q \notin powerless
  <2>1. Start(r)
    BY <1>1, <1>4 DEF MemberStep, Fail, InsertProject, InsertCreator, CheckAdmin, UpsertMember,
       DeleteMember, UpdateMember, InsertLink, ListTeam, AddNext, EndOfList, DeleteLink,
       InsertTeam, InsertOwner, CheckOwner, UpsertTeamMember, DeleteTeamMember,
       Wrote, Finish, Goto
  <2> QED
    BY <1>1, <1>4, <2>1, PowerlessStart
<1> QED
  BY <1>2, <1>3, <1>4
-----------------------------------------------------------------------------
(* The invariant *)

LEMMA StepInv ==
    ASSUME IInv, [Next]_memberVars
    PROVE  IInv'
<1>1. CASE UNCHANGED memberVars
  BY <1>1 DEF memberVars, tables, IInv, TypeOK, OnItsWay, References, PowerlessWait,
     Authority, IsAdmin, IsOwner
<1>2. ASSUME NEW r \in Requests, MemberStep(r), ObserveAuthority
      PROVE  IInv'
  <2>1. TypeOK' /\ OnItsWay' /\ References'
    <3>1. CASE Fail(r)
      <4>1. /\ Finish(r, pc[r], "error") /\ pc[r] \in Steps \ {"idle"} /\ "error" \in Answers
            /\ UNCHANGED << tables, call, rest >>
        BY <3>1 DEF Fail, IInv, TypeOK, Answers
      <4> QED
        BY <1>2, <4>1, Ending DEF tables, IInv, TypeOK
    <3> QED
      BY <1>2, <3>1, StartType, ProjectTypes, TeamTypes DEF MemberStep
  <2> QED
    BY <1>2, <2>1, PowerlessStep DEF IInv
<1> QED
  BY <1>1, <1>2 DEF Next, AllDone

LEMMA InductiveInvariant == Spec => []IInv
BY InitInv, StepInv, PTL DEF Spec
-----------------------------------------------------------------------------
(* The theorems *)

\* The types of the variables and the foreign keys of the tables.
THEOREM MemberTypes == Spec => []TypeOK
<1>1. IInv => TypeOK
  BY DEF IInv
<1> QED
  BY <1>1, InductiveInvariant, PTL

\* However many calls run beside it, a call whose caller was no admin of the
\* project, or owner of the team, from its start on writes nothing and fails
\* (the role checks of project.Service and team.Service).
THEOREM PowerlessNeverAct == Spec => PowerlessAreHarmless
<1>1. ASSUME IInv, [Next]_memberVars
      PROVE  \A r \in powerless :
                << pc[r], rest[r] >> # << pc[r], rest[r] >>' =>
                    UNCHANGED tables /\ result'[r] # "ok"
  <2> SUFFICES ASSUME NEW r \in powerless,
                      << pc[r], rest[r] >> # << pc[r], rest[r] >>'
               PROVE  UNCHANGED tables /\ result'[r] # "ok"
    OBVIOUS
  <2>1. r \in Requests
    BY <1>1 DEF IInv, TypeOK
  <2>2. PICK q \in Requests : MemberStep(q)
    BY <1>1 DEF Next, AllDone, memberVars
  <2>3. q = r
    BY <1>1, <2>1, <2>2, OthersWait
  <2> QED
    BY <1>1, <2>2, <2>3, PowerlessEnd
<1> QED
  BY <1>1, InductiveInvariant, PTL DEF Spec, PowerlessAreHarmless
-----------------------------------------------------------------------------
(* Projects without an admin, and a team without an owner *)

\* No step changes the members of a stuck project, nor gets past a check of it.
LEMMA StuckStep ==
    ASSUME IInv, NEW r \in Requests, MemberStep(r), NEW p \in Projects, Stuck(p)
    PROVE  p \in projects' /\ role'[p] = role[p] /\ r \notin PastCheck(p)'
<1> USE DEF IInv, TypeOK
<1>0. p \in projects /\ r \notin PastCheck(p) /\ ~HasAdmin(p)
  BY DEF Stuck
<1>1. CASE Start(r)
  <2>1. PICK k \in Kinds \cap MemberCalls, u \in Users, o \in Projects :
          \E t \in TargetsFor(k, u), x \in RolesFor(k) :
              /\ call' = [call EXCEPT ![r] = [kind |-> k, by |-> u, project |-> o,
                                              target |-> t, arg |-> x]]
              /\ Goto(r, "idle", FirstStep(k))
    BY <1>1 DEF Start
  <2>2. call'[r].kind = k /\ pc'[r] = FirstStep(k)
    BY <2>1 DEF Goto
  <2>3. k \in ProjectCalls \cup {"createProject"} => FirstStep(k) \in {"checkAdmin", "insertProject"}
    BY DEF FirstStep, ProjectCalls, TeamCalls
  <2> QED
    BY <1>0, <1>1, <2>2, <2>3 DEF Start, tables, PastCheck
<1>2. CASE Fail(r)
  BY <1>0, <1>2 DEF Fail, Finish, Goto, tables, PastCheck
<1>3. CASE InsertProject(r)
  BY <1>0, <1>3 DEF InsertProject, Goto, PastCheck
<1>4. CASE CheckAdmin(r)
  <2>1. CASE call[r].project = p
    <3>1. ~IsAdmin(r)
      BY <1>0, <1>4, <2>1 DEF HasAdmin, IsAdmin, OnItsWay, CheckAdmin
    <3> QED
      BY <1>0, <1>4, <3>1 DEF CheckAdmin, Finish, Goto, tables, PastCheck
  <2>2. CASE call[r].project # p
    BY <1>0, <1>4, <2>2 DEF CheckAdmin, tables, PastCheck
  <2> QED
    BY <2>1, <2>2
<1>5. CASE InsertCreator(r) \/ UpsertMember(r) \/ DeleteMember(r) \/ UpdateMember(r) \/ AddNext(r)
  <2>1. pc[r] \in {"insertCreator", "upsertMember", "deleteMember", "updateMember", "addNext"}
    BY <1>5 DEF InsertCreator, UpsertMember, DeleteMember, UpdateMember, AddNext, Wrote, Goto
  <2>2. call[r].project # p
    BY <1>0, <2>1 DEF OnItsWay, PastCheck, ProjectCalls
  <2> QED
    BY <1>0, <1>5, <2>2 DEF InsertCreator, UpsertMember, DeleteMember, UpdateMember, AddNext,
       SetRole, PastCheck
<1>6. CASE InsertLink(r) \/ ListTeam(r) \/ EndOfList(r) \/ DeleteLink(r)
  <2>1. pc[r] \in {"insertLink", "listTeam", "addNext", "deleteLink"}
    BY <1>6 DEF InsertLink, ListTeam, EndOfList, DeleteLink, Finish, Goto
  <2>2. call[r].project # p
    BY <1>0, <2>1 DEF OnItsWay, PastCheck, ProjectCalls
  <2> QED
    BY <1>0, <1>6, <2>2 DEF InsertLink, ListTeam, EndOfList, DeleteLink, tables, PastCheck
<1>7. CASE \/ InsertTeam(r) \/ InsertOwner(r) \/ CheckOwner(r) \/ UpsertTeamMember(r)
           \/ DeleteTeamMember(r)
  <2>1. pc[r] \in {"insertTeam", "insertOwner", "checkOwner", "upsertTeamMember", "deleteTeamMember"}
    BY <1>7 DEF InsertTeam, InsertOwner, CheckOwner, UpsertTeamMember, DeleteTeamMember, Wrote, Goto
  <2>2. call[r].kind \notin ProjectCalls \cup {"createProject"}
    BY <2>1 DEF OnItsWay, ProjectCalls, TeamCalls
  <2> QED
    BY <1>0, <1>7, <2>2 DEF InsertTeam, InsertOwner, CheckOwner, UpsertTeamMember,
       DeleteTeamMember, tables, PastCheck
<1> QED
  BY <1>1, <1>2, <1>3, <1>4, <1>5, <1>6, <1>7 DEF MemberStep

\* No step changes the members of a team without an owner.
LEMMA TeamStuckStep ==
    ASSUME IInv, NEW r \in Requests, MemberStep(r), TeamStuck
    PROVE  team' /\ teamRole' = teamRole /\ r \notin PastOwnerCheck'
<1> USE DEF IInv, TypeOK
<1>0. /\ team /\ r \notin PastOwnerCheck
      /\ \A u \in Users : teamRole[u] # "owner"
  BY DEF TeamStuck
<1>1. CASE Start(r)
  <2>1. /\ pc'[r] \in {FirstStep(k) : k \in MemberCalls}
        /\ UNCHANGED << team, teamRole >>
    BY <1>1 DEF Start, Goto, tables
  <2>2. \A k \in MemberCalls :
            FirstStep(k) \in {"checkAdmin", "checkOwner", "insertProject", "insertTeam"}
    BY DEF FirstStep, MemberCalls
  <2> QED
    BY <1>0, <2>1, <2>2 DEF PastOwnerCheck
<1>2. CASE CheckOwner(r)
  <2>1. ~IsOwner(r)
    BY <1>0, <1>2 DEF CheckOwner, IsOwner, OnItsWay
  <2> QED
    BY <1>0, <1>2, <2>1 DEF CheckOwner, Finish, Goto, tables, PastOwnerCheck
<1>3. CASE InsertTeam(r)
  BY <1>0, <1>3 DEF InsertTeam, Finish, Goto, PastOwnerCheck
<1>4. CASE Fail(r)
  BY <1>0, <1>4 DEF Fail, Finish, Goto, tables, PastOwnerCheck
<1>5. CASE InsertOwner(r) \/ UpsertTeamMember(r) \/ DeleteTeamMember(r)
  BY <1>0, <1>5 DEF InsertOwner, UpsertTeamMember, DeleteTeamMember, Wrote, Goto, PastOwnerCheck
<1>6. CASE CheckAdmin(r)
  <2>1. pc'[r] \in {"done", "upsertMember", "deleteMember", "updateMember", "insertLink", "deleteLink"}
    BY <1>6 DEF CheckAdmin, Finish, Goto, NextStep, OnItsWay, ProjectCalls
  <2> QED
    BY <1>0, <1>6, <2>1 DEF CheckAdmin, tables, PastOwnerCheck
<1>7. CASE \/ InsertProject(r) \/ InsertCreator(r) \/ UpsertMember(r) \/ DeleteMember(r)
           \/ UpdateMember(r)
  BY <1>0, <1>7 DEF InsertProject, InsertCreator, UpsertMember, DeleteMember, UpdateMember,
     Wrote, Finish, Goto, PastOwnerCheck
<1>8. CASE InsertLink(r) \/ ListTeam(r) \/ AddNext(r) \/ EndOfList(r) \/ DeleteLink(r)
  BY <1>0, <1>8 DEF InsertLink, ListTeam, AddNext, EndOfList, DeleteLink,
     Wrote, Finish, Goto, tables, PastOwnerCheck
<1> QED
  BY <1>1, <1>2, <1>3, <1>4, <1>5, <1>6, <1>7, <1>8 DEF MemberStep

\* A project that has lost its last admin, with no call past its check left to
\* change it, keeps its members and never gets an admin again; and a team
\* without an owner stays as it is, with its name taken (the role checks of
\* project.Service and team.Service, and CreateTeam, which is no transaction).
THEOREM OrphansStayOrphans == Spec => OrphanedForGood
<1>1. ASSUME IInv, [Next]_memberVars
      PROVE  \A p \in Projects : Stuck(p) => Stuck(p)' /\ role'[p] = role[p]
  <2> SUFFICES ASSUME NEW p \in Projects, Stuck(p)
               PROVE  Stuck(p)' /\ role'[p] = role[p]
    OBVIOUS
  <2>1. CASE UNCHANGED memberVars
    BY <2>1 DEF memberVars, tables, Stuck, HasAdmin, PastCheck
  <2>2. ASSUME NEW r \in Requests, MemberStep(r)
        PROVE  Stuck(p)' /\ role'[p] = role[p]
    <3>1. p \in projects' /\ role'[p] = role[p] /\ r \notin PastCheck(p)'
      BY <1>1, <2>2, StuckStep
    <3>2. \A q \in Requests \ {r} : pc'[q] = pc[q] /\ call'[q] = call[q]
      BY <1>1, <2>2, OthersWait
    <3>3. PastCheck(p)' = {}
      BY <3>1, <3>2 DEF Stuck, PastCheck
    <3> QED
      BY <3>1, <3>3 DEF Stuck, HasAdmin
  <2> QED
    BY <1>1, <2>1, <2>2 DEF Next, AllDone
<1>2. ASSUME IInv, [Next]_memberVars
      PROVE  TeamStuck => TeamStuck' /\ teamRole' = teamRole
  <2> SUFFICES ASSUME TeamStuck
               PROVE  TeamStuck' /\ teamRole' = teamRole
    OBVIOUS
  <2>1. CASE UNCHANGED memberVars
    BY <2>1 DEF memberVars, tables, TeamStuck, PastOwnerCheck
  <2>2. ASSUME NEW r \in Requests, MemberStep(r)
        PROVE  TeamStuck' /\ teamRole' = teamRole
    <3>1. team' /\ teamRole' = teamRole /\ r \notin PastOwnerCheck'
      BY <1>2, <2>2, TeamStuckStep
    <3>2. \A q \in Requests \ {r} : pc'[q] = pc[q]
      BY <1>2, <2>2, OthersWait
    <3>3. PastOwnerCheck' = {}
      BY <3>1, <3>2 DEF TeamStuck, PastOwnerCheck
    <3> QED
      BY <3>1, <3>3 DEF TeamStuck
  <2> QED
    BY <1>2, <2>1, <2>2 DEF Next, AllDone
<1> QED
  BY <1>1, <1>2, InductiveInvariant, PTL DEF Spec, OrphanedForGood
-----------------------------------------------------------------------------
(* Removals *)

\* A removal that is past its check removes somebody else.
RemovesOthers ==
    \A r \in Requests : pc[r] = "deleteMember" => call[r].target # call[r].by

\* Which step a removal that is past its check may take.
LEMMA RemovalSteps ==
    ASSUME NEW r \in Requests, MemberStep(r), pc[r] = "deleteMember"
    PROVE  DeleteMember(r) \/ Fail(r)
BY DEF MemberStep, Start, InsertProject, InsertCreator, CheckAdmin, UpsertMember,
   UpdateMember, InsertLink, ListTeam, AddNext, EndOfList, DeleteLink,
   InsertTeam, InsertOwner, CheckOwner, UpsertTeamMember, DeleteTeamMember,
   Wrote, Finish, Goto

\* ... and which one brings a call there.
LEMMA RemovalBegins ==
    ASSUME IInv, NEW r \in Requests, MemberStep(r), pc'[r] = "deleteMember"
    PROVE  CheckAdmin(r)
<1> USE DEF IInv, TypeOK
<1>1. ~Start(r)
  <2>1. \A k \in MemberCalls : FirstStep(k) # "deleteMember"
    BY DEF FirstStep, MemberCalls
  <2> QED
    BY <2>1 DEF Start, Goto
<1>2. ~Fail(r)
  BY DEF Fail, Finish, Goto
<1>3. ~(InsertProject(r) \/ InsertCreator(r) \/ UpsertMember(r) \/ DeleteMember(r)
        \/ UpdateMember(r) \/ InsertLink(r) \/ ListTeam(r) \/ EndOfList(r) \/ DeleteLink(r))
  BY DEF InsertProject, InsertCreator, UpsertMember, DeleteMember, UpdateMember, InsertLink,
     ListTeam, EndOfList, DeleteLink, Wrote, Finish, Goto
<1>4. ~(InsertTeam(r) \/ InsertOwner(r) \/ CheckOwner(r) \/ UpsertTeamMember(r)
        \/ DeleteTeamMember(r) \/ AddNext(r))
  BY DEF InsertTeam, InsertOwner, CheckOwner, UpsertTeamMember, DeleteTeamMember, AddNext,
     Wrote, Finish, Goto
<1> QED
  BY <1>1, <1>2, <1>3, <1>4 DEF MemberStep

LEMMA RemovesOthersStep == IInv /\ RemovesOthers /\ [Next]_memberVars => RemovesOthers'
<1> SUFFICES ASSUME IInv, RemovesOthers, [Next]_memberVars PROVE RemovesOthers'
  OBVIOUS
<1>1. CASE UNCHANGED memberVars
  BY <1>1 DEF memberVars, RemovesOthers
<1>2. ASSUME NEW r \in Requests, MemberStep(r) PROVE RemovesOthers'
  <2>1. \A q \in Requests \ {r} : pc'[q] = pc[q] /\ call'[q] = call[q]
    BY <1>2, OthersWait
  <2>2. pc'[r] = "deleteMember" => call'[r].target # call'[r].by
    <3> SUFFICES ASSUME pc'[r] = "deleteMember" PROVE call'[r].target # call'[r].by
      OBVIOUS
    <3>1. CheckAdmin(r)
      BY <1>2, RemovalBegins
    <3>2. /\ UNCHANGED call
          /\ ~(call[r].kind = "removeMember" /\ call[r].target = call[r].by)
          /\ NextStep[call[r].kind] = "deleteMember"
      BY <3>1 DEF CheckAdmin, Finish, Goto, IInv, TypeOK
    <3>3. call[r].kind \in ProjectCalls
      BY <3>1 DEF CheckAdmin, Finish, Goto, IInv, OnItsWay
    <3> QED
      BY <3>2, <3>3 DEF NextStep, ProjectCalls
  <2> QED
    BY <2>1, <2>2 DEF RemovesOthers
<1> QED
  BY <1>1, <1>2 DEF Next, AllDone

\* Whoever removes a member, and is still an admin when the row goes, remains
\* one: a removal never takes its own caller out, whatever runs beside it
\* (RemoveMember).
THEOREM RemoversStay == Spec => RemoverStays
<1> DEFINE Stays ==
      \A r \in Requests :
        pc[r] = "deleteMember" /\ pc'[r] = "done" /\ IsAdmin(r) => IsAdmin(r)'
<1>1. Init => RemovesOthers
  BY DEF Init, RemovesOthers
<1>2. ASSUME IInv, RemovesOthers, [Next]_memberVars PROVE [Stays]_memberVars
  <2> SUFFICES ASSUME Next, ~UNCHANGED memberVars,
                      NEW r \in Requests, pc[r] = "deleteMember", pc'[r] = "done", IsAdmin(r)
               PROVE  IsAdmin(r)'
    BY <1>2
  <2>1. PICK q \in Requests : MemberStep(q)
    BY DEF Next, AllDone
  <2>2. q = r
    BY <1>2, <2>1, OthersWait
  <2>3. call[r].target # call[r].by
    BY <1>2 DEF RemovesOthers
  <2>4. CASE Fail(r)
    BY <2>4 DEF Fail, tables, IsAdmin
  <2>5. CASE DeleteMember(r)
    <3>1. UNCHANGED call
      BY <2>5 DEF DeleteMember
    <3>2. role'[call[r].project][call[r].by] = role[call[r].project][call[r].by]
      <4>1. UNCHANGED role \/ SetRole(call[r].project, call[r].target, "none")
        BY <2>5 DEF DeleteMember
      <4>2. call[r].project \in Projects /\ call[r].target \in Users /\ call[r].by \in Users
        BY <1>2 DEF IInv, OnItsWay
      <4>3. role \in [Projects -> [Users -> Roles \cup {"none"}]]
        BY <1>2 DEF IInv, TypeOK
      <4> QED
        BY <2>3, <4>1, <4>2, <4>3 DEF SetRole
    <3> QED
      BY <3>1, <3>2 DEF IsAdmin
  <2> QED
    BY <2>1, <2>2, <2>4, <2>5, RemovalSteps
<1> QED
  BY <1>1, <1>2, RemovesOthersStep, InductiveInvariant, PTL DEF Spec, RemoverStays
=============================================================================
