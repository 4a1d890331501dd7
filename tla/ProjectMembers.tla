---------------------------- MODULE ProjectMembers ----------------------------
(***************************************************************************)
(* Who belongs to a project, and with which role: the calls of             *)
(* internal/project/service.go and internal/team/service.go on the tables  *)
(* projects, project_members, project_teams, teams and team_members.       *)
(*                                                                         *)
(* Each call is served by its own goroutine.  It reads the role of its     *)
(* caller in one statement and writes in another, and none of them uses a  *)
(* transaction: other calls run between the two, and a call that fails     *)
(* half-way leaves what it has written.                                    *)
(*                                                                         *)
(* The middleware's check of the caller is the subject of Accounts.  Users *)
(* are never deleted, so no statement here fails on a missing user.  The   *)
(* audit events of these calls are left out: nothing here reads them.      *)
(* There is one team, which may be assigned to any of the projects.        *)
(***************************************************************************)
EXTENDS Naturals

CONSTANTS
    Users,         \* the registered users
    Projects,      \* the projects that exist or may be created
    Requests,      \* the calls, each one run of a service method
    Kinds,         \* the methods they may call
    SeedRoles,     \* what earlier calls may have left in project_members
    SeedTeams,     \* ... and in team_members
    Nobody         \* no user: the caller of a call still to come

Roles == {"developer", "manager", "admin"}
TeamRoles == {"member", "owner"}

ProjectCalls == {"addMember", "removeMember", "updateRole", "assignTeam", "unassignTeam"}
TeamCalls == {"addTeamMember", "removeTeamMember"}
MemberCalls == ProjectCalls \cup TeamCalls \cup {"createProject", "createTeam"}

NoRoles == [u \in Users |-> "none"]

\* Earlier calls have left every project with an admin, and the team, if there
\* is one, with an owner.
ASSUME MembersAssumption ==
    /\ Nobody \notin Users
    /\ SeedRoles \subseteq [Projects -> [Users -> Roles \cup {"none"}]]
    /\ \A s \in SeedRoles, p \in Projects :
            s[p] # NoRoles => \E u \in Users : s[p][u] = "admin"
    /\ SeedTeams \subseteq [Users -> TeamRoles \cup {"none"}]
    /\ \A s \in SeedTeams : s # NoRoles => \E u \in Users : s[u] = "owner"

VARIABLES
    projects,      \* rows of `projects`
    role,          \* role[p][u]: the role of u in project p, or "none"
    team,          \* whether the row of `teams` exists
    teamRole,      \* the role of each user in the team, or "none"
    assigned,      \* the projects the team is assigned to (project_teams)
    pc,            \* what each call does next
    call,          \* what it is: [kind, by, project, target, arg], where arg
                   \* is the role it gives
    rest,          \* the team members AssignTeam has still to add
    result,        \* its answer
    powerless      \* history variable: the calls whose caller never had the
                   \* authority they need since they started

tables == << projects, role, team, teamRole, assigned >>
memberVars == << tables, pc, call, rest, result, powerless >>

Init ==
    /\ role \in SeedRoles
    /\ projects = {p \in Projects : role[p] # NoRoles}
    /\ teamRole \in SeedTeams
    /\ team = (teamRole # NoRoles)
    /\ assigned = {}
    /\ pc = [r \in Requests |-> "idle"]
    /\ call = [r \in Requests |-> [kind |-> "none", by |-> Nobody, project |-> "none",
                                   target |-> Nobody, arg |-> "none"]]
    /\ rest = [r \in Requests |-> {}]
    /\ result = [r \in Requests |-> "none"]
    /\ powerless = {}
-----------------------------------------------------------------------------
(* How a call begins, moves on and ends. *)

Goto(r, from, to) ==
    /\ pc[r] = from
    /\ pc' = [pc EXCEPT ![r] = to]

Answer(r, a) == result' = [result EXCEPT ![r] = a]

Finish(r, from, a) == Goto(r, from, "done") /\ Answer(r, a)

\* A statement that changes the database succeeds.  Its reply, or the answer
\* of the call, may be lost.
Wrote(r, from) ==
    /\ Goto(r, from, "done")
    /\ Answer(r, "ok") \/ Answer(r, "error")

FirstStep(kind) ==
    IF kind \in ProjectCalls THEN "checkAdmin"
    ELSE IF kind \in TeamCalls THEN "checkOwner"
    ELSE [createProject |-> "insertProject", createTeam |-> "insertTeam"][kind]

\* The handlers let only the three roles of a project through, and take any
\* other role in a team for a member.
RolesFor(kind) ==
    IF kind \in {"addMember", "updateRole", "assignTeam"} THEN Roles
    ELSE IF kind = "addTeamMember" THEN TeamRoles ELSE {"none"}

TargetsFor(kind, by) ==
    IF kind \in TeamCalls \cup {"addMember", "removeMember", "updateRole"}
    THEN Users ELSE {by}

Start(r) ==
    /\ \E k \in Kinds \cap MemberCalls, u \in Users, p \in Projects :
       \E t \in TargetsFor(k, u), x \in RolesFor(k) :
        /\ call' = [call EXCEPT ![r] = [kind |-> k, by |-> u, project |-> p,
                                        target |-> t, arg |-> x]]
        /\ Goto(r, "idle", FirstStep(k))
    /\ UNCHANGED << tables, rest, result >>
-----------------------------------------------------------------------------
(* project.Service *)

\* Two statements: the project, under a new id, and its first member.
InsertProject(r) ==
    /\ Goto(r, "insertProject", "insertCreator")
    /\ call[r].project \notin projects
    /\ projects' = projects \cup {call[r].project}
    /\ UNCHANGED << role, team, teamRole, assigned, call, rest, result >>

SetRole(p, u, x) == role' = [role EXCEPT ![p][u] = x]

InsertCreator(r) ==
    /\ Wrote(r, "insertCreator")
    /\ SetRole(call[r].project, call[r].by, "admin")
    /\ UNCHANGED << projects, team, teamRole, assigned, call, rest >>

IsAdmin(r) == role[call[r].project][call[r].by] = "admin"

NextStep == [addMember |-> "upsertMember", removeMember |-> "deleteMember",
             updateRole |-> "updateMember", assignTeam |-> "insertLink",
             unassignTeam |-> "deleteLink"]

\* Mutant of CheckAdmin: managers pass, as they do for secrets.
CheckManagerToo(r) ==
    /\ pc[r] = "checkAdmin"
    /\ IF role[call[r].project][call[r].by] \in {"admin", "manager"}
       THEN Goto(r, "checkAdmin", NextStep[call[r].kind]) /\ UNCHANGED result
       ELSE Finish(r, "checkAdmin", "forbidden")
    /\ UNCHANGED << tables, call, rest >>

\* Mutant of CheckAdmin: the role of the target is read.
CheckTarget(r) ==
    /\ pc[r] = "checkAdmin"
    /\ IF role[call[r].project][call[r].target] = "admin"
       THEN Goto(r, "checkAdmin", NextStep[call[r].kind]) /\ UNCHANGED result
       ELSE Finish(r, "checkAdmin", "forbidden")
    /\ UNCHANGED << tables, call, rest >>

\* Mutant of CheckAdmin: admins may remove themselves.
CheckAdminOnly(r) ==
    /\ pc[r] = "checkAdmin"
    /\ IF IsAdmin(r)
       THEN Goto(r, "checkAdmin", NextStep[call[r].kind]) /\ UNCHANGED result
       ELSE Finish(r, "checkAdmin", "forbidden")
    /\ UNCHANGED << tables, call, rest >>

\* GetMember and the check of its role; RemoveMember refuses to remove its
\* caller.
CheckAdmin(r) ==
    /\ pc[r] = "checkAdmin"
    /\ IF IsAdmin(r)
       THEN IF call[r].kind = "removeMember" /\ call[r].target = call[r].by
            THEN Finish(r, "checkAdmin", "invalid")
            ELSE Goto(r, "checkAdmin", NextStep[call[r].kind]) /\ UNCHANGED result
       ELSE Finish(r, "checkAdmin", "forbidden")
    /\ UNCHANGED << tables, call, rest >>

\* INSERT ... ON CONFLICT DO UPDATE SET role
UpsertMember(r) ==
    /\ Wrote(r, "upsertMember")
    /\ SetRole(call[r].project, call[r].target, call[r].arg)
    /\ UNCHANGED << projects, team, teamRole, assigned, call, rest >>

IsMember(r) == role[call[r].project][call[r].target] # "none"

\* DELETE FROM project_members
DeleteMember(r) ==
    /\ pc[r] = "deleteMember"
    /\ IF IsMember(r)
       THEN Wrote(r, "deleteMember") /\ SetRole(call[r].project, call[r].target, "none")
       ELSE Finish(r, "deleteMember", "notFound") /\ UNCHANGED role
    /\ UNCHANGED << projects, team, teamRole, assigned, call, rest >>

\* UPDATE project_members SET role
UpdateMember(r) ==
    /\ pc[r] = "updateMember"
    /\ IF IsMember(r)
       THEN Wrote(r, "updateMember") /\ SetRole(call[r].project, call[r].target, call[r].arg)
       ELSE Finish(r, "updateMember", "notFound") /\ UNCHANGED role
    /\ UNCHANGED << projects, team, teamRole, assigned, call, rest >>

\* Mutant of InsertLink: no foreign key.
InsertAnyLink(r) ==
    /\ Goto(r, "insertLink", "listTeam")
    /\ assigned' = assigned \cup {call[r].project}
    /\ UNCHANGED << projects, role, team, teamRole, call, rest, result >>

\* INSERT INTO project_teams ON CONFLICT DO NOTHING; a team that does not
\* exist violates the foreign key.
InsertLink(r) ==
    /\ pc[r] = "insertLink"
    /\ IF team
       THEN /\ Goto(r, "insertLink", "listTeam")
            /\ assigned' = assigned \cup {call[r].project}
            /\ UNCHANGED result
       ELSE Finish(r, "insertLink", "error") /\ UNCHANGED assigned
    /\ UNCHANGED << projects, role, team, teamRole, call, rest >>

\* ListMembers of the team
ListTeam(r) ==
    /\ Goto(r, "listTeam", "addNext")
    /\ rest' = [rest EXCEPT ![r] = {u \in Users : teamRole[u] # "none"}]
    /\ UNCHANGED << tables, call, result >>

\* One turn of the loop, for the members in any order: an upsert whose error
\* is ignored.
AddNext(r) ==
    /\ pc[r] = "addNext"
    /\ \E u \in rest[r] :
        /\ rest' = [rest EXCEPT ![r] = @ \ {u}]
        /\ SetRole(call[r].project, u, call[r].arg) \/ UNCHANGED role
    /\ UNCHANGED << projects, team, teamRole, assigned, pc, call, result >>

EndOfList(r) ==
    /\ rest[r] = {}
    /\ Finish(r, "addNext", "ok")
    /\ UNCHANGED << tables, call, rest >>

\* DELETE FROM project_teams.  The members that were added stay.
DeleteLink(r) ==
    /\ pc[r] = "deleteLink"
    /\ IF call[r].project \in assigned
       THEN Wrote(r, "deleteLink") /\ assigned' = assigned \ {call[r].project}
       ELSE Finish(r, "deleteLink", "notFound") /\ UNCHANGED assigned
    /\ UNCHANGED << projects, role, team, teamRole, call, rest >>
-----------------------------------------------------------------------------
(* team.Service *)

\* The name of a team is unique.
InsertTeam(r) ==
    /\ pc[r] = "insertTeam"
    /\ IF team
       THEN Finish(r, "insertTeam", "conflict") /\ UNCHANGED team
       ELSE Goto(r, "insertTeam", "insertOwner") /\ team' = TRUE /\ UNCHANGED result
    /\ UNCHANGED << projects, role, teamRole, assigned, call, rest >>

SetTeamRole(u, x) == teamRole' = [teamRole EXCEPT ![u] = x]

InsertOwner(r) ==
    /\ Wrote(r, "insertOwner")
    /\ SetTeamRole(call[r].by, "owner")
    /\ UNCHANGED << projects, role, team, assigned, call, rest >>

IsOwner(r) == teamRole[call[r].by] = "owner"

CheckOwner(r) ==
    /\ pc[r] = "checkOwner"
    /\ IF IsOwner(r)
       THEN /\ Goto(r, "checkOwner", IF call[r].kind = "addTeamMember"
                                     THEN "upsertTeamMember" ELSE "deleteTeamMember")
            /\ UNCHANGED result
       ELSE Finish(r, "checkOwner", "forbidden")
    /\ UNCHANGED << tables, call, rest >>

UpsertTeamMember(r) ==
    /\ Wrote(r, "upsertTeamMember")
    /\ SetTeamRole(call[r].target, call[r].arg)
    /\ UNCHANGED << projects, role, team, assigned, call, rest >>

DeleteTeamMember(r) ==
    /\ pc[r] = "deleteTeamMember"
    /\ IF teamRole[call[r].target] # "none"
       THEN Wrote(r, "deleteTeamMember") /\ SetTeamRole(call[r].target, "none")
       ELSE Finish(r, "deleteTeamMember", "notFound") /\ UNCHANGED teamRole
    /\ UNCHANGED << projects, role, team, assigned, call, rest >>
-----------------------------------------------------------------------------
(* Failures, and the whole *)

\* The call is cancelled, a statement fails, or the server dies: what the
\* call has written stays.
Fail(r) ==
    /\ pc[r] \notin {"idle", "done"}
    /\ Finish(r, pc[r], "error")
    /\ UNCHANGED << tables, call, rest >>

MemberStep(r) ==
    \/ Start(r) \/ Fail(r)
    \/ InsertProject(r) \/ InsertCreator(r)
    \/ CheckAdmin(r) \/ UpsertMember(r) \/ DeleteMember(r) \/ UpdateMember(r)
    \/ InsertLink(r) \/ ListTeam(r) \/ AddNext(r) \/ EndOfList(r) \/ DeleteLink(r)
    \/ InsertTeam(r) \/ InsertOwner(r)
    \/ CheckOwner(r) \/ UpsertTeamMember(r) \/ DeleteTeamMember(r)

\* The caller of r has the authority its call needs.
Authority(r) ==
    /\ call[r].kind \in ProjectCalls => IsAdmin(r)
    /\ call[r].kind \in TeamCalls => IsOwner(r)

\* powerless after the step: of the calls that start in it or were powerless,
\* those whose caller has no authority now.
ObserveAuthority ==
    powerless' = {r \in Requests :
                    \/ pc[r] = "done" /\ r \in powerless
                    \/ /\ r \in powerless \/ (pc[r] = "idle" /\ pc'[r] # "idle")
                       /\ ~Authority(r)'}

\* Every call is answered: the model stops, the server waits for more.
AllDone == (\A r \in Requests : pc[r] = "done") /\ UNCHANGED memberVars

Next ==
    \/ \E r \in Requests : MemberStep(r) /\ ObserveAuthority
    \/ AllDone

Spec == Init /\ [][Next]_memberVars
-----------------------------------------------------------------------------
(* Properties *)

Steps == {"idle", "checkAdmin", "checkOwner", "insertProject", "insertCreator",
          "upsertMember", "deleteMember", "updateMember", "insertLink", "listTeam",
          "addNext", "deleteLink", "insertTeam", "insertOwner", "upsertTeamMember",
          "deleteTeamMember", "done"}
Answers == {"none", "ok", "forbidden", "invalid", "notFound", "conflict", "error"}

\* The types of the variables, and the foreign keys of the tables.
TypeOK ==
    /\ projects \subseteq Projects
    /\ role \in [Projects -> [Users -> Roles \cup {"none"}]]
    /\ \A p \in Projects \ projects : role[p] = NoRoles /\ p \notin assigned
    /\ team \in BOOLEAN
    /\ teamRole \in [Users -> TeamRoles \cup {"none"}]
    /\ ~team => teamRole = NoRoles /\ assigned = {}
    /\ assigned \subseteq Projects
    /\ pc \in [Requests -> Steps]
    /\ call \in [Requests -> [kind : MemberCalls \cup {"none"}, by : Users \cup {Nobody},
                             project : Projects \cup {"none"}, target : Users \cup {Nobody},
                             arg : Roles \cup TeamRoles \cup {"none"}]]
    /\ rest \in [Requests -> SUBSET Users]
    /\ result \in [Requests -> Answers]
    /\ powerless \subseteq Requests

\* A call whose caller has not been an admin of the project, or an owner of the
\* team, at any time since it started writes nothing and does not succeed,
\* whatever the calls beside it do (the role checks of project.Service and
\* team.Service).
PowerlessAreHarmless ==
    [][\A r \in powerless :
        << pc[r], rest[r] >> # << pc[r], rest[r] >>' =>
            UNCHANGED tables /\ result'[r] # "ok"]_memberVars

HasAdmin(p) == \E u \in Users : role[p][u] = "admin"

\* Calls that will change the members of p without another check.
PastCheck(p) == {r \in Requests : /\ call[r].project = p
                                  /\ pc[r] \notin {"idle", "checkAdmin", "insertProject", "done"}
                                  /\ call[r].kind \in ProjectCalls \cup {"createProject"}}

Stuck(p) == p \in projects /\ ~HasAdmin(p) /\ PastCheck(p) = {}

\* The same of the team: calls that will change its members without another check.
PastOwnerCheck ==
    {r \in Requests : pc[r] \in {"insertOwner", "upsertTeamMember", "deleteTeamMember"}}

TeamStuck == team /\ (\A u \in Users : teamRole[u] # "owner") /\ PastOwnerCheck = {}

\* A project without an admin that no call is about to change, be it one left
\* by a CreateProject that failed half-way, stays so for ever: no call gets past
\* its check again, so nobody can give themselves, or be given, a role in it.
\* So does a team without an owner, left by a CreateTeam that failed half-way or
\* by owners who removed themselves, whose name stays taken (project/service.go:51,
\* team/service.go:44, 93).
OrphanedForGood ==
    [][ /\ \A p \in Projects : Stuck(p) => Stuck(p)' /\ role'[p] = role[p]
        /\ TeamStuck => TeamStuck' /\ teamRole' = teamRole ]_memberVars

\* "Cannot remove yourself": a removal whose caller is still an admin when the
\* row is deleted leaves the caller in place (RemoveMember).
RemoverStays ==
    [][\A r \in Requests :
        pc[r] = "deleteMember" /\ pc'[r] = "done" /\ IsAdmin(r) => IsAdmin(r)']_memberVars

\* "... protects from orphaned projects": a project that had an admin always
\* has one.
ProjectKeepsAdmin ==
    [][\A p \in projects : HasAdmin(p) => HasAdmin(p)']_memberVars
==============================================================================
