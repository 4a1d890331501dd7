----------------------------- MODULE ProjectAccess -----------------------------
(***************************************************************************)
(* Who reaches the secrets of a project: ProjectMembers together with the  *)
(* checks that internal/access/service.go, internal/secret/service.go and  *)
(* internal/serviceaccount/service.go make of project_members and          *)
(* access_grants before they serve a call.                                 *)
(*                                                                         *)
(* One secret, of the project Home.  What happens to its versions once a   *)
(* call is let through is the subject of SecretVersions; here ServeCall    *)
(* stands for it.  A check reads the row of the caller's membership and    *)
(* the row of its grant in two statements, and the call is served later    *)
(* still, outside any transaction: memberships and grants change between.  *)
(***************************************************************************)
EXTENDS ProjectMembers

CONSTANTS
    Home,          \* the project of the secret
    SeedGrants     \* what earlier calls may have left in access_grants

\* A grant of the secret expires or not.
LiveGrants == {"timed", "forever"}
Grants == LiveGrants \cup {"none", "expired"}

GrantCalls == {"grant", "revokeGrant"}
\* CreateSecret, RotateSecret, RollbackSecret, RevokeSecret, ListGrants, and
\* the calls on service accounts: they ask for the same roles.
ManagerCalls == GrantCalls \cup {"manage"}
\* GetSecretValue, and the lists any member may see.
ReaderCalls == {"read", "list"}
AccessCalls == ManagerCalls \cup ReaderCalls \cup {"readAsAccount"}

ASSUME AccessAssumption ==
    /\ Home \in Projects
    /\ SeedGrants \subseteq [Users -> Grants]

\* What may be true of a user: they belong to Home, have a role there that
\* manages secrets, hold a grant of the secret that has not expired.
Facts == {"member", "manager", "grant"}

VARIABLES
    grant,         \* the grant of each user (access_grants), or "none"
    ever,          \* history variables: the facts that held of the caller of
    always         \* each call at some moment of it, and at every moment

histories == << powerless, ever, always >>
accessVars == << memberVars, grant, ever, always >>

AccessInit ==
    /\ Init
    /\ grant \in SeedGrants
    /\ Home \notin projects => grant = NoRoles
    /\ ever = [r \in Requests |-> {}]
    /\ always = [r \in Requests |-> {}]
-----------------------------------------------------------------------------
(* The calls *)

Manages(p, u) == role[p][u] \in {"admin", "manager"}

AccessStart(r) ==
    /\ Home \in projects
    /\ \E k \in Kinds \cap AccessCalls, u \in Users, p \in Projects :
       \E t \in IF k \in GrantCalls THEN Users ELSE {u},
          x \in IF k = "grant" THEN LiveGrants ELSE {"none"} :
        /\ k \in GrantCalls \cup {"readAsAccount"} \/ p = Home
        /\ call' = [call EXCEPT ![r] = [kind |-> k, by |-> u, project |-> p,
                                        target |-> t, arg |-> x]]
        /\ Goto(r, "idle", IF k \in ManagerCalls THEN "checkManager"
                           ELSE IF k \in ReaderCalls THEN "readMember"
                           ELSE "checkAccount")
    /\ UNCHANGED << tables, grant, rest, result >>

\* GetMember of the caller, and the check of its role.
CheckManager(r) ==
    /\ pc[r] = "checkManager"
    /\ IF Manages(call[r].project, call[r].by)
       THEN /\ Goto(r, "checkManager",
                    IF call[r].kind \in GrantCalls THEN "checkSecret" ELSE "serve")
            /\ UNCHANGED result
       ELSE Finish(r, "checkManager", "forbidden")
    /\ UNCHANGED << tables, grant, call, rest >>

\* Mutant of CheckSecret: grants are not compared with the project.
CheckNoSecret(r) ==
    /\ Goto(r, "checkSecret",
            IF call[r].kind = "grant" THEN "upsertGrant" ELSE "deleteGrant")
    /\ UNCHANGED << tables, grant, call, rest, result >>

\* ensureSecretInProject: the secret belongs to the project of the URL, the
\* one the role was checked in.
CheckSecret(r) ==
    /\ pc[r] = "checkSecret"
    /\ IF call[r].project = Home
       THEN /\ Goto(r, "checkSecret",
                    IF call[r].kind = "grant" THEN "upsertGrant" ELSE "deleteGrant")
            /\ UNCHANGED result
       ELSE Finish(r, "checkSecret", "notFound")
    /\ UNCHANGED << tables, grant, call, rest >>

SetGrant(u, x) == grant' = [grant EXCEPT ![u] = x]

\* Mutant of UpsertGrant: the role of the call is stored.
UpsertGrantAsRole(r) ==
    /\ Wrote(r, "upsertGrant")
    /\ SetGrant(call[r].target, "developer")
    /\ UNCHANGED << tables, call, rest >>

\* INSERT INTO access_grants ON CONFLICT DO UPDATE: a new grant, or another
\* end of the old one.  The user need not be a member of the project.
UpsertGrant(r) ==
    /\ Wrote(r, "upsertGrant")
    /\ SetGrant(call[r].target, call[r].arg)
    /\ UNCHANGED << tables, call, rest >>

\* DELETE FROM access_grants, the expired ones included.
DeleteGrant(r) ==
    /\ pc[r] = "deleteGrant"
    /\ IF grant[call[r].target] # "none"
       THEN Wrote(r, "deleteGrant") /\ SetGrant(call[r].target, "none")
       ELSE Finish(r, "deleteGrant", "notFound") /\ UNCHANGED grant
    /\ UNCHANGED << tables, call, rest >>

\* Mutant of ReadMember: the grant of a user who is no member is looked up,
\* as for developers.
ReadAnyMember(r) ==
    /\ pc[r] = "readMember"
    /\ Goto(r, "readMember",
            IF Manages(Home, call[r].by) \/ call[r].kind = "list" THEN "serve" ELSE "readGrant")
    /\ UNCHANGED << tables, grant, call, rest, result >>

\* Mutant of ReadMember: the value asks for a managing role.
ReadManager(r) ==
    /\ pc[r] = "readMember"
    /\ IF Manages(Home, call[r].by)
       THEN Goto(r, "readMember", "serve") /\ UNCHANGED result
       ELSE Finish(r, "readMember", "forbidden")
    /\ UNCHANGED << tables, grant, call, rest >>

\* GetMember, in CanReadSecret and in authorizeProjectRead.  Only developers
\* need a grant, and only for the value.
ReadMember(r) ==
    /\ pc[r] = "readMember"
    /\ IF role[Home][call[r].by] = "none"
       THEN Finish(r, "readMember", "notFound")
       ELSE /\ Goto(r, "readMember",
                    IF Manages(Home, call[r].by) \/ call[r].kind = "list"
                    THEN "serve" ELSE "readGrant")
            /\ UNCHANGED result
    /\ UNCHANGED << tables, grant, call, rest >>

\* Mutant of ReadGrant: the end of the grant is ignored.
ReadOldGrant(r) ==
    /\ pc[r] = "readGrant"
    /\ IF grant[call[r].by] # "none"
       THEN Goto(r, "readGrant", "serve") /\ UNCHANGED result
       ELSE Finish(r, "readGrant", "forbidden")
    /\ UNCHANGED << tables, grant, call, rest >>

\* GetGrant, for a developer.
ReadGrant(r) ==
    /\ pc[r] = "readGrant"
    /\ IF grant[call[r].by] \in LiveGrants
       THEN Goto(r, "readGrant", "serve") /\ UNCHANGED result
       ELSE Finish(r, "readGrant",
                   IF grant[call[r].by] = "expired" THEN "expired" ELSE "forbidden")
    /\ UNCHANGED << tables, grant, call, rest >>

\* A service account reads the secrets of the project it is bound to: of its
\* caller, only call.project matters.
CheckAccount(r) ==
    /\ pc[r] = "checkAccount"
    /\ IF call[r].project = Home
       THEN Goto(r, "checkAccount", "serve") /\ UNCHANGED result
       ELSE Finish(r, "checkAccount", "forbidden")
    /\ UNCHANGED << tables, grant, call, rest >>

\* The call does what it was let through for.
ServeCall(r) ==
    /\ Finish(r, "serve", "ok")
    /\ UNCHANGED << tables, grant, call, rest >>

\* The end of the grant of u passes.
Expire(u) ==
    /\ grant[u] = "timed"
    /\ SetGrant(u, "expired")
    /\ UNCHANGED << tables, pc, call, rest, result >>

AccessStep(r) ==
    \/ AccessStart(r) \/ CheckManager(r) \/ CheckSecret(r) \/ UpsertGrant(r)
    \/ DeleteGrant(r) \/ ReadMember(r) \/ ReadGrant(r) \/ CheckAccount(r) \/ ServeCall(r)

\* What is true of the caller of r.
FactsOf(r) ==
    {f \in Facts : \/ f = "member" /\ role[Home][call[r].by] # "none"
                   \/ f = "manager" /\ Manages(Home, call[r].by)
                   \/ f = "grant" /\ grant[call[r].by] \in LiveGrants}

Running(r) == pc[r] \notin {"idle", "done"}

\* The histories after a step: they begin when a call starts and end with it.
ObserveFacts ==
    /\ ever' = [r \in Requests |->
                    IF Running(r)' /\ call'[r].kind \in AccessCalls
                    THEN ever[r] \cup FactsOf(r)' ELSE ever[r]]
    /\ always' = [r \in Requests |->
                    IF Running(r)' /\ call'[r].kind \in AccessCalls
                    THEN (IF pc[r] = "idle" THEN Facts ELSE always[r]) \cap FactsOf(r)'
                    ELSE always[r]]

AccessNext ==
    \/ /\ \/ \E r \in Requests : AccessStep(r) \/ (MemberStep(r) /\ UNCHANGED grant)
          \/ \E u \in Users : Expire(u)
       /\ ObserveAuthority
       /\ ObserveFacts
    \/ (\A r \in Requests : pc[r] = "done") /\ UNCHANGED accessVars

AccessSpec == AccessInit /\ [][AccessNext]_accessVars
-----------------------------------------------------------------------------
(* Properties *)

\* The types of the variables, and the foreign key of the grants.
AccessTypeOK ==
    /\ pc \in [Requests -> Steps \cup {"checkManager", "checkSecret", "upsertGrant",
                                       "deleteGrant", "readMember", "readGrant",
                                       "checkAccount", "serve"}]
    /\ result \in [Requests -> Answers \cup {"expired"}]
    /\ grant \in [Users -> Grants]
    /\ Home \notin projects => grant = NoRoles
    /\ ever \in [Requests -> SUBSET Facts]
    /\ always \in [Requests -> SUBSET Facts]

\* A user who did not belong to the project at any moment of the call reads
\* neither the secret nor a list of the project, whatever grants they hold
\* (authorizeProjectRead, CanReadSecret).
OutsidersAreRefused ==
    \A r \in Requests :
        call[r].kind \in ReaderCalls /\ result[r] = "ok" => "member" \in ever[r]

\* A user reads the value of the secret only if at some moment of the call
\* their role managed secrets or their grant was alive (CanReadSecret).
ReadersHadPermission ==
    \A r \in Requests :
        call[r].kind = "read" /\ result[r] = "ok" => ever[r] \cap {"manager", "grant"} # {}

\* Grants, secrets and accounts are written only by a call whose caller managed
\* the project of the secret at some moment of it, whatever project its URL
\* named, and the other changes of a grant are made by the clock (GrantAccess,
\* RevokeAccess with ensureSecretInProject).
ManagersDecide ==
    [][/\ grant' # grant =>
            \/ \E u \in Users : grant[u] = "timed" /\ grant' = [grant EXCEPT ![u] = "expired"]
            \/ \E r \in Requests : pc'[r] # pc[r] /\ "manager" \in ever[r]
       /\ \A r \in Requests :
            call[r].kind \in ManagerCalls /\ result'[r] = "ok" => "manager" \in ever[r]]_accessVars

Refused(r) == result[r] \in {"forbidden", "expired", "notFound"}

\* A reader who managed secrets all along, or was a member with a live grant
\* all along, is not refused, whatever else changes (CanReadSecret).
EntitledAreServed ==
    \A r \in Requests :
        /\ call[r].kind = "read"
        /\ "manager" \in always[r] \/ {"member", "grant"} \subseteq always[r]
        => ~Refused(r)

\* As the documentation has the checks: a reader who all along was a member of
\* the project, or held a live grant, is not refused.
MemberOrGrantSuffices ==
    \A r \in Requests :
        call[r].kind = "read" /\ always[r] \cap {"member", "grant"} # {} => ~Refused(r)
==============================================================================
