------------------------------ MODULE AuditTrail ------------------------------
(***************************************************************************)
(* Reading the audit log: GET /audit/events and /projects/{id}/audit/events *)
(* (internal/handler/audit.go, audit.Service.ListEvents, AuditRepo).       *)
(*                                                                         *)
(* ListEvents reads the caller, then the membership, then the events, in   *)
(* statements of their own.  An event gets its created_at before it is     *)
(* inserted, and may never be; nothing removes an event.  There is no      *)
(* offset: a caller goes back in time by asking for the events up to the   *)
(* oldest one it was sent.  Two events never have the same created_at.     *)
(***************************************************************************)
EXTENDS Integers, FiniteSets

CONSTANTS
    Readers,       \* users who read the log
    Projects,
    Everything,    \* the scope without project_id
    Events,
    About,         \* About[e]: the project of an event, or Everything for none
    DefaultEvents, \* 100
    MaxEvents,     \* 500
    EventLimits    \* the ?limit= of the callers, 0 for one that is absent

ASSUME AuditAssumption ==
    /\ Everything \notin Projects
    /\ About \in [Events -> Projects \cup {Everything}]
    /\ IsFiniteSet(Events)
    /\ DefaultEvents \in Nat /\ DefaultEvents > 1
    /\ MaxEvents \in Nat /\ EventLimits \subseteq Nat /\ 1 \notin EventLimits

VARIABLES
    admins,        \* readers with is_admin, which nothing changes
    belongs,       \* project_members: pairs of a reader and a project
    kept,          \* the events that are stored
    moment,        \* created_at of an event; 0 before the clock is read
    reader         \* where each reader is

auditVars == << admins, belongs, kept, moment, reader >>

Scopes == Projects \cup {Everything}

Forever == Cardinality(Events)

\* "right": the reader has been entitled since the request arrived.
Away == [ at |-> "away", scope |-> Everything, limit |-> 0, to |-> Forever,
          page |-> {}, seen |-> {}, due |-> {}, right |-> FALSE ]

AuditInit ==
    /\ admins \in SUBSET Readers
    /\ belongs \in SUBSET (Readers \X Projects)
    /\ kept = {}
    /\ moment = [e \in Events |-> 0]
    /\ reader = [u \in Readers |-> Away]
-------------------------------------------------------------------------------
(* What happens meanwhile *)

\* AddMember and RemoveMember.
Join(u, p) ==
    /\ << u, p >> \notin belongs
    /\ belongs' = belongs \cup {<< u, p >>}
    /\ reader' = [reader EXCEPT ![u].right = @ \/ (reader[u].at = "asking" /\ reader[u].scope = p)]
    /\ UNCHANGED << admins, kept, moment >>

Leave(u, p) ==
    /\ belongs' = belongs \ {<< u, p >>}
    /\ UNCHANGED << admins, kept, moment, reader >>

\* time.Now() in the service, and Service.Log.
StampEvent(e) ==
    /\ moment[e] = 0
    /\ moment' = [moment EXCEPT ![e] = 1 + Cardinality({f \in Events : moment[f] > 0})]
    /\ UNCHANGED << admins, belongs, kept, reader >>

StoreEvent(e) ==
    /\ moment[e] > 0
    /\ kept' = kept \cup {e}
    /\ UNCHANGED << admins, belongs, moment, reader >>
-------------------------------------------------------------------------------
(* A request *)

Within(scope) == {e \in kept : scope \in {Everything, About[e]}}

Entitled(u, scope) == u \in admins \/ << u, scope >> \in belongs

\* A request for the events of a scope up to a moment, the first or the next of a walk.
Ask(u, scope, limit, to, seen, due) ==
    reader' = [reader EXCEPT ![u] =
        [ at |-> "asking", scope |-> scope, limit |-> limit, to |-> to,
          page |-> {}, seen |-> seen, due |-> due, right |-> Entitled(u, scope) ]]

OpenTrail(u) ==
    /\ reader[u].at = "away"
    /\ \E scope \in Scopes, limit \in EventLimits :
          Ask(u, scope, limit, Forever, {}, Within(scope))
    /\ UNCHANGED << admins, belongs, kept, moment >>

\* Mutant of Authorize: a membership is looked up, whatever the answer.
AuthorizeAnybody(u) ==
    /\ reader[u].at = "asking"
    /\ reader' = [reader EXCEPT ![u] =
          IF u \in admins \/ reader[u].scope # Everything THEN [@ EXCEPT !.at = "allowed"] ELSE Away]
    /\ UNCHANGED << admins, belongs, kept, moment >>

\* ListEvents: an admin, or a member of the project that is asked for.
Authorize(u) ==
    /\ reader[u].at = "asking"
    /\ reader' = [reader EXCEPT ![u] =
          IF Entitled(u, @.scope) THEN [@ EXCEPT !.at = "allowed"] ELSE Away]
    /\ UNCHANGED << admins, belongs, kept, moment >>

\* A limit that is too large counts as none.
EventLimit(limit) == IF limit \in 1..MaxEvents THEN limit ELSE DefaultEvents

\* Mutant of EventPage: ORDER BY created_at, without DESC.
OldestEvents(scope, limit, to) ==
    LET asked == {e \in Within(scope) : moment[e] <= to}
    IN  {e \in asked : Cardinality({f \in asked : moment[f] < moment[e]}) < EventLimit(limit)}

\* AuditRepo.ListEvents: WHERE ... AND created_at <= to ORDER BY created_at DESC LIMIT.
EventPage(scope, limit, to) ==
    LET asked == {e \in Within(scope) : moment[e] <= to}
    IN  {e \in asked : Cardinality({f \in asked : moment[f] > moment[e]}) < EventLimit(limit)}

Query(u) ==
    /\ reader[u].at = "allowed"
    /\ reader' = [reader EXCEPT ![u].at = "answered",
          ![u].page = EventPage(reader[u].scope, reader[u].limit, reader[u].to)]
    /\ UNCHANGED << admins, belongs, kept, moment >>

\* The caller goes on until a page holds nothing new.
GoBack(u) ==
    LET r == reader[u] IN
    /\ r.at = "answered"
    /\ IF r.page \subseteq r.seen
       THEN reader' = [reader EXCEPT ![u].at = "finished"]
       ELSE \E oldest \in r.page :
              /\ \A e \in r.page : moment[oldest] <= moment[e]
              /\ Ask(u, r.scope, r.limit, moment[oldest], r.seen \cup r.page, r.due)
    /\ UNCHANGED << admins, belongs, kept, moment >>

AuditNext ==
    \/ \E u \in Readers : OpenTrail(u) \/ Authorize(u) \/ Query(u) \/ GoBack(u)
    \/ \E u \in Readers, p \in Projects : Join(u, p) \/ Leave(u, p)
    \/ \E e \in Events : StampEvent(e) \/ StoreEvent(e)

AuditSpec == AuditInit /\ [][AuditNext]_auditVars
-------------------------------------------------------------------------------
(* Properties *)

AuditTypeOK ==
    /\ admins \subseteq Readers
    /\ belongs \subseteq Readers \X Projects
    /\ kept \subseteq Events
    /\ moment \in [Events -> 0..Forever]
    /\ reader \in [Readers ->
          [ at : {"away", "asking", "allowed", "answered", "finished"}, scope : Scopes,
            limit : EventLimits \cup {0}, to : 0..Forever, page : SUBSET Events,
            seen : SUBSET Events, due : SUBSET Events, right : BOOLEAN ]]

\* A reader is sent events only if an admin, or a member of the project of every
\* one of them at some moment between the request and its answer
\* (audit/service.go:76).
OutsidersSeeNoEvents ==
    \A u \in Readers : \A e \in reader[u].page :
        u \in admins \/ (reader[u].scope = About[e] /\ reader[u].right)

\* A walk back to the beginning has met every event of its scope there was when
\* it began, although later events, with earlier or later times, appear between
\* its requests (access_audit_repo.go:149).
TrailMissesNothing ==
    \A u \in Readers : reader[u].at = "finished" => reader[u].due \subseteq reader[u].seen
===============================================================================
