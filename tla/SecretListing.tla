---------------------------- MODULE SecretListing -----------------------------
(***************************************************************************)
(* GET /projects/{id}/secrets: the metadata of the secrets of one project, *)
(* a page at a time (internal/dto/pagination.go, SecretHandler.List and    *)
(* SecretRepo.ListSecretsByProject), while secrets are created and         *)
(* revoked.  A rotation changes nothing a list shows.                      *)
(*                                                                         *)
(* A page is a set here: what a page holds depends on the order by         *)
(* created_at, and created_at is taken from the clock before the row is    *)
(* inserted, so rows need not appear in the order they are listed in.      *)
(* Two secrets are never given the same created_at.                        *)
(***************************************************************************)
EXTENDS Integers, FiniteSets

CONSTANTS
    Secrets,       \* the secrets the project may come to have
    Walkers,       \* callers that go through the whole list
    DefaultLimit,
    MaxLimit,
    MaxOffset,
    Limits         \* the ?limit= of the callers, 0 for one that is absent or unusable

ASSUME ListingAssumption ==
    /\ IsFiniteSet(Secrets)
    /\ DefaultLimit \in Nat \ {0} /\ MaxLimit \in Nat \ {0}
    /\ MaxOffset \in Nat /\ Limits \subseteq Nat

VARIABLES
    row,           \* what there is of each secret
    stamp,         \* created_at; 0 before the clock is read
    walk           \* where each walker is

listingVars == << row, stamp, walk >>

Statuses == {"active", "revoked"}

Stored == {s \in Secrets : row[s] \in Statuses}

ListingInit ==
    /\ row = [s \in Secrets |-> "none"]
    /\ stamp = [s \in Secrets |-> 0]
    /\ walk = [w \in Walkers |-> [at |-> "idle", status |-> "any", limit |-> DefaultLimit,
                                  offset |-> 0, due |-> {}, seen |-> {}, out |-> {}]]
-------------------------------------------------------------------------------
(* The secrets of the project *)

\* CreateSecret, up to time.Now().
StampSecret(s) ==
    /\ row[s] = "none"
    /\ row' = [row EXCEPT ![s] = "stamped"]
    /\ stamp' = [stamp EXCEPT ![s] = 1 + Cardinality({t \in Secrets : stamp[t] > 0})]
    /\ UNCHANGED walk

\* CreateSecretWithVersion commits.
StoreSecret(s) ==
    /\ row[s] = "stamped"
    /\ row' = [row EXCEPT ![s] = "active"]
    /\ UNCHANGED << stamp, walk >>

\* UpdateSecretStatus; again for one that is revoked already, which changes nothing.
RevokeSecret(s) ==
    /\ row[s] = "active"
    /\ row' = [row EXCEPT ![s] = "revoked"]
    /\ UNCHANGED << stamp, walk >>
-------------------------------------------------------------------------------
(* The list *)

Least(m, n) == IF m < n THEN m ELSE n

ParsePage(limit, offset) ==
    [ limit  |-> Least(IF limit = 0 THEN DefaultLimit ELSE limit, MaxLimit),
      offset |-> Least(offset, MaxOffset) ]

\* parseSecretFilter and the WHERE clause: ?status=, the one filter whose
\* answer changes while a secret lives.
Matches(s, status) == status \in {"any", row[s]}

\* The rows SELECT ... WHERE ... ORDER BY created_at DESC puts before s.
Before(s, status) == {t \in Stored : Matches(t, status) /\ stamp[t] > stamp[s]}

\* Mutant of ListSecrets: the list hides what is revoked.
ListLiveSecrets(status, page) ==
    {s \in Stored : /\ Matches(s, status) /\ row[s] = "active"
                    /\ Cardinality({t \in Before(s, status) : row[t] = "active"}) \in
                          page.offset .. page.offset + page.limit - 1}

\* LIMIT and OFFSET.
ListSecrets(status, page) ==
    {s \in Stored : /\ Matches(s, status)
                    /\ Cardinality(Before(s, status)) \in
                          page.offset .. page.offset + page.limit - 1}
-------------------------------------------------------------------------------
(* A caller that wants the whole list: the next offset is the number of rows  *)
(* it was sent, and an empty page is the end.                                 *)

BeginWalk(w) ==
    /\ walk[w].at = "idle"
    /\ \E status \in {"any", "active"}, limit \in Limits :
          walk' = [walk EXCEPT ![w] =
              [ at |-> "walking", status |-> status, limit |-> limit, offset |-> 0,
                due |-> {s \in Stored : Matches(s, status)}, seen |-> {},
                out |-> {s \in Stored : row[s] = "revoked"} ]]
    /\ UNCHANGED << row, stamp >>

NextPage(w) ==
    /\ walk[w].at = "walking"
    /\ LET page == ListSecrets(walk[w].status, ParsePage(walk[w].limit, walk[w].offset)) IN
        walk' = [walk EXCEPT
            ![w].at = IF page = {} THEN "ended" ELSE "walking",
            ![w].offset = Least(@ + Cardinality(page), MaxOffset + 1),
            ![w].seen = @ \cup page ]
    /\ UNCHANGED << row, stamp >>

SecretStep(s) == StampSecret(s) \/ StoreSecret(s) \/ RevokeSecret(s)

ListingNext ==
    \/ \E s \in Secrets : SecretStep(s)
    \/ \E w \in Walkers : BeginWalk(w) \/ NextPage(w)

ListingSpec == ListingInit /\ [][ListingNext]_listingVars
-------------------------------------------------------------------------------
(* Properties *)

ListingTypeOK ==
    /\ row \in [Secrets -> {"none", "stamped"} \cup Statuses]
    /\ stamp \in [Secrets -> 0..Cardinality(Secrets)]
    /\ walk \in [Walkers -> [ at : {"idle", "walking", "ended"},
                              status : {"any", "active"}, limit : Limits \cup {DefaultLimit},
                              offset : 0..MaxOffset + 1,
                              due : SUBSET Secrets, seen : SUBSET Secrets,
                              out : SUBSET Secrets ]]

\* A walk over the whole list that came to its end has met every secret there
\* was when it began, whatever was inserted, late or in order, or revoked between
\* its pages.  With ?status=active every row that is revoked after the walk began
\* may move another one up past it, so that it misses as many as were revoked,
\* but no more (pagination.go:24, secret_repo.go:75).
WalkMissesNothing ==
    \A w \in Walkers : walk[w].at = "ended" =>
       LET missed  == {s \in walk[w].due : Matches(s, walk[w].status)} \ walk[w].seen
           revoked == {s \in Stored : row[s] = "revoked"} \ walk[w].out
       IN  Cardinality(missed) <= IF walk[w].status = "any" THEN 0 ELSE Cardinality(revoked)
===============================================================================
