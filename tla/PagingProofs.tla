---------------------------- MODULE PagingProofs -----------------------------
(***************************************************************************)
(* What a caller gets who reads a list a page at a time while it changes,  *)
(* for any number of secrets, events and callers and any sizes of a page:  *)
(* the list of secrets by LIMIT and OFFSET, the audit log by time.         *)
(***************************************************************************)
EXTENDS SecretListing, AuditTrail, TLAPS, FiniteSetTheorems

\* Some numbers have a least one.
LEMMA LeastNumber ==
    ASSUME NEW S, S \subseteq Nat, S # {}
    PROVE  \E n \in S : \A m \in S : n <= m
<1>1. PICK n \in S : \A m \in S : << m, n >> \notin OpToRel(<, Nat)
  BY NatLessThanWellFounded, WFMin
<1>2. \A m \in S : ~ (m < n)
  BY <1>1 DEF OpToRel
<1> QED
  BY <1>2

\* Sizes of a set without one of its elements, of a set of one, of a union.
LEMMA WithoutOne ==
    ASSUME NEW S, IsFiniteSet(S), NEW x
    PROVE  /\ IsFiniteSet(S \ {x}) /\ Cardinality(S \ {x}) \in Nat
           /\ Cardinality(S \ {x}) <= Cardinality(S)
           /\ Cardinality(S) <= Cardinality(S \ {x}) + 1
<1>1. IsFiniteSet(S \ {x}) /\ Cardinality(S) \in Nat
  BY FS_RemoveElement, FS_CardinalityType
<1>2. Cardinality(S \ {x}) = Cardinality(S) - 1 \/ Cardinality(S \ {x}) = Cardinality(S)
  BY FS_RemoveElement
<1>3. Cardinality(S \ {x}) \in Nat
  BY <1>1, FS_CardinalityType
<1> QED
  BY <1>1, <1>2, <1>3

LEMMA AtMostOne ==
    ASSUME NEW S, \A x, y \in S : x = y
    PROVE  IsFiniteSet(S) /\ Cardinality(S) \in Nat /\ Cardinality(S) <= 1
<1>1. S = {} \/ \E x : S = {x}
  OBVIOUS
<1>2. CASE S = {}
  <2>1. IsFiniteSet(S) /\ Cardinality(S) = 0
    BY <1>2, FS_EmptySet
  <2> QED
    BY <2>1
<1>3. ASSUME NEW x, S = {x} PROVE IsFiniteSet(S) /\ Cardinality(S) = 1
  BY <1>3, FS_Singleton
<1> QED
  BY <1>1, <1>2, <1>3

LEMMA UnionSize ==
    ASSUME NEW S, IsFiniteSet(S), NEW T, IsFiniteSet(T)
    PROVE  /\ IsFiniteSet(S \cup T) /\ Cardinality(S \cup T) \in Nat
           /\ Cardinality(S \cup T) <= Cardinality(S) + Cardinality(T)
<1>1. /\ IsFiniteSet(S \cup T)
      /\ Cardinality(S \cup T) = Cardinality(S) + Cardinality(T) - Cardinality(S \cap T)
  BY FS_Union
<1>2. IsFiniteSet(S \cap T)
  BY FS_Intersection
<1>3. /\ Cardinality(S) \in Nat /\ Cardinality(T) \in Nat /\ Cardinality(S \cap T) \in Nat
      /\ Cardinality(S \cup T) \in Nat
  BY <1>1, <1>2, FS_CardinalityType
<1> QED
  BY <1>1, <1>3
-----------------------------------------------------------------------------
(* The list of secrets *)

\* The rows of a list, and how many of them come before one.
Rows(status) == {s \in Stored : Matches(s, status)}

Place(s, status) == Cardinality(Before(s, status))

StampedSecrets == {s \in Secrets : stamp[s] > 0}

\* Two secrets never have the same time, and a row has one.
StampsOK ==
    /\ \A s \in Secrets : row[s] = "none" <=> stamp[s] = 0
    /\ \A s \in Secrets : stamp[s] <= Cardinality(StampedSecrets)
    /\ \A s, t \in Secrets : stamp[s] > 0 /\ stamp[s] = stamp[t] => s = t

Gone == {s \in Stored : row[s] = "revoked"}

\* The offset of the next page.
Ahead(w) == Least(walk[w].offset, MaxOffset)

\* The rows a walk was due, has not seen, and has behind it.
Missed(w) == {s \in walk[w].due : Matches(s, walk[w].status)} \ walk[w].seen

Lost(w) == {s \in Missed(w) : Place(s, walk[w].status) < Ahead(w)}

\* How many a walk may lose.
Allowance(w) == IF walk[w].status = "any" THEN 0 ELSE Cardinality(Gone \ walk[w].out)

WalkOK(w) ==
    /\ walk[w].due \subseteq Stored
    /\ walk[w].out \subseteq Gone
    /\ walk[w].at = "walking" => Cardinality(Lost(w)) <= Allowance(w)
    /\ walk[w].at = "ended" => Cardinality(Missed(w)) <= Allowance(w)

ListingInv == ListingTypeOK /\ StampsOK /\ \A w \in Walkers : WalkOK(w)

LEMMA StampTypes ==
    ASSUME ListingTypeOK
    PROVE  /\ Cardinality(Secrets) \in Nat
           /\ \A s \in Secrets : stamp[s] \in Nat
           /\ Stored \subseteq Secrets
BY ListingAssumption, FS_CardinalityType DEF ListingTypeOK, Stored

\* The places of rows: a newer row has a smaller one, and each its own.
LEMMA Places ==
    ASSUME ListingTypeOK, StampsOK, NEW status
    PROVE  /\ \A s : IsFiniteSet(Before(s, status)) /\ Place(s, status) \in Nat
           /\ \A s, t \in Rows(status) : stamp[t] > stamp[s] => Place(t, status) < Place(s, status)
           /\ \A s, t \in Rows(status) : Place(s, status) = Place(t, status) => s = t
<1>1. ASSUME NEW s PROVE IsFiniteSet(Before(s, status)) /\ Place(s, status) \in Nat
  <2>1. Before(s, status) \in SUBSET Secrets
    BY StampTypes DEF Before
  <2> QED
    BY <2>1, ListingAssumption, FS_Subset, FS_CardinalityType DEF Place
<1>2. ASSUME NEW s \in Rows(status), NEW t \in Rows(status), stamp[t] > stamp[s]
      PROVE  Place(t, status) < Place(s, status)
  <2>1. stamp[s] \in Nat /\ stamp[t] \in Nat /\ \A x \in Stored : stamp[x] \in Nat
    BY StampTypes DEF Rows
  <2>2. Before(t, status) \in SUBSET Before(s, status)
    <3>1. ASSUME NEW x \in Stored, stamp[x] > stamp[t] PROVE stamp[x] > stamp[s]
      BY <1>2, <2>1, <3>1
    <3> QED
      BY <3>1 DEF Before
  <2>3. t \in Before(s, status) /\ t \notin Before(t, status)
    BY <1>2, <2>1 DEF Before, Rows
  <2>4. /\ Cardinality(Before(t, status)) <= Cardinality(Before(s, status))
        /\ Cardinality(Before(t, status)) # Cardinality(Before(s, status))
    BY <1>1, <2>2, <2>3, FS_Subset
  <2> QED
    BY <1>1, <2>4 DEF Place
<1>3. ASSUME NEW s \in Rows(status), NEW t \in Rows(status), Place(s, status) = Place(t, status)
      PROVE  s = t
  <2>1. stamp[s] \in Nat /\ stamp[t] \in Nat /\ s \in Secrets /\ t \in Secrets
    BY StampTypes DEF Rows
  <2>2. Place(s, status) \in Nat /\ Place(t, status) \in Nat
    BY <1>1
  <2>3. stamp[s] = stamp[t]
    BY <1>2, <1>3, <2>1, <2>2
  <2>4. stamp[s] > 0
    <3>1. row[s] # "none"
      BY DEF Rows, Stored, Statuses
    <3> QED
      BY <2>1, <3>1 DEF StampsOK
  <2> QED
    BY <2>1, <2>3, <2>4 DEF StampsOK
<1> QED
  BY <1>1, <1>2, <1>3

\* There is a row at every place up to that of another one.
LEMMA PlacesReach ==
    ASSUME ListingTypeOK, StampsOK, NEW status, NEW n \in Nat,
           NEW last \in Rows(status), Place(last, status) >= n
    PROVE  \E s \in Rows(status) : Place(s, status) = n
<1> DEFINE beyond == {Place(s, status) : s \in {t \in Rows(status) : Place(t, status) >= n}}
<1>1. beyond \subseteq Nat /\ beyond # {}
  BY Places
<1>3. PICK m \in beyond : \A k \in beyond : m <= k
  <2> HIDE DEF beyond
  <2> QED
    BY <1>1, LeastNumber
<1>4. PICK s \in Rows(status) : m = Place(s, status) /\ m >= n
  BY <1>1
<1>5. \A t \in Before(s, status) : t \in Rows(status) /\ Place(t, status) \in 0..n - 1
  <2> SUFFICES ASSUME NEW t \in Before(s, status)
               PROVE  t \in Rows(status) /\ Place(t, status) \in 0..n - 1
    OBVIOUS
  <2>1. t \in Rows(status) /\ stamp[t] > stamp[s]
    BY DEF Before, Rows
  <2>2. Place(t, status) < m /\ Place(t, status) \in Nat /\ m \in Nat
    BY <1>4, <2>1, Places
  <2>3. ~ (Place(t, status) >= n)
    BY <1>3, <2>1, <2>2
  <2> QED
    BY <2>1, <2>2, <2>3
<1>6. m <= n
  <2> DEFINE f == [t \in Before(s, status) |-> Place(t, status)]
  <2>1. f \in Injection(Before(s, status), 0..n - 1)
    BY <1>5, Places DEF Injection, IsInjective
  <2>2. IsFiniteSet(0..n - 1) /\ Cardinality(0..n - 1) = n
    BY FS_Interval
  <2> HIDE DEF f
  <2>3. Cardinality(Before(s, status)) <= n
    BY <2>1, <2>2, FS_Injection
  <2> QED
    BY <1>4, <2>3 DEF Place
<1> QED
  BY <1>1, <1>4, <1>6

\* A page: the rows at its places, and no more of them than its limit; only one
\* that asks for no row beyond the last is empty.
LEMMA PageRows ==
    ASSUME ListingTypeOK, StampsOK, NEW status, NEW page, page.limit \in Nat \ {0},
           page.offset \in Nat
    PROVE  LET rows == ListSecrets(status, page)
               size == Cardinality(rows)
           IN  /\ IsFiniteSet(rows) /\ size \in Nat /\ size <= page.limit
               /\ rows = {s \in Rows(status) :
                             /\ page.offset <= Place(s, status)
                             /\ Place(s, status) < page.offset + page.limit}
               /\ rows = {} => \A s \in Rows(status) : Place(s, status) < page.offset
<1> DEFINE rows == ListSecrets(status, page)
           places == page.offset .. page.offset + page.limit - 1
<1>1. rows = {s \in Rows(status) : Place(s, status) \in places}
  BY DEF ListSecrets, Rows, Place
<1>2. IsFiniteSet(places) /\ Cardinality(places) = page.limit
  <2> DEFINE to == page.offset + page.limit - 1
  <2>1. page.offset \in Int /\ to \in Int /\ ~ (page.offset > to)
        /\ to - page.offset + 1 = page.limit
    OBVIOUS
  <2> HIDE DEF to
  <2>2. IsFiniteSet(page.offset..to) /\ Cardinality(page.offset..to) = page.limit
    BY <2>1, FS_Interval
  <2> QED
    BY <2>2 DEF to
<1>3. /\ IsFiniteSet(rows) /\ Cardinality(rows) \in Nat
      /\ Cardinality(rows) <= page.limit
  <2> DEFINE f == [s \in rows |-> Place(s, status)]
  <2>1. f \in Injection(rows, places)
    BY <1>1, Places DEF Injection, IsInjective
  <2> HIDE DEF f, rows, places
  <2> QED
    BY <1>2, <2>1, FS_Injection, FS_CardinalityType
<1>4. rows = {s \in Rows(status) : /\ page.offset <= Place(s, status)
                                   /\ Place(s, status) < page.offset + page.limit}
  BY <1>1, Places
<1>5. ASSUME rows = {}, NEW s \in Rows(status) PROVE Place(s, status) < page.offset
  <2> SUFFICES ASSUME Place(s, status) >= page.offset PROVE FALSE
    BY Places
  <2>1. PICK t \in Rows(status) : Place(t, status) = page.offset
    BY PlacesReach
  <2> QED
    BY <1>4, <1>5, <2>1
<1> QED
  BY <1>3, <1>4, <1>5

WalkRecords == [ at : {"idle", "walking", "ended"}, status : {"any", "active"},
                 limit : Limits \cup {DefaultLimit}, offset : 0..MaxOffset + 1,
                 due : SUBSET Secrets, seen : SUBSET Secrets, out : SUBSET Secrets ]

\* All that is counted is finite.
LEMMA Counts ==
    ASSUME ListingTypeOK, NEW w \in Walkers
    PROVE  /\ IsFiniteSet(Missed(w)) /\ Cardinality(Missed(w)) \in Nat
           /\ IsFiniteSet(Lost(w)) /\ Cardinality(Lost(w)) \in Nat
           /\ IsFiniteSet(Gone \ walk[w].out) /\ Cardinality(Gone \ walk[w].out) \in Nat
           /\ Allowance(w) \in Nat
<1>1. Missed(w) \in SUBSET Secrets /\ Lost(w) \in SUBSET Secrets /\ Gone \ walk[w].out \in SUBSET Secrets
  BY DEF Missed, Lost, Gone, Stored, ListingTypeOK
<1>2. /\ IsFiniteSet(Missed(w)) /\ Cardinality(Missed(w)) \in Nat
      /\ IsFiniteSet(Lost(w)) /\ Cardinality(Lost(w)) \in Nat
      /\ IsFiniteSet(Gone \ walk[w].out) /\ Cardinality(Gone \ walk[w].out) \in Nat
  BY <1>1, ListingAssumption, FS_Subset, FS_CardinalityType
<1> QED
  BY <1>2 DEF Allowance

LEMMA CountTypes ==
    ListingTypeOK => /\ \A s, status : Place(s, status) \in Nat
                     /\ \A w \in Walkers : Allowance(w) \in Nat
<1> SUFFICES ASSUME ListingTypeOK
             PROVE  /\ \A s, status : Place(s, status) \in Nat
                    /\ \A w \in Walkers : Allowance(w) \in Nat
  OBVIOUS
<1>1. ASSUME NEW s, NEW status PROVE Place(s, status) \in Nat
  <2>1. Before(s, status) \in SUBSET Secrets
    BY DEF Before, Stored
  <2> QED
    BY <2>1, ListingAssumption, FS_Subset, FS_CardinalityType DEF Place
<1> QED
  BY <1>1, Counts

\* The same of the next state.
LEMMA CountTypesNext ==
    ListingTypeOK' => (/\ \A s, status : Place(s, status) \in Nat
                       /\ \A w \in Walkers : Allowance(w) \in Nat)'
BY CountTypes, PTL

\* A step of one walk leaves the others and the rows as they are.
LEMMA OneWalk ==
    ASSUME ListingInv, NEW w \in Walkers, NEW r \in WalkRecords, walk' = [walk EXCEPT ![w] = r],
           UNCHANGED << row, stamp >>, walk'[w] = r => WalkOK(w)'
    PROVE  ListingInv'
<1>1. ListingTypeOK' /\ StampsOK'
  BY DEF ListingInv, ListingTypeOK, StampsOK, StampedSecrets, WalkRecords
<1>2. WalkOK(w)'
  BY DEF ListingInv, ListingTypeOK
<1>3. ASSUME NEW v \in Walkers \ {w} PROVE WalkOK(v)'
  <2>1. walk'[v] = walk[v] /\ WalkOK(v)
    BY DEF ListingInv, ListingTypeOK
  <2> QED
    BY <2>1 DEF WalkOK, Lost, Missed, Allowance, Gone, Place, Before, Stored, Matches, Ahead, Least
<1> QED
  BY <1>1, <1>2, <1>3 DEF ListingInv

LEMMA BeginKeeps ==
    ASSUME ListingInv, NEW w \in Walkers, BeginWalk(w)
    PROVE  ListingInv'
<1>1. PICK status \in {"any", "active"}, limit \in Limits :
        walk' = [walk EXCEPT ![w] =
              [ at |-> "walking", status |-> status, limit |-> limit, offset |-> 0,
                due |-> {s \in Stored : Matches(s, status)}, seen |-> {},
                out |-> {s \in Stored : row[s] = "revoked"} ]]
  BY DEF BeginWalk
<1> DEFINE r == [ at |-> "walking", status |-> status, limit |-> limit, offset |-> 0,
                  due |-> Rows(status), seen |-> {}, out |-> Gone ]
<1>2. walk' = [walk EXCEPT ![w] = r] /\ UNCHANGED << row, stamp >>
  BY <1>1 DEF BeginWalk, Rows, Gone
<1>3. r \in WalkRecords
  <2>1. Rows(status) \in SUBSET Secrets /\ Gone \in SUBSET Secrets
    BY DEF Rows, Gone, Stored
  <2>2. 0 \in 0..MaxOffset + 1
    BY ListingAssumption
  <2> QED
    BY <2>1, <2>2 DEF WalkRecords
<1>4. /\ r.at = "walking" /\ r.offset = 0 /\ r.due = Rows(status) /\ r.out = Gone
  OBVIOUS
<1> HIDE DEF r
<1>5. ListingTypeOK' /\ StampsOK'
  BY <1>2, <1>3 DEF ListingInv, ListingTypeOK, StampsOK, StampedSecrets, WalkRecords
<1>6. ASSUME walk'[w] = r PROVE WalkOK(w)'
  <2>1. Rows(status) \subseteq Stored /\ Gone' = Gone /\ Stored' = Stored
    BY <1>2 DEF Rows, Gone, Stored
  <2>2. Ahead(w)' = 0
    BY <1>4, <1>6, ListingAssumption DEF Ahead, Least
  <2>3. Lost(w)' = {}
    <3>1. \A s, st : Place(s, st)' \in Nat
      BY <1>5, CountTypesNext
    <3> QED
      BY <2>2, <3>1 DEF Lost
  <2>4. Allowance(w)' \in Nat
    BY <1>5, CountTypesNext
  <2> QED
    BY <1>4, <1>6, <2>1, <2>3, <2>4, FS_EmptySet DEF WalkOK
<1> QED
  BY <1>2, <1>3, <1>6, OneWalk

LEMMA PageKeeps ==
    ASSUME ListingInv, NEW w \in Walkers, NextPage(w)
    PROVE  ListingInv'
<1> DEFINE status == walk[w].status
           page == ParsePage(walk[w].limit, walk[w].offset)
           rows == ListSecrets(status, page)
           onward == Least(walk[w].offset + Cardinality(rows), MaxOffset + 1)
           r == [ at |-> IF rows = {} THEN "ended" ELSE "walking", status |-> status,
                  limit |-> walk[w].limit, offset |-> onward, due |-> walk[w].due,
                  seen |-> walk[w].seen \cup rows, out |-> walk[w].out ]
<1>1. /\ walk[w] \in WalkRecords /\ walk[w].at = "walking" /\ UNCHANGED << row, stamp >>
      /\ ListingTypeOK /\ StampsOK /\ WalkOK(w)
      /\ MaxOffset \in Nat /\ walk[w].offset \in Nat
  <2>1. walk[w] \in WalkRecords /\ MaxOffset \in Nat
    BY ListingAssumption DEF ListingInv, ListingTypeOK, WalkRecords
  <2>2. walk[w].offset \in Nat
    BY <2>1 DEF WalkRecords
  <2> QED
    BY <2>1, <2>2 DEF ListingInv, NextPage
<1>2. page.limit \in Nat \ {0} /\ page.offset = Ahead(w) /\ Ahead(w) \in Nat
  <2>1. /\ page.offset = Ahead(w)
        /\ page.limit = Least(IF walk[w].limit = 0 THEN DefaultLimit ELSE walk[w].limit, MaxLimit)
    BY DEF ParsePage, Ahead
  <2>2. walk[w].limit \in Nat
    BY <1>1, ListingAssumption DEF WalkRecords
  <2>3. page.limit \in Nat \ {0}
    BY <2>1, <2>2, ListingAssumption DEF Least
  <2> QED
    BY <1>1, <2>1, <2>3 DEF Ahead, Least
<1>3. /\ Cardinality(rows) \in Nat
      /\ Cardinality(rows) <= page.limit
      /\ rows = {s \in Rows(status) : /\ Ahead(w) <= Place(s, status)
                                      /\ Place(s, status) < Ahead(w) + page.limit}
      /\ rows = {} => \A s \in Rows(status) : Place(s, status) < Ahead(w)
  <2> HIDE DEF page, status
  <2> QED
    BY <1>1, <1>2, PageRows
<1>4. onward \in 0..MaxOffset + 1
  BY <1>1, <1>3 DEF Least
<1>5. walk' = [walk EXCEPT ![w] = r]
  <2> DEFINE ending == IF rows = {} THEN "ended" ELSE "walking"
             r1 == [walk[w] EXCEPT !.at = ending]
             r2 == [r1 EXCEPT !.offset = onward]
             r3 == [r2 EXCEPT !.seen = walk[w].seen \cup rows]
  <2>1. walk' = [walk EXCEPT ![w] = r3]
    BY <1>1 DEF NextPage, ListingTypeOK, WalkRecords
  <2>2. r3 = r
    <3> HIDE DEF rows, onward, ending
    <3>1. r1 = [ at |-> ending, status |-> status, limit |-> walk[w].limit,
                 offset |-> walk[w].offset, due |-> walk[w].due, seen |-> walk[w].seen,
                 out |-> walk[w].out ]
      BY <1>1 DEF WalkRecords
    <3> HIDE DEF r1
    <3>2. r2 = [ at |-> ending, status |-> status, limit |-> walk[w].limit,
                 offset |-> onward, due |-> walk[w].due, seen |-> walk[w].seen,
                 out |-> walk[w].out ]
      BY <3>1
    <3> HIDE DEF r2
    <3> QED
      BY <3>2 DEF ending
  <2> QED
    BY <2>1, <2>2
<1>6. r \in WalkRecords
  <2>1. rows \in SUBSET Secrets
    BY DEF ListSecrets, Stored
  <2> HIDE DEF rows, onward
  <2> QED
    BY <1>1, <1>4, <2>1 DEF WalkRecords
<1>7. /\ r.at = (IF rows = {} THEN "ended" ELSE "walking") /\ r.status = status
      /\ r.offset = onward /\ r.due = walk[w].due /\ r.seen = walk[w].seen \cup rows
      /\ r.out = walk[w].out
  OBVIOUS
<1> HIDE DEF r, rows, page
<1>8. ASSUME walk'[w] = r PROVE WalkOK(w)'
  <2>1. /\ Stored' = Stored /\ Gone' = Gone /\ Missed(w)' = Missed(w) \ rows
        /\ Allowance(w)' = Allowance(w)
        /\ \A s : Place(s, status)' = Place(s, status)
    <3>1. Stored' = Stored /\ Gone' = Gone /\ \A s, st : Matches(s, st)' = Matches(s, st)
      BY <1>1 DEF Stored, Gone, Matches
    <3>2. Missed(w)' = Missed(w) \ rows
      BY <1>7, <1>8, <3>1 DEF Missed
    <3>3. Allowance(w)' = Allowance(w)
      BY <1>7, <1>8, <3>1 DEF Allowance
    <3>4. \A s, st : Place(s, st)' = Place(s, st)
      BY <1>1 DEF Place, Before, Stored, Matches
    <3>5. status' = status
      BY <1>7, <1>8
    <3> QED
      BY <3>1, <3>2, <3>3, <3>4, <3>5
  <2>2. \A s \in Missed(w) : s \in Rows(status) /\ Place(s, status) \in Nat
    BY <1>1, CountTypes DEF Missed, Rows, WalkOK
  <2>3. CASE rows = {}
    <3>1. Lost(w) = Missed(w)
      BY <1>3, <2>2, <2>3 DEF Lost
    <3>2. Missed(w)' = Missed(w)
      BY <2>1, <2>3
    <3> QED
      BY <1>1, <1>7, <1>8, <2>1, <2>3, <3>1, <3>2 DEF WalkOK
  <2>4. CASE rows # {}
    <3>1. Ahead(w)' <= Ahead(w) + Cardinality(rows)
      BY <1>1, <1>3, <1>7, <1>8 DEF Ahead, Least
    <3>2. Ahead(w)' \in Nat
      BY <1>1, <1>4, <1>7, <1>8 DEF Ahead, Least
    <3>3. Lost(w)' \in SUBSET Lost(w)
      <4> SUFFICES ASSUME NEW s \in Missed(w), s \notin rows, Place(s, status) < Ahead(w)'
                   PROVE  Place(s, status) < Ahead(w)
        BY <1>7, <1>8, <2>1 DEF Lost
      <4>1. Place(s, status) < Ahead(w) + page.limit
        BY <1>2, <1>3, <2>2, <3>1, <3>2
      <4> QED
        BY <1>2, <1>3, <2>2, <4>1
    <3>4. Cardinality(Lost(w))' <= Cardinality(Lost(w))
      BY <1>1, <3>3, Counts, FS_Subset
    <3>5. Lost(w)' \in SUBSET Lost(w) /\ Cardinality(Lost(w)') \in Nat
      BY <1>1, <3>3, Counts, FS_Subset, FS_CardinalityType
    <3>6. Cardinality(Lost(w)') <= Allowance(w)'
      <4>1. Cardinality(Lost(w)) <= Allowance(w)
        BY <1>1 DEF WalkOK
      <4>2. Cardinality(Lost(w)) \in Nat /\ Allowance(w) \in Nat
        BY <1>1, Counts
      <4> QED
        BY <2>1, <3>4, <3>5, <4>1, <4>2
    <3> QED
      BY <1>1, <1>7, <1>8, <2>1, <2>4, <3>6 DEF WalkOK
  <2> QED
    BY <2>3, <2>4
<1> QED
  BY <1>1, <1>5, <1>6, <1>8, OneWalk

LEMMA ListingBegins == ListingInit => ListingInv
<1> SUFFICES ASSUME ListingInit PROVE ListingInv
  OBVIOUS
<1>1. ListingTypeOK
  <2>1. Cardinality(Secrets) \in Nat /\ MaxOffset \in Nat
    BY ListingAssumption, FS_CardinalityType
  <2> QED
    BY <2>1 DEF ListingInit, ListingTypeOK, Statuses
<1>2. StampsOK
  <2>1. StampedSecrets \in SUBSET Secrets
    BY DEF StampedSecrets
  <2>2. Cardinality(StampedSecrets) \in Nat
    BY <2>1, ListingAssumption, FS_Subset, FS_CardinalityType
  <2> QED
    BY <2>2 DEF ListingInit, StampsOK
<1>3. \A w \in Walkers : WalkOK(w)
  BY DEF ListingInit, WalkOK
<1> QED
  BY <1>1, <1>2, <1>3 DEF ListingInv

\* A step of a secret that is no row yet, or that makes it one: it may only come
\* before others.
LEMMA NotRevokedKeeps ==
    ASSUME ListingInv, NEW s \in Secrets, StampSecret(s) \/ StoreSecret(s)
    PROVE  \A w \in Walkers : WalkOK(w)'
<1>1. /\ walk' = walk /\ ListingTypeOK /\ StampsOK
      /\ row[s] \in {"none", "stamped"} /\ row'[s] \in {"stamped", "active"}
      /\ \A t \in Secrets \ {s} : row'[t] = row[t]
      /\ \A t \in Stored : stamp'[t] = stamp[t]
      /\ s \notin Stored
  BY DEF ListingInv, ListingTypeOK, StampSecret, StoreSecret, Stored, Statuses
<1>2. /\ Stored \subseteq Stored' /\ \A t \in Stored : row'[t] = row[t]
      /\ Stored' \subseteq Stored \cup {s}
  BY <1>1 DEF Stored, Statuses
<1>3. Gone' = Gone
  BY <1>1, <1>2 DEF Gone, Stored
<1>4. \A t \in Stored : \A st : Matches(t, st)' = Matches(t, st)
  BY <1>2 DEF Matches
<1>5. ASSUME NEW t \in Stored, NEW st PROVE Place(t, st) <= Place(t, st)'
  <2>1. Before(t, st) \in SUBSET Before(t, st)'
    BY <1>1, <1>2, <1>4 DEF Before
  <2>2. Before(t, st)' \in SUBSET Secrets
    BY DEF Before, Stored
  <2> QED
    BY <2>1, <2>2, ListingAssumption, FS_Subset DEF Place
<1>6. ASSUME NEW w \in Walkers PROVE WalkOK(w)'
  <2> DEFINE status == walk[w].status
  <2>1. WalkOK(w) /\ walk[w].due \subseteq Stored /\ status' = status
    BY <1>1 DEF ListingInv, WalkOK
  <2>2. Missed(w)' = Missed(w) /\ Missed(w) \subseteq Stored
    BY <1>1, <1>4, <2>1 DEF Missed
  <2>3. Allowance(w)' = Allowance(w) /\ Ahead(w)' = Ahead(w) /\ Ahead(w) \in Nat
    <3>1. Ahead(w) \in Nat
      BY <1>1, ListingAssumption DEF Ahead, Least, ListingTypeOK
    <3> QED
      BY <1>1, <1>3, <3>1 DEF Allowance, Ahead
  <2>4. Lost(w)' \in SUBSET Lost(w)
    <3>1. ListingTypeOK => \A t : Place(t, status) \in Nat
      BY CountTypes
    <3>2. \A t : Place(t, status)' \in Nat
      <4>1. ASSUME NEW t, NEW st PROVE Place(t, st)' \in Nat
        <5>1. Before(t, st)' \in SUBSET Secrets
          BY DEF Before, Stored
        <5> QED
          BY <5>1, ListingAssumption, FS_Subset, FS_CardinalityType DEF Place
      <4> QED
        BY <4>1
    <3>3. \A t \in Missed(w) : Place(t, status) <= Place(t, status)'
      BY <1>5, <2>1, <2>2
    <3> QED
      BY <1>1, <2>2, <2>3, <3>1, <3>2, <3>3 DEF Lost
  <2>5. /\ Cardinality(Lost(w)') <= Cardinality(Lost(w))
        /\ Cardinality(Lost(w)') \in Nat
    BY <1>1, <2>4, Counts, FS_Subset, FS_CardinalityType
  <2>6. walk[w].at = "walking" => Cardinality(Lost(w)') <= Allowance(w)
    <3>1. Cardinality(Lost(w)) \in Nat /\ Allowance(w) \in Nat
      BY <1>1, Counts
    <3> QED
      BY <2>1, <2>5, <3>1 DEF WalkOK
  <2> QED
    BY <1>1, <1>2, <1>3, <2>1, <2>2, <2>3, <2>6 DEF WalkOK
<1> QED
  BY <1>6

\* A revocation takes one row out of a list of active ones, and moves at most one
\* that a walk has not seen behind it; the walk is allowed one more.
LEMMA RevokeKeeps ==
    ASSUME ListingInv, NEW s \in Secrets, RevokeSecret(s)
    PROVE  \A w \in Walkers : WalkOK(w)'
<1>1. /\ UNCHANGED << stamp, walk >> /\ ListingTypeOK /\ StampsOK
      /\ row[s] = "active" /\ row'[s] = "revoked" /\ s \in Stored /\ s \notin Gone
      /\ \A t \in Secrets \ {s} : row'[t] = row[t]
  BY DEF ListingInv, ListingTypeOK, RevokeSecret, Stored, Statuses, Gone
<1>2. Stored' = Stored /\ Gone' = Gone \cup {s}
  BY <1>1 DEF Stored, Statuses, Gone
<1>3. ASSUME NEW w \in Walkers PROVE WalkOK(w)'
  <2>1. /\ WalkOK(w) /\ walk'[w] = walk[w] /\ walk[w].status \in {"any", "active"}
        /\ walk[w].due \subseteq Stored /\ walk[w].out \subseteq Gone
        /\ Ahead(w)' = Ahead(w) /\ Ahead(w) \in Nat
    <3>1. Ahead(w) \in Nat
      BY <1>1, ListingAssumption DEF Ahead, Least, ListingTypeOK
    <3> QED
      BY <1>1, <3>1 DEF ListingInv, WalkOK, ListingTypeOK, Ahead
  <2>2. /\ Cardinality(Lost(w)) \in Nat /\ Cardinality(Missed(w)) \in Nat
        /\ Allowance(w) \in Nat /\ IsFiniteSet(Lost(w)) /\ IsFiniteSet(Missed(w))
    BY <1>1, Counts
  <2>3. CASE walk[w].status = "any"
    <3>1. \A t : Matches(t, "any")' = Matches(t, "any")
      BY DEF Matches
    <3>2. \A t : Place(t, "any")' = Place(t, "any")
      BY <1>1, <1>2, <3>1 DEF Place, Before
    <3>3. Missed(w)' = Missed(w) /\ Allowance(w)' = Allowance(w)
      BY <2>1, <2>3, <3>1 DEF Missed, Allowance
    <3>4. Lost(w)' = Lost(w)
      BY <2>1, <2>3, <3>2, <3>3 DEF Lost
    <3> QED
      BY <1>2, <2>1, <3>3, <3>4 DEF WalkOK
  <2>4. CASE walk[w].status = "active"
    <3> DEFINE moved == {t \in Rows("active") : Place(t, "active") = Ahead(w)}
    <3>1. Allowance(w)' = Allowance(w) + 1
      <4>1. /\ (Gone \ walk[w].out)' = (Gone \ walk[w].out) \cup {s}
            /\ s \notin Gone \ walk[w].out /\ IsFiniteSet(Gone \ walk[w].out)
        BY <1>1, <1>2, <2>1, Counts
      <4>2. Cardinality((Gone \ walk[w].out) \cup {s}) = Cardinality(Gone \ walk[w].out) + 1
        BY <4>1, FS_AddElement
      <4> QED
        BY <2>1, <2>4, <4>1, <4>2 DEF Allowance
    <3>2. \A t \in Stored : Matches(t, "active")' <=> Matches(t, "active") /\ t # s
      BY <1>1 DEF Matches, Stored
    <3>3. Missed(w)' = Missed(w) \ {s}
      BY <2>1, <2>4, <3>2 DEF Missed
    <3>4. ASSUME NEW t PROVE /\ Place(t, "active") \in Nat /\ Place(t, "active")' \in Nat
                             /\ Place(t, "active") <= Place(t, "active")' + 1
      <4>1. Before(t, "active")' = Before(t, "active") \ {s}
        BY <1>1, <1>2, <3>2 DEF Before
      <4>2. IsFiniteSet(Before(t, "active")) /\ Cardinality(Before(t, "active")) \in Nat
        BY <1>1, Places DEF Place
      <4>3. /\ IsFiniteSet(Before(t, "active") \ {s})
            /\ Cardinality(Before(t, "active") \ {s}) \in Nat
            /\ Cardinality(Before(t, "active")) <= Cardinality(Before(t, "active") \ {s}) + 1
        BY <4>2, WithoutOne
      <4> QED
        BY <4>1, <4>2, <4>3 DEF Place
    <3>5. Lost(w)' \in SUBSET (Lost(w) \cup moved)
      <4> SUFFICES ASSUME NEW t \in Missed(w), Place(t, "active")' < Ahead(w)
                   PROVE  t \in Lost(w) \cup moved
        BY <2>1, <2>4, <3>3 DEF Lost
      <4>1. Place(t, "active") < Ahead(w) \/ Place(t, "active") = Ahead(w)
        BY <2>1, <3>4
      <4>2. t \in Rows("active")
        BY <2>1, <2>4 DEF Missed, Rows
      <4> QED
        BY <2>4, <4>1, <4>2 DEF Lost
    <3>6. IsFiniteSet(moved) /\ Cardinality(moved) \in Nat /\ Cardinality(moved) <= 1
      <4>1. \A t, u \in moved : t = u
        BY <1>1, Places
      <4> HIDE DEF moved
      <4> QED
        BY <4>1, AtMostOne
    <3> HIDE DEF moved
    <3>7. Cardinality(Lost(w)') <= Cardinality(Lost(w)) + 1
      <4>1. /\ IsFiniteSet(Lost(w) \cup moved)
            /\ Cardinality(Lost(w) \cup moved) <= Cardinality(Lost(w)) + Cardinality(moved)
        BY <2>2, <3>6, UnionSize
      <4>2. /\ Cardinality(Lost(w)') <= Cardinality(Lost(w) \cup moved)
            /\ Cardinality(Lost(w)') \in Nat /\ Cardinality(Lost(w) \cup moved) \in Nat
        BY <3>5, <4>1, FS_Subset, FS_CardinalityType
      <4> QED
        BY <2>2, <3>6, <4>1, <4>2
    <3>8. Cardinality(Missed(w)') <= Cardinality(Missed(w)) /\ Cardinality(Missed(w)') \in Nat
      BY <2>2, <3>3, WithoutOne
    <3>9. Cardinality(Lost(w)') \in Nat
      <4>1. Lost(w)' \in SUBSET Secrets
        BY <1>1, <1>2, <2>1 DEF Lost, Missed, Stored
      <4> QED
        BY <4>1, ListingAssumption, FS_Subset, FS_CardinalityType
    <3>10. /\ walk[w].at = "walking" => Cardinality(Lost(w)') <= Allowance(w)'
           /\ walk[w].at = "ended" => Cardinality(Missed(w)') <= Allowance(w)'
      BY <2>1, <2>2, <3>1, <3>7, <3>8, <3>9 DEF WalkOK
    <3> QED
      BY <1>2, <2>1, <3>10 DEF WalkOK
  <2> QED
    BY <2>1, <2>3, <2>4
<1> QED
  BY <1>3

LEMMA StampKeeps ==
    ASSUME ListingInv, NEW s \in Secrets, StampSecret(s)
    PROVE  ListingTypeOK' /\ StampsOK'
<1>1. /\ row[s] = "none" /\ row' = [row EXCEPT ![s] = "stamped"] /\ walk' = walk
      /\ stamp' = [stamp EXCEPT ![s] = 1 + Cardinality(StampedSecrets)]
      /\ ListingTypeOK /\ StampsOK
  BY DEF StampSecret, StampedSecrets, ListingInv
<1>2. stamp[s] = 0 /\ \A t \in Secrets : stamp[t] \in Nat
  BY <1>1, StampTypes DEF StampsOK
<1>3. /\ Cardinality(StampedSecrets) \in Nat
      /\ Cardinality(StampedSecrets \cup {s}) = Cardinality(StampedSecrets) + 1
      /\ Cardinality(StampedSecrets) + 1 <= Cardinality(Secrets)
      /\ Cardinality(Secrets) \in Nat
  <2>1. /\ StampedSecrets \in SUBSET Secrets /\ StampedSecrets \cup {s} \in SUBSET Secrets
        /\ s \notin StampedSecrets
    BY <1>2 DEF StampedSecrets
  <2>2. IsFiniteSet(StampedSecrets) /\ Cardinality(StampedSecrets) \in Nat
    BY <2>1, ListingAssumption, FS_Subset, FS_CardinalityType
  <2>3. Cardinality(StampedSecrets \cup {s}) = Cardinality(StampedSecrets) + 1
    BY <2>1, <2>2, FS_AddElement
  <2>4. Cardinality(StampedSecrets \cup {s}) <= Cardinality(Secrets)
    BY <2>1, ListingAssumption, FS_Subset
  <2> QED
    BY <1>1, <2>2, <2>3, <2>4, StampTypes
<1>4. /\ \A t \in Secrets : stamp'[t] = IF t = s THEN 1 + Cardinality(StampedSecrets) ELSE stamp[t]
      /\ \A t \in Secrets : row'[t] = IF t = s THEN "stamped" ELSE row[t]
  BY <1>1 DEF ListingTypeOK
<1>5. StampedSecrets' = StampedSecrets \cup {s}
  <2>1. \A t \in Secrets : stamp'[t] > 0 <=> stamp[t] > 0 \/ t = s
    BY <1>2, <1>3, <1>4
  <2> QED
    BY <2>1 DEF StampedSecrets
<1>6. ListingTypeOK'
  <2>1. stamp' \in [Secrets -> 0..Cardinality(Secrets)]
    BY <1>1, <1>3 DEF ListingTypeOK
  <2>2. row' \in [Secrets -> {"none", "stamped"} \cup Statuses]
    BY <1>1 DEF ListingTypeOK
  <2> QED
    BY <1>1, <2>1, <2>2 DEF ListingTypeOK
<1>7. StampsOK'
  <2>1. \A t \in Secrets : row'[t] = "none" <=> stamp'[t] = 0
    BY <1>1, <1>3, <1>4 DEF StampsOK
  <2>2. \A t \in Secrets : stamp'[t] <= Cardinality(StampedSecrets')
    BY <1>1, <1>2, <1>3, <1>4, <1>5 DEF StampsOK
  <2>3. \A t, u \in Secrets : stamp'[t] > 0 /\ stamp'[t] = stamp'[u] => t = u
    BY <1>1, <1>2, <1>3, <1>4 DEF StampsOK
  <2> QED
    BY <2>1, <2>2, <2>3 DEF StampsOK
<1> QED
  BY <1>6, <1>7

LEMMA ListingInductive == ListingInv /\ [ListingNext]_listingVars => ListingInv'
<1> SUFFICES ASSUME ListingInv, [ListingNext]_listingVars PROVE ListingInv'
  OBVIOUS
<1>1. CASE UNCHANGED listingVars
  <2>1. row' = row /\ stamp' = stamp /\ walk' = walk
    BY <1>1 DEF listingVars
  <2>2. ListingTypeOK' /\ StampsOK'
    BY <2>1 DEF ListingInv, ListingTypeOK, StampsOK, StampedSecrets
  <2>3. ASSUME NEW w \in Walkers PROVE WalkOK(w)'
    <3>1. Lost(w)' = Lost(w)
      BY <2>1 DEF Lost, Missed, Place, Before, Stored, Matches, Ahead
    <3>2. Missed(w)' = Missed(w)
      BY <2>1 DEF Missed, Matches
    <3>3. Gone' = Gone /\ Stored' = Stored
      BY <2>1 DEF Gone, Stored
    <3>4. Allowance(w)' = Allowance(w)
      BY <2>1, <3>3 DEF Allowance
    <3> QED
      BY <2>1, <3>1, <3>2, <3>3, <3>4 DEF ListingInv, WalkOK
  <2> QED
    BY <2>2, <2>3 DEF ListingInv
<1>2. ASSUME NEW s \in Secrets, StampSecret(s) PROVE ListingInv'
  BY <1>2, StampKeeps, NotRevokedKeeps DEF ListingInv
<1>3. ASSUME NEW s \in Secrets, StoreSecret(s) \/ RevokeSecret(s) PROVE ListingInv'
  <2>1. /\ row[s] # "none" /\ UNCHANGED << stamp, walk >>
        /\ \E to \in Statuses : row' = [row EXCEPT ![s] = to]
    BY <1>3 DEF StoreSecret, RevokeSecret, Statuses
  <2>2. ListingTypeOK' /\ StampsOK'
    BY <2>1 DEF ListingInv, ListingTypeOK, StampsOK, StampedSecrets, Statuses
  <2>3. \A w \in Walkers : WalkOK(w)'
    BY <1>3, NotRevokedKeeps, RevokeKeeps
  <2> QED
    BY <2>2, <2>3 DEF ListingInv
<1>4. ASSUME NEW w \in Walkers, BeginWalk(w) \/ NextPage(w) PROVE ListingInv'
  BY <1>4, BeginKeeps, PageKeeps
<1> QED
  BY <1>1, <1>2, <1>3, <1>4 DEF ListingNext, SecretStep

LEMMA ListingInvariant == ListingSpec => []ListingInv
BY ListingBegins, ListingInductive, PTL DEF ListingSpec

\* The rows, their times and the callers' offsets keep their types: an offset
\* stays within what ParsePage accepts, and a time is one of as many as there are
\* secrets (pagination.go:24, secret_repo.go:75).
THEOREM ListingTypes == ListingSpec => []ListingTypeOK
<1>1. ListingInv => ListingTypeOK
  BY DEF ListingInv
<1> QED
  BY <1>1, ListingInvariant, PTL

\* A walk over the whole list meets every secret there was when it began, for any
\* number of secrets, any limits and offsets; one over the active secrets misses
\* at most as many as were revoked meanwhile (pagination.go:24, secret_repo.go:75).
THEOREM WalksComplete == ListingSpec => []WalkMissesNothing
<1>1. ListingInv => WalkMissesNothing
  <2> SUFFICES ASSUME ListingInv, NEW w \in Walkers, walk[w].at = "ended"
               PROVE  Cardinality({s \in walk[w].due : Matches(s, walk[w].status)} \ walk[w].seen)
                         <= IF walk[w].status = "any" THEN 0
                            ELSE Cardinality({s \in Stored : row[s] = "revoked"} \ walk[w].out)
    BY DEF WalkMissesNothing
  <2>1. Cardinality(Missed(w)) <= Allowance(w)
    BY DEF ListingInv, WalkOK
  <2> QED
    BY <2>1 DEF Missed, Allowance, Gone
<1> QED
  BY <1>1, ListingInvariant, PTL
-----------------------------------------------------------------------------
(* The audit log *)

Stamped == {f \in Events : moment[f] > 0}

\* Two events never have the same time, and one that is stored has one.
MomentsOK ==
    /\ \A e \in kept : moment[e] > 0
    /\ \A e \in Events : moment[e] <= Cardinality(Stamped)
    /\ \A e, f \in Events : moment[e] > 0 /\ moment[e] = moment[f] => e = f

\* What a walk has left behind is newer than what it asks for, and what it was
\* due there it has seen.
BackOK(u) ==
    /\ reader[u].due \subseteq Within(reader[u].scope)
    /\ reader[u].seen \cup reader[u].page \subseteq kept
    /\ \A e \in reader[u].seen : moment[e] >= reader[u].to
    /\ \A e \in reader[u].page : moment[e] <= reader[u].to
    /\ reader[u].at \in {"asking", "allowed"} =>
          \A e \in reader[u].due : moment[e] > reader[u].to => e \in reader[u].seen
    /\ reader[u].at = "answered" =>
          \A e \in reader[u].due :
             \/ e \in reader[u].seen \cup reader[u].page
             \/ \A f \in reader[u].page : moment[e] < moment[f]
    /\ reader[u].at = "answered" /\ reader[u].page \subseteq reader[u].seen =>
          reader[u].due \subseteq reader[u].seen
    /\ reader[u].at = "finished" => reader[u].due \subseteq reader[u].seen

\* A request that waits for the check is known to be entitled if it passes; one
\* beyond it was, for each event of its page.
RightOK(u) ==
    /\ reader[u].at = "asking" /\ << u, reader[u].scope >> \in belongs => reader[u].right
    /\ reader[u].at = "allowed" =>
         u \in admins \/ (reader[u].scope # Everything /\ reader[u].right)
    /\ reader[u].at \in {"asking", "allowed"} => reader[u].page = {}
    /\ \A e \in reader[u].page :
         u \in admins \/ (reader[u].scope = About[e] /\ reader[u].right)

BackInv == AuditTypeOK /\ MomentsOK /\ \A u \in Readers : BackOK(u) /\ RightOK(u)

\* Of some events one is the newest.
LEMMA Newest ==
    ASSUME moment \in [Events -> 0..Forever], NEW T, T \subseteq Events, T # {}
    PROVE  \E g \in T : \A e \in T : moment[e] <= moment[g]
<1> DEFINE ages == {Forever - moment[e] : e \in T}
<1>1. Forever \in Nat
  BY AuditAssumption, FS_CardinalityType DEF Forever
<1>2. ages \subseteq Nat /\ ages # {}
  BY <1>1
<1>3. PICK n \in ages : \A m \in ages : n <= m
  <2> HIDE DEF ages
  <2> QED
    BY <1>2, LeastNumber
<1>4. PICK g \in T : n = Forever - moment[g]
  OBVIOUS
<1>5. \A e \in T : Forever - moment[g] <= Forever - moment[e]
  BY <1>3, <1>4
<1>6. \A e \in T : moment[e] \in Nat
  BY <1>1
<1> QED
  BY <1>1, <1>5, <1>6

\* What a page holds: events of the scope that are old enough, none of them
\* older than one that is left out, and two of them if any is left out.
LEMMA PageHolds ==
    ASSUME AuditTypeOK, NEW scope, NEW limit \in EventLimits \cup {0}, NEW to \in Nat
    PROVE  LET page  == EventPage(scope, limit, to)
               asked == {e \in Within(scope) : moment[e] <= to}
           IN  /\ page \subseteq asked
               /\ \A e \in asked : e \in page \/ \A f \in page : moment[e] < moment[f]
               /\ asked # page => \E g, h \in page : g # h
<1> DEFINE page == EventPage(scope, limit, to)
           asked == {e \in Within(scope) : moment[e] <= to}
           newer(e) == {f \in asked : moment[f] > moment[e]}
<1>1. EventLimit(limit) \in Nat /\ EventLimit(limit) >= 2
  BY AuditAssumption DEF EventLimit
<1>2. /\ page = {e \in asked : Cardinality(newer(e)) < EventLimit(limit)}
      /\ asked \subseteq Events
      /\ moment \in [Events -> 0..Forever]
      /\ \A e \in Events : moment[e] \in Nat
  <2>1. Forever \in Nat
    BY AuditAssumption, FS_CardinalityType DEF Forever
  <2> QED
    BY <2>1 DEF EventPage, Within, AuditTypeOK
<1>3. ASSUME NEW e PROVE IsFiniteSet(newer(e)) /\ Cardinality(newer(e)) \in Nat
  <2>1. newer(e) \in SUBSET Events
    BY <1>2
  <2> QED
    BY <2>1, AuditAssumption, FS_Subset, FS_CardinalityType
<1> HIDE DEF page, asked
<1>4. ASSUME NEW e \in asked, e \notin page, NEW f \in page PROVE moment[e] < moment[f]
  <2> SUFFICES ASSUME moment[f] <= moment[e] PROVE FALSE
    <3>1. moment[e] \in Nat /\ moment[f] \in Nat
      BY <1>2, <1>4
    <3> QED
      BY <3>1
  <2>1. ASSUME NEW x \in asked, moment[x] > moment[e] PROVE moment[x] > moment[f]
    <3>1. moment[x] \in Nat /\ moment[e] \in Nat /\ moment[f] \in Nat
      BY <1>2, <1>4
    <3> QED
      BY <2>1, <3>1
  <2>2. Cardinality(newer(e)) <= Cardinality(newer(f))
    <3>1. newer(e) \in SUBSET newer(f)
      BY <2>1
    <3> QED
      BY <1>3, <3>1, FS_Subset
  <2>3. Cardinality(newer(f)) < EventLimit(limit) /\ ~ (Cardinality(newer(e)) < EventLimit(limit))
    BY <1>2, <1>4
  <2> QED
    BY <1>1, <1>3, <2>2, <2>3
<1>5. ASSUME NEW e \in asked, e \notin page PROVE \E g, h \in page : g # h
  <2>1. PICK g \in asked : \A f \in asked : moment[f] <= moment[g]
    BY <1>2, Newest
  <2>2. g \in page
    <3>1. newer(g) = {}
      BY <1>2, <2>1
    <3> QED
      BY <1>1, <1>2, <3>1, FS_EmptySet
  <2>3. asked \ {g} # {} /\ asked \ {g} \subseteq Events
    BY <1>2, <1>5, <2>2
  <2>4. PICK h \in asked \ {g} : \A f \in asked \ {g} : moment[f] <= moment[h]
    BY <1>2, <2>3, Newest
  <2>5. h \in page
    <3>1. newer(h) \in SUBSET {g}
      <4>1. \A x \in asked : moment[x] > moment[h] => x = g
        BY <1>2, <2>4
      <4> QED
        BY <4>1
    <3>2. Cardinality(newer(h)) <= 1
      <4>1. IsFiniteSet({g}) /\ Cardinality({g}) = 1
        BY FS_Singleton
      <4> HIDE DEF newer
      <4> QED
        BY <3>1, <4>1, FS_Subset
    <3>3. h \in asked /\ Cardinality(newer(h)) \in Nat
      BY <1>3, <2>4
    <3>4. Cardinality(newer(h)) < EventLimit(limit)
      <4> HIDE DEF newer
      <4> QED
        BY <1>1, <3>2, <3>3
    <3> QED
      BY <1>2, <3>3, <3>4
  <2> QED
    BY <2>2, <2>4, <2>5
<1>6. page \subseteq asked
  BY <1>2
<1> QED
  BY <1>4, <1>5, <1>6 DEF page, asked

ReaderRecords ==
    [ at : {"away", "asking", "allowed", "answered", "finished"}, scope : Scopes,
      limit : EventLimits \cup {0}, to : 0..Forever, page : SUBSET Events,
      seen : SUBSET Events, due : SUBSET Events, right : BOOLEAN ]

\* A step of one reader leaves the others as they are.
LEMMA OneBack ==
    ASSUME BackInv, NEW u \in Readers, NEW r, reader' = [reader EXCEPT ![u] = r],
           UNCHANGED << admins, belongs, kept, moment >>,
           r \in ReaderRecords,
           reader'[u] = r => BackOK(u)' /\ RightOK(u)'
    PROVE  BackInv'
<1>1. AuditTypeOK'
  BY DEF BackInv, AuditTypeOK, ReaderRecords
<1>2. MomentsOK'
  BY DEF BackInv, MomentsOK, Stamped
<1>3. BackOK(u)' /\ RightOK(u)'
  BY DEF BackInv, AuditTypeOK
<1>4. \A v \in Readers \ {u} : BackOK(v)' /\ RightOK(v)'
  <2>1. \A v \in Readers \ {u} : reader'[v] = reader[v]
    BY DEF BackInv, AuditTypeOK
  <2> QED
    BY <2>1 DEF BackInv, BackOK, RightOK, Within
<1> QED
  BY <1>1, <1>2, <1>3, <1>4 DEF BackInv

LEMMA BackBegins == AuditInit => BackInv
<1> SUFFICES ASSUME AuditInit PROVE BackInv
  OBVIOUS
<1>1. Forever \in Nat
  BY AuditAssumption, FS_CardinalityType DEF Forever
<1>2. AuditTypeOK
  BY <1>1 DEF AuditInit, AuditTypeOK, Away, Scopes
<1>3. MomentsOK
  <2>1. Stamped \in SUBSET Events
    BY DEF Stamped
  <2>2. Cardinality(Stamped) \in Nat
    BY <2>1, AuditAssumption, FS_Subset, FS_CardinalityType
  <2> QED
    BY <2>2 DEF AuditInit, MomentsOK
<1>4. \A u \in Readers : BackOK(u) /\ RightOK(u)
  BY DEF AuditInit, BackOK, RightOK, Away
<1> QED
  BY <1>2, <1>3, <1>4 DEF BackInv

LEMMA AskBack ==
    ASSUME BackInv, NEW u \in Readers, UNCHANGED << admins, belongs, kept, moment >>,
           NEW scope \in Scopes, NEW limit \in EventLimits \cup {0}, NEW to \in 0..Forever,
           NEW seen \in SUBSET kept, NEW due \in SUBSET Within(scope),
           \A e \in seen : moment[e] >= to,
           \A e \in due : moment[e] > to => e \in seen,
           Ask(u, scope, limit, to, seen, due)
    PROVE  BackInv'
<1> DEFINE r == [ at |-> "asking", scope |-> scope, limit |-> limit, to |-> to, page |-> {},
                  seen |-> seen, due |-> due, right |-> Entitled(u, scope) ]
<1>1. r \in ReaderRecords
  <2>1. Entitled(u, scope) \in BOOLEAN
    BY DEF Entitled
  <2>2. seen \in SUBSET Events /\ due \in SUBSET Events
    BY DEF BackInv, AuditTypeOK, Within
  <2> QED
    BY <2>1, <2>2 DEF ReaderRecords
<1>2. /\ r.at = "asking" /\ r.scope = scope /\ r.page = {} /\ r.seen = seen /\ r.due = due
      /\ r.to = to
      /\ << u, scope >> \in belongs => r.right
  BY DEF Entitled
<1>3. reader' = [reader EXCEPT ![u] = r]
  BY DEF Ask
<1> HIDE DEF r
<1>4. reader'[u] = r => BackOK(u)' /\ RightOK(u)'
  <2>1. reader'[u] = r => BackOK(u)'
    BY <1>2 DEF BackOK, Within
  <2>2. reader'[u] = r => RightOK(u)'
    BY <1>2 DEF RightOK
  <2> QED
    BY <2>1, <2>2
<1> QED
  BY <1>1, <1>3, <1>4, OneBack

LEMMA QueryBack ==
    ASSUME BackInv, NEW u \in Readers, Query(u)
    PROVE  BackInv'
<1> DEFINE page == EventPage(reader[u].scope, reader[u].limit, reader[u].to)
           asked == {e \in Within(reader[u].scope) : moment[e] <= reader[u].to}
           r == [ at |-> "answered", scope |-> reader[u].scope, limit |-> reader[u].limit,
                  to |-> reader[u].to, page |-> page, seen |-> reader[u].seen,
                  due |-> reader[u].due, right |-> reader[u].right ]
<1>1. /\ reader[u] \in ReaderRecords /\ AuditTypeOK /\ MomentsOK /\ BackOK(u) /\ RightOK(u)
      /\ reader[u].at = "allowed" /\ UNCHANGED << admins, belongs, kept, moment >>
      /\ Forever \in Nat
  BY AuditAssumption, FS_CardinalityType
  DEF BackInv, AuditTypeOK, ReaderRecords, Query, Forever
<1>2. /\ page \subseteq asked
      /\ \A e \in asked : e \in page \/ \A f \in page : moment[e] < moment[f]
      /\ asked # page => \E g, h \in page : g # h
  <2>1. reader[u].limit \in EventLimits \cup {0} /\ reader[u].to \in Nat
    BY <1>1 DEF ReaderRecords
  <2> QED
    BY <1>1, <2>1, PageHolds
<1>3. reader' = [reader EXCEPT ![u] = r]
  <2> HIDE DEF page
  <2> DEFINE q == [reader[u] EXCEPT !.at = "answered"]
  <2>2. q = [ at |-> "answered", scope |-> reader[u].scope, limit |-> reader[u].limit,
              to |-> reader[u].to, page |-> reader[u].page, seen |-> reader[u].seen,
              due |-> reader[u].due, right |-> reader[u].right ]
    BY <1>1 DEF ReaderRecords
  <2>3. [reader[u] EXCEPT !.at = "answered", !.page = page] = [q EXCEPT !.page = page]
    OBVIOUS
  <2> HIDE DEF q
  <2>1. r = [reader[u] EXCEPT !.at = "answered", !.page = page]
    BY <2>2, <2>3
  <2> USE DEF page
  <2> QED
    BY <1>1, <2>1 DEF Query, AuditTypeOK
<1>4. r \in ReaderRecords
  <2>1. page \in SUBSET Events
    BY <1>1, <1>2 DEF Within, AuditTypeOK
  <2> HIDE DEF page
  <2> QED
    BY <1>1, <2>1 DEF ReaderRecords
<1>5. /\ r.at = "answered" /\ r.scope = reader[u].scope /\ r.page = page
      /\ r.seen = reader[u].seen /\ r.due = reader[u].due /\ r.to = reader[u].to
      /\ r.right = reader[u].right
  OBVIOUS
<1> HIDE DEF r, page
<1>6. \A e \in Within(reader[u].scope) : e \in kept /\ e \in Events /\ moment[e] \in Nat
  BY <1>1 DEF Within, AuditTypeOK
<1>7. \A e \in reader[u].due : \/ e \in reader[u].seen
                               \/ e \in asked
  BY <1>1, <1>6 DEF BackOK, ReaderRecords
<1>8. page \subseteq reader[u].seen => reader[u].due \subseteq reader[u].seen
  <2> SUFFICES ASSUME page \subseteq reader[u].seen, NEW e \in reader[u].due,
                      e \notin reader[u].seen
               PROVE  FALSE
    OBVIOUS
  <2>1. e \in asked /\ e \notin page
    BY <1>7
  <2>2. PICK g, h \in page : g # h
    BY <1>2, <2>1
  <2>3. \A f \in page : moment[f] = reader[u].to /\ moment[f] > 0 /\ f \in Events
    BY <1>1, <1>2, <1>6 DEF BackOK, MomentsOK, ReaderRecords
  <2> QED
    BY <1>1, <2>2, <2>3 DEF MomentsOK
<1>9. reader'[u] = r => BackOK(u)' /\ RightOK(u)'
  <2>1. \A e \in page : moment[e] <= reader[u].to /\ e \in kept
    BY <1>2, <1>6
  <2>2. \A e \in reader[u].due : \/ e \in reader[u].seen \cup page
                                 \/ \A f \in page : moment[e] < moment[f]
    BY <1>2, <1>7
  <2>3. reader'[u] = r => BackOK(u)'
    BY <1>1, <1>5, <1>8, <2>1, <2>2 DEF BackOK, Within
  <2>4. \A e \in page : reader[u].scope \in {Everything, About[e]}
    BY <1>2 DEF Within
  <2>5. reader'[u] = r => RightOK(u)'
    BY <1>1, <1>5, <2>4 DEF RightOK
  <2> QED
    BY <2>3, <2>5
<1> QED
  BY <1>1, <1>3, <1>4, <1>9, OneBack

LEMMA GoBackBack ==
    ASSUME BackInv, NEW u \in Readers, GoBack(u)
    PROVE  BackInv'
<1>1. /\ reader[u] \in ReaderRecords /\ AuditTypeOK /\ MomentsOK /\ BackOK(u) /\ RightOK(u)
      /\ reader[u].at = "answered" /\ UNCHANGED << admins, belongs, kept, moment >>
      /\ Forever \in Nat
  BY AuditAssumption, FS_CardinalityType
  DEF BackInv, AuditTypeOK, ReaderRecords, GoBack, Forever
<1>2. CASE reader[u].page \subseteq reader[u].seen
  <2> DEFINE r == [reader[u] EXCEPT !.at = "finished"]
  <2>1. r \in ReaderRecords
    BY <1>1 DEF ReaderRecords
  <2>2. /\ r.at = "finished" /\ r.scope = reader[u].scope /\ r.page = reader[u].page
        /\ r.seen = reader[u].seen /\ r.due = reader[u].due /\ r.to = reader[u].to
        /\ r.right = reader[u].right
    BY <1>1 DEF ReaderRecords
  <2>3. reader' = [reader EXCEPT ![u] = r]
    BY <1>2 DEF GoBack
  <2> HIDE DEF r
  <2>4. reader'[u] = r => BackOK(u)' /\ RightOK(u)'
    BY <1>1, <1>2, <2>2 DEF BackOK, RightOK, Within
  <2> QED
    BY <1>1, <2>1, <2>3, <2>4, OneBack
<1>3. CASE ~ (reader[u].page \subseteq reader[u].seen)
  <2>1. PICK oldest \in reader[u].page :
          /\ \A e \in reader[u].page : moment[oldest] <= moment[e]
          /\ Ask(u, reader[u].scope, reader[u].limit, moment[oldest],
                 reader[u].seen \cup reader[u].page, reader[u].due)
    BY <1>3 DEF GoBack
  <2>2. \A e \in kept : moment[e] \in Nat /\ moment[e] \in 0..Forever
    BY <1>1 DEF AuditTypeOK
  <2>3. /\ reader[u].scope \in Scopes /\ reader[u].limit \in EventLimits \cup {0}
        /\ moment[oldest] \in 0..Forever
        /\ reader[u].seen \cup reader[u].page \in SUBSET kept
        /\ reader[u].due \in SUBSET Within(reader[u].scope)
    BY <1>1, <2>2 DEF ReaderRecords, BackOK
  <2>4. \A e \in reader[u].seen \cup reader[u].page : moment[e] >= moment[oldest]
    BY <1>1, <2>1, <2>2 DEF ReaderRecords, BackOK
  <2>5. \A e \in reader[u].due :
           moment[e] > moment[oldest] => e \in reader[u].seen \cup reader[u].page
    <3>1. \A e \in reader[u].due : e \in kept
      BY <2>3 DEF Within
    <3> QED
      BY <1>1, <2>1, <2>2, <3>1 DEF BackOK
  <2> QED
    BY <1>1, <2>1, <2>3, <2>4, <2>5, AskBack
<1> QED
  BY <1>2, <1>3

LEMMA StampBack ==
    ASSUME BackInv, NEW e \in Events, StampEvent(e)
    PROVE  BackInv'
<1>1. /\ moment[e] = 0 /\ moment' = [moment EXCEPT ![e] = 1 + Cardinality(Stamped)]
      /\ UNCHANGED << admins, belongs, kept, reader >>
      /\ AuditTypeOK /\ MomentsOK
  BY DEF StampEvent, Stamped, BackInv
<1>2. Forever \in Nat /\ \A f \in Events : moment[f] \in Nat
  BY <1>1, AuditAssumption, FS_CardinalityType DEF Forever, AuditTypeOK
<1>3. /\ IsFiniteSet(Stamped) /\ Cardinality(Stamped) \in Nat
      /\ e \notin Stamped
      /\ Cardinality(Stamped \cup {e}) = Cardinality(Stamped) + 1
      /\ Cardinality(Stamped) + 1 <= Forever
  <2>1. Stamped \in SUBSET Events /\ Stamped \cup {e} \in SUBSET Events /\ e \notin Stamped
    BY <1>1 DEF Stamped
  <2>2. IsFiniteSet(Stamped) /\ Cardinality(Stamped) \in Nat
    BY <2>1, AuditAssumption, FS_Subset, FS_CardinalityType
  <2>3. Cardinality(Stamped \cup {e}) = Cardinality(Stamped) + 1
    BY <2>1, <2>2, FS_AddElement
  <2>4. Cardinality(Stamped \cup {e}) <= Forever
    BY <2>1, AuditAssumption, FS_Subset DEF Forever
  <2> QED
    BY <2>1, <2>2, <2>3, <2>4
<1>4. \A f \in Events : moment'[f] = IF f = e THEN 1 + Cardinality(Stamped) ELSE moment[f]
  BY <1>1 DEF AuditTypeOK
<1>5. Stamped' = Stamped \cup {e}
  BY <1>2, <1>3, <1>4 DEF Stamped
<1>6. AuditTypeOK'
  <2>1. moment' \in [Events -> 0..Forever]
    BY <1>1, <1>2, <1>3 DEF AuditTypeOK
  <2> QED
    BY <1>1, <2>1 DEF AuditTypeOK
<1>7. e \notin kept
  BY <1>1 DEF MomentsOK
<1>8. MomentsOK'
  <2>1. \A f \in kept' : moment'[f] > 0
    BY <1>1, <1>4, <1>7 DEF MomentsOK, AuditTypeOK
  <2>2. \A f \in Events : moment'[f] <= Cardinality(Stamped')
    BY <1>1, <1>2, <1>3, <1>4, <1>5 DEF MomentsOK
  <2>3. \A f, g \in Events : moment'[f] > 0 /\ moment'[f] = moment'[g] => f = g
    BY <1>1, <1>2, <1>3, <1>4 DEF MomentsOK
  <2> QED
    BY <2>1, <2>2, <2>3 DEF MomentsOK
<1>9. ASSUME NEW u \in Readers PROVE BackOK(u)' /\ RightOK(u)'
  <2>1. BackOK(u) /\ RightOK(u)
    BY DEF BackInv
  <2>2. /\ \A f \in kept : moment'[f] = moment[f]
        /\ reader' = reader /\ kept' = kept
    BY <1>1, <1>4, <1>7 DEF AuditTypeOK
  <2>3. Within(reader[u].scope)' = Within(reader[u].scope) /\ Within(reader[u].scope) \subseteq kept
    BY <2>2 DEF Within
  <2> QED
    BY <1>1, <2>1, <2>2, <2>3 DEF BackOK, RightOK
<1> QED
  BY <1>6, <1>8, <1>9 DEF BackInv

LEMMA BackInductive == BackInv /\ [AuditNext]_auditVars => BackInv'
<1> SUFFICES ASSUME BackInv, [AuditNext]_auditVars PROVE BackInv'
  OBVIOUS
<1> USE DEF BackInv
<1>1. CASE UNCHANGED auditVars
  BY <1>1 DEF auditVars, AuditTypeOK, MomentsOK, BackOK, RightOK, Stamped, Within
<1>2. ASSUME NEW u \in Readers, OpenTrail(u) PROVE BackInv'
  <2>1. PICK scope \in Scopes, limit \in EventLimits :
          Ask(u, scope, limit, Forever, {}, Within(scope))
    BY <1>2 DEF OpenTrail
  <2>2. /\ Forever \in Nat /\ \A e \in Within(scope) : moment[e] \in 0..Forever
        /\ UNCHANGED << admins, belongs, kept, moment >>
    BY <1>2, AuditAssumption, FS_CardinalityType DEF Forever, AuditTypeOK, Within, OpenTrail
  <2>3. Forever \in 0..Forever /\ \A e \in Within(scope) : ~ (moment[e] > Forever)
    BY <2>2
  <2>4. BackInv /\ limit \in EventLimits \cup {0}
    OBVIOUS
  <2> HIDE DEF BackInv
  <2> QED
    BY <2>1, <2>2, <2>3, <2>4, AskBack
<1>3. ASSUME NEW u \in Readers, Authorize(u) PROVE BackInv'
  <2>1. /\ reader[u].at = "asking" /\ UNCHANGED << admins, belongs, kept, moment >>
        /\ BackOK(u) /\ RightOK(u) /\ reader[u] \in ReaderRecords
    BY <1>3 DEF Authorize, AuditTypeOK, ReaderRecords
  <2>2. CASE Entitled(u, reader[u].scope)
    <3> DEFINE r == [reader[u] EXCEPT !.at = "allowed"]
    <3>1. r \in ReaderRecords
      BY <2>1 DEF ReaderRecords
    <3>2. /\ r.at = "allowed" /\ r.scope = reader[u].scope /\ r.page = reader[u].page
          /\ r.seen = reader[u].seen /\ r.due = reader[u].due /\ r.to = reader[u].to
          /\ r.right = reader[u].right
      BY <2>1 DEF ReaderRecords
    <3>3. reader' = [reader EXCEPT ![u] = r]
      BY <1>3, <2>2 DEF Authorize
    <3> HIDE DEF r
    <3>4. reader'[u] = r => BackOK(u)'
      BY <2>1, <3>2 DEF BackOK, Within
    <3>5. u \in admins \/ (reader[u].scope # Everything /\ reader[u].right)
      BY <2>1, <2>2, AuditAssumption DEF Entitled, RightOK, AuditTypeOK
    <3>6. reader'[u] = r => RightOK(u)'
      BY <2>1, <3>2, <3>5 DEF RightOK
    <3> QED
      BY <2>1, <3>1, <3>3, <3>4, <3>6, OneBack
  <2>3. CASE ~ Entitled(u, reader[u].scope)
    <3>1. reader' = [reader EXCEPT ![u] = Away]
      BY <1>3, <2>3 DEF Authorize
    <3>2. Away \in ReaderRecords
      BY AuditAssumption, FS_CardinalityType DEF Away, ReaderRecords, Scopes, Forever
    <3>3. reader'[u] = Away => BackOK(u)' /\ RightOK(u)'
      BY DEF Away, BackOK, RightOK
    <3> QED
      BY <2>1, <3>1, <3>2, <3>3, OneBack
  <2> QED
    BY <2>2, <2>3
<1>4. ASSUME NEW u \in Readers, Query(u) \/ GoBack(u) PROVE BackInv'
  BY <1>4, QueryBack, GoBackBack
<1>5. ASSUME NEW u \in Readers, NEW p \in Projects, Join(u, p) PROVE BackInv'
  <2> DEFINE still == reader[u].right \/ (reader[u].at = "asking" /\ reader[u].scope = p)
             r == [reader[u] EXCEPT !.right = still]
  <2>1. /\ BackOK(u) /\ RightOK(u) /\ reader[u] \in ReaderRecords
        /\ reader' = [reader EXCEPT ![u] = r]
        /\ belongs' = belongs \cup {<< u, p >>} /\ UNCHANGED << admins, kept, moment >>
    BY <1>5 DEF Join, AuditTypeOK, ReaderRecords
  <2>2. r \in ReaderRecords
    <3>1. still \in BOOLEAN
      OBVIOUS
    <3> HIDE DEF still
    <3> QED
      BY <2>1, <3>1 DEF ReaderRecords
  <2>3. /\ r.at = reader[u].at /\ r.scope = reader[u].scope /\ r.page = reader[u].page
        /\ r.seen = reader[u].seen /\ r.due = reader[u].due /\ r.to = reader[u].to
    BY <2>1 DEF ReaderRecords
  <2>10. /\ reader[u].right => r.right
         /\ reader[u].at = "asking" /\ reader[u].scope = p => r.right
    <3>1. r.right = still
      BY <2>1 DEF ReaderRecords
    <3> HIDE DEF r
    <3> QED
      BY <3>1
  <2> HIDE DEF r
  <2>4. AuditTypeOK'
    BY <2>1, <2>2 DEF AuditTypeOK, ReaderRecords
  <2>5. MomentsOK'
    BY <2>1 DEF MomentsOK, Stamped
  <2>6. \A v \in Readers \ {u} : reader'[v] = reader[v]
    BY <2>1 DEF AuditTypeOK
  <2>7. reader'[u] = r
    BY <2>1 DEF AuditTypeOK
  <2>8. BackOK(u)' /\ RightOK(u)'
    BY <2>1, <2>3, <2>7, <2>10 DEF BackOK, RightOK, Within
  <2>9. \A v \in Readers \ {u} : BackOK(v)' /\ RightOK(v)'
    BY <2>1, <2>6 DEF BackOK, RightOK, Within
  <2> QED
    BY <2>4, <2>5, <2>8, <2>9
<1>6. ASSUME NEW u \in Readers, NEW p \in Projects, Leave(u, p) PROVE BackInv'
  <2>1. AuditTypeOK'
    BY <1>6 DEF Leave, AuditTypeOK
  <2> QED
    BY <1>6, <2>1 DEF Leave, MomentsOK, BackOK, RightOK, Stamped, Within
<1>7. ASSUME NEW e \in Events, StoreEvent(e) PROVE BackInv'
  <2>1. moment[e] > 0 /\ kept' = kept \cup {e} /\ UNCHANGED << admins, belongs, moment, reader >>
    BY <1>7 DEF StoreEvent
  <2>2. AuditTypeOK' /\ MomentsOK'
    BY <2>1 DEF AuditTypeOK, MomentsOK, Stamped
  <2>3. \A u \in Readers : BackOK(u)' /\ RightOK(u)'
    BY <2>1 DEF BackOK, RightOK, Within
  <2> QED
    BY <2>2, <2>3
<1>8. ASSUME NEW e \in Events, StampEvent(e) PROVE BackInv'
  BY <1>8, StampBack
<1> QED
  BY <1>1, <1>2, <1>3, <1>4, <1>5, <1>6, <1>7, <1>8 DEF AuditNext

LEMMA BackInvariant == AuditSpec => []BackInv
BY BackBegins, BackInductive, PTL DEF AuditSpec

\* The events, their times and the readers' requests keep their types: a page
\* holds events only, and the time a reader goes back to is one an event may have
\* (access_audit_repo.go:149).
THEOREM AuditTypes == AuditSpec => []AuditTypeOK
<1>1. BackInv => AuditTypeOK
  BY DEF BackInv
<1> QED
  BY <1>1, BackInvariant, PTL

\* Whoever is sent an event of a project is an admin, or belonged to the project
\* at some moment of the request (audit/service.go:76).
THEOREM OutsidersSeeNothing == AuditSpec => []OutsidersSeeNoEvents
<1>1. BackInv => OutsidersSeeNoEvents
  BY DEF BackInv, RightOK, OutsidersSeeNoEvents
<1> QED
  BY <1>1, BackInvariant, PTL

\* A caller that goes back to the beginning of the log, asking each time for the
\* events up to the oldest it was sent, has met every event of its scope there was
\* when it began, for any number of readers and of events, each with a time of its
\* own, that are stored meanwhile in any order (access_audit_repo.go:149).
THEOREM TrailComplete == AuditSpec => []TrailMissesNothing
<1>1. BackInv => TrailMissesNothing
  BY DEF BackInv, BackOK, TrailMissesNothing
<1> QED
  BY <1>1, BackInvariant, PTL
=============================================================================
