-------------------------- MODULE SurroundingsProofs --------------------------
(***************************************************************************)
(* What the smaller modules around the core guarantee for any number of    *)
(* requests, addresses, terminals and secrets: the shutdown of a server,   *)
(* the rate limiter, the client's session file, the commands of the client *)
(* that are repeated after an answer was lost, and the values `ss run`     *)
(* hands on.  They share no state; each section has an inductive invariant *)
(* and theorems of its own.  The last one says that the parts, put side by *)
(* side in Surroundings, behave as each of them does alone.                *)
(***************************************************************************)
EXTENDS Surroundings, MigrationsProofs, PagingProofs

(* The server *)

\* How far the request of a rotation that is committed, of an event that is
\* stored and of an answer has come.
FarEnough ==
    \A r \in Requests :
        /\ r \in stored => at[r] \in {"committed", "logging", "logged"} \cup Ends
        /\ at[r] = "logging" /\ r \in Writers => r \in stored
        /\ at[r] \in {"logged", "answered"} =>
             r \in trail /\ (r \in Writers => r \in stored)
        /\ at[r] \in {"waiting", "locked", "committed"} => r \in Writers
        /\ at[r] = "committed" => r \in stored
        /\ at[r] = "refused" => r \notin stored
        /\ at[r] = "abandoned" => r \in gone
        /\ at[r] = "cut" => life = "killed"

\* Nothing is under way in a server that has stopped.
StoppedIsIdle == life = "stopped" => InFlight = {}

ServerInv == ServerTypeOK /\ FarEnough /\ StoppedIsIdle

LEMMA ServerInductive == ServerInv /\ [ServerNext]_serverVars => ServerInv'
<1> SUFFICES ASSUME ServerInv, [ServerNext]_serverVars PROVE ServerInv'
  OBVIOUS
<1> USE DEF ServerInv, ServerTypeOK, FarEnough, StoppedIsIdle, InFlight, Connected, Between,
     Ends, Lives
<1>1. CASE UNCHANGED serverVars
  BY <1>1 DEF serverVars
<1>2. ASSUME NEW r \in Requests, RequestStep(r) PROVE ServerInv'
  <2> USE DEF Step, Runs
  <2>1. CASE Check(r)
    BY <2>1 DEF Check
  <2>2. CASE Checked(r)
    BY <2>2 DEF Checked
  <2>3. CASE BeginTx(r)
    BY <2>3 DEF BeginTx
  <2>4. CASE LockRow(r)
    BY <2>4 DEF LockRow
  <2>5. CASE CommitTx(r)
    BY <2>5 DEF CommitTx
  <2>6. CASE Log(r)
    BY <2>6 DEF Log
  <2>7. CASE Logged(r)
    BY <2>7 DEF Logged
  <2>8. CASE Reply(r)
    BY <2>8 DEF Reply
  <2> QED
    BY <1>2, <2>1, <2>2, <2>3, <2>4, <2>5, <2>6, <2>7, <2>8 DEF RequestStep
<1>3. ASSUME NEW r \in Requests, Arrive(r) PROVE ServerInv'
  BY <1>3 DEF Arrive
<1>4. ASSUME NEW r \in Requests, Disconnect(r) PROVE ServerInv'
  BY <1>4 DEF Disconnect, Runs
<1>5. CASE Signal
  BY <1>5 DEF Signal
<1>6. CASE Stop
  BY <1>6 DEF Stop
<1>7. CASE Exit
  BY <1>7 DEF Exit, Runs
<1> QED
  BY <1>1, <1>2, <1>3, <1>4, <1>5, <1>6, <1>7 DEF ServerNext

LEMMA ServerInvariant == ServerSpec => []ServerInv
<1>1. ServerInit => ServerInv
  BY DEF ServerInit, ServerInv, ServerTypeOK, FarEnough, StoppedIsIdle, Lives, Ends
<1> QED
  BY <1>1, ServerInductive, PTL DEF ServerSpec

\* A server that stops in order leaves no rotation without its event and no
\* request without its answer, for any number of requests and any size of the
\* pool (main.go:169).
THEOREM StopsInOrder == ServerSpec => []StopLosesNothing
<1>1. ServerInv => StopLosesNothing
  BY ServerAssumption
  DEF ServerInv, ServerTypeOK, FarEnough, StoppedIsIdle, StopLosesNothing, InFlight,
     Connected, Between, Ends
<1> QED
  BY <1>1, ServerInvariant, PTL
-----------------------------------------------------------------------------
(* The rate limiter *)

\* A request that holds a limiter holds the one of its address, and the
\* address was last seen no longer ago than the request asked for it.
HeldIsCurrent ==
    \A a \in Attempts : held[a] # Nil =>
        /\ held[a] = limiter[client[a]]
        /\ idle[client[a]] <= stall[a]
        /\ verdict[a] = Nil

\* Two addresses do not share a limiter.
OwnLimiters ==
    \A k, l \in Keys : limiter[k] = limiter[l] => k = l \/ limiter[k] = Nil

\* A limiter is full, or has the tokens of the time since its last request
\* may have used it.
IdleFills ==
    \A k \in Keys : limiter[k] # Nil =>
        \/ bucket[limiter[k]] = Burst
        \/ bucket[limiter[k]] >= idle[k] - MaxStall

LimiterInv == LimiterTypeOK /\ HeldIsCurrent /\ OwnLimiters /\ IdleFills
-----------------------------------------------------------------------------
LEMMA InitLimiterInv == LimiterInit => LimiterInv
  <1> SUFFICES ASSUME LimiterInit PROVE LimiterInv
    OBVIOUS
  <1> USE LimiterAssumption
  <1>1. LimiterTypeOK
    <2>1. Burst \in 0..Burst /\ 0 \in 0..Idle + 1 /\ 0 \in 0..MaxStall
      OBVIOUS
    <2>2. (CHOOSE k \in Keys : TRUE) \in Keys
      OBVIOUS
    <2> QED
      BY <2>1, <2>2 DEF LimiterInit, LimiterTypeOK
  <1>2. HeldIsCurrent /\ OwnLimiters /\ IdleFills
    BY DEF LimiterInit, HeldIsCurrent, OwnLimiters, IdleFills
  <1> QED
    BY <1>1, <1>2 DEF LimiterInv

LEMMA GetInv ==
    ASSUME LimiterInv, NEW a \in Attempts, GetLimiter(a) PROVE LimiterInv'
  <1> USE LimiterAssumption
  <1>1. PICK k \in Keys :
          /\ client' = [client EXCEPT ![a] = k]
          /\ idle' = [idle EXCEPT ![k] = 0]
          /\ \/ /\ limiter[k] # Nil
                /\ held' = [held EXCEPT ![a] = limiter[k]]
                /\ UNCHANGED << limiter, bucket >>
             \/ /\ limiter[k] = Nil
                /\ \E g \in Limiters :
                      /\ Unused(g)
                      /\ limiter' = [limiter EXCEPT ![k] = g]
                      /\ bucket' = [bucket EXCEPT ![g] = Burst]
                      /\ held' = [held EXCEPT ![a] = g]
    BY DEF GetLimiter, ClientIP
  <1>2. /\ held[a] = Nil
        /\ stall' = [stall EXCEPT ![a] = 0]
        /\ verdict' = [verdict EXCEPT ![a] = Nil]
    BY DEF GetLimiter
  <1>3. CASE limiter[k] # Nil
    <2>1. held' = [held EXCEPT ![a] = limiter[k]] /\ UNCHANGED << limiter, bucket >>
      BY <1>1, <1>3
    <2>2. LimiterTypeOK'
      <3>1. 0 \in 0..Idle + 1 /\ 0 \in 0..MaxStall
        OBVIOUS
      <3> QED
        BY <1>1, <1>2, <2>1, <3>1 DEF LimiterInv, LimiterTypeOK
    <2>3. HeldIsCurrent'
      BY <1>1, <1>2, <1>3, <2>1 DEF LimiterInv, LimiterTypeOK, HeldIsCurrent
    <2>4. OwnLimiters' /\ IdleFills'
      BY <1>1, <2>1 DEF LimiterInv, LimiterTypeOK, OwnLimiters, IdleFills
    <2> QED
      BY <2>2, <2>3, <2>4 DEF LimiterInv
  <1>4. CASE limiter[k] = Nil
    <2>1. PICK g \in Limiters :
            /\ Unused(g)
            /\ limiter' = [limiter EXCEPT ![k] = g]
            /\ bucket' = [bucket EXCEPT ![g] = Burst]
            /\ held' = [held EXCEPT ![a] = g]
      BY <1>1, <1>4
    <2>2. LimiterTypeOK'
      <3>1. 0 \in 0..Idle + 1 /\ 0 \in 0..MaxStall /\ Burst \in 0..Burst
        OBVIOUS
      <3> QED
        BY <1>1, <1>2, <2>1, <3>1 DEF LimiterInv, LimiterTypeOK
    <2>3. HeldIsCurrent'
      BY <1>1, <1>2, <1>4, <2>1 DEF LimiterInv, LimiterTypeOK, HeldIsCurrent, Unused
    <2>4. OwnLimiters' /\ IdleFills'
      BY <1>1, <2>1 DEF LimiterInv, LimiterTypeOK, OwnLimiters, IdleFills, Unused
    <2> QED
      BY <2>2, <2>3, <2>4 DEF LimiterInv
  <1> QED
    BY <1>3, <1>4

LEMMA AllowInv ==
    ASSUME LimiterInv, NEW a \in Attempts, Allow(a) PROVE LimiterInv'
  <1> USE LimiterAssumption
  <1> DEFINE g == held[a]
             k == client[a]
  <1>1. /\ g # Nil /\ g \in Limiters /\ g = limiter[k] /\ k \in Keys
        /\ bucket[g] \in 0..Burst
        /\ idle[k] <= stall[a] /\ idle[k] \in Int /\ stall[a] \in 0..MaxStall
    BY DEF LimiterInv, LimiterTypeOK, HeldIsCurrent, Allow
  <1>2. /\ bucket' = [bucket EXCEPT ![g] = IF bucket[g] > 0 THEN bucket[g] - 1 ELSE 0]
        /\ held' = [held EXCEPT ![a] = Nil]
        /\ verdict' = [verdict EXCEPT ![a] = << k, IF bucket[g] > 0 THEN "pass" ELSE "429" >>]
        /\ stall' = [stall EXCEPT ![a] = 0]
        /\ UNCHANGED << limiter, idle, client >>
    BY DEF Allow
  <1>3. bucket'[g] \in 0..Burst
    BY <1>1, <1>2 DEF LimiterInv, LimiterTypeOK
  <1>4. LimiterTypeOK'
    <2>1. 0 \in 0..MaxStall
      OBVIOUS
    <2>3. verdict' \in [Attempts -> (Keys \X {"pass", "429"}) \cup {Nil}]
      <3>1. << k, "pass" >> \in Keys \X {"pass", "429"} /\ << k, "429" >> \in Keys \X {"pass", "429"}
        BY <1>1
      <3>2. CASE bucket[g] > 0
        <4>1. verdict' = [verdict EXCEPT ![a] = << k, "pass" >>]
          BY <1>2, <3>2
        <4> QED
          BY <3>1, <4>1 DEF LimiterInv, LimiterTypeOK
      <3>3. CASE ~(bucket[g] > 0)
        <4>1. verdict' = [verdict EXCEPT ![a] = << k, "429" >>]
          BY <1>2, <3>3
        <4> QED
          BY <3>1, <4>1 DEF LimiterInv, LimiterTypeOK
      <3> QED
        BY <3>2, <3>3
    <2>2. bucket' \in [Limiters -> 0..Burst]
      BY <1>1, <1>2, <1>3 DEF LimiterInv, LimiterTypeOK
    <2> QED
      BY <1>2, <2>1, <2>2, <2>3 DEF LimiterInv, LimiterTypeOK
  <1>5. HeldIsCurrent' /\ OwnLimiters'
    BY <1>2 DEF LimiterInv, LimiterTypeOK, HeldIsCurrent, OwnLimiters
  <1>6. IdleFills'
    <2>1. idle[k] - MaxStall <= 0
      BY <1>1
    <2>2. ASSUME NEW l \in Keys, limiter[l] # Nil
          PROVE  bucket'[limiter[l]] = Burst \/ bucket'[limiter[l]] >= idle[l] - MaxStall
      <3>1. CASE l = k
        BY <1>1, <1>3, <2>1, <3>1
      <3>2. CASE l # k
        BY <1>1, <1>2, <2>2, <3>2 DEF LimiterInv, OwnLimiters, IdleFills
      <3> QED
        BY <3>1, <3>2
    <2> QED
      BY <1>2, <2>2 DEF IdleFills
  <1> QED
    BY <1>4, <1>5, <1>6 DEF LimiterInv

\* What cleanup() forgets is full, and nobody holds it.
LEMMA StaleIsFull ==
    ASSUME LimiterInv, NEW k \in Keys, Stale(k)
    PROVE  /\ bucket[limiter[k]] = Burst
           /\ \A a \in Attempts : held[a] # Nil => client[a] # k
  <1> USE LimiterAssumption
  <1>1. idle[k] \in Int /\ idle[k] > Idle /\ bucket[limiter[k]] \in 0..Burst
    BY DEF LimiterInv, LimiterTypeOK, Stale
  <1>2. bucket[limiter[k]] = Burst
    BY <1>1 DEF LimiterInv, IdleFills, Stale
  <1>3. ASSUME NEW a \in Attempts, held[a] # Nil, client[a] = k PROVE FALSE
    <2>1. idle[k] <= stall[a] /\ stall[a] \in 0..MaxStall
      BY <1>3 DEF LimiterInv, LimiterTypeOK, HeldIsCurrent
    <2> QED
      BY <1>1, <2>1
  <1> QED
    BY <1>2, <1>3

LEMMA CleanupInv == ASSUME LimiterInv, Cleanup PROVE LimiterInv'
  <1>1. /\ limiter' = [k \in Keys |-> IF Stale(k) THEN Nil ELSE limiter[k]]
        /\ UNCHANGED << bucket, idle, client, held, stall, verdict >>
    BY DEF Cleanup
  <1>2. HeldIsCurrent'
    BY <1>1, StaleIsFull DEF LimiterInv, LimiterTypeOK, HeldIsCurrent
  <1> QED
    BY <1>1, <1>2 DEF LimiterInv, LimiterTypeOK, OwnLimiters, IdleFills

LEMMA TickInv == ASSUME LimiterInv, Tick PROVE LimiterInv'
  <1> USE LimiterAssumption
  <1>1. LimiterTypeOK'
    <2>1. bucket' \in [Limiters -> 0..Burst] /\ idle' \in [Keys -> 0..Idle + 1]
      BY DEF Tick, LimiterInv, LimiterTypeOK
    <2>2. stall' \in [Attempts -> 0..MaxStall]
      BY DEF Tick, LimiterInv, LimiterTypeOK
    <2> QED
      BY <2>1, <2>2 DEF Tick, LimiterInv, LimiterTypeOK
  <1>2. HeldIsCurrent'
    <2> SUFFICES ASSUME NEW a \in Attempts, held[a] # Nil
                 PROVE  /\ held[a] = limiter[client[a]]
                        /\ idle'[client[a]] <= stall'[a]
                        /\ verdict[a] = Nil
      BY DEF Tick, HeldIsCurrent
    <2>1. /\ idle[client[a]] <= stall[a] /\ client[a] \in Keys
          /\ idle[client[a]] \in Int /\ stall[a] \in Int
      BY DEF LimiterInv, LimiterTypeOK, HeldIsCurrent
    <2>2. idle'[client[a]] <= idle[client[a]] + 1 /\ stall'[a] = stall[a] + 1
      BY <2>1 DEF Tick, LimiterInv, LimiterTypeOK
    <2>3. idle'[client[a]] \in Int
      BY <1>1, <2>1 DEF LimiterTypeOK
    <2> QED
      BY <2>1, <2>2, <2>3 DEF LimiterInv, HeldIsCurrent
  <1>3. OwnLimiters'
    BY DEF Tick, LimiterInv, OwnLimiters
  <1>4. IdleFills'
    <2> SUFFICES ASSUME NEW k \in Keys, limiter[k] # Nil
                 PROVE  \/ bucket'[limiter[k]] = Burst
                        \/ bucket'[limiter[k]] >= idle'[k] - MaxStall
      BY DEF Tick, IdleFills
    <2>1. limiter[k] \in Limiters /\ bucket[limiter[k]] \in 0..Burst /\ idle[k] \in 0..Idle + 1
      BY DEF LimiterInv, LimiterTypeOK
    <2>2. /\ bucket'[limiter[k]] = IF bucket[limiter[k]] < Burst
                                   THEN bucket[limiter[k]] + 1 ELSE Burst
          /\ idle'[k] = IF idle[k] <= Idle THEN idle[k] + 1 ELSE Idle + 1
      BY <2>1 DEF Tick
    <2>3. \/ bucket[limiter[k]] = Burst
          \/ bucket[limiter[k]] >= idle[k] - MaxStall
      BY DEF LimiterInv, IdleFills
    <2> QED
      BY <2>1, <2>2, <2>3
  <1> QED
    BY <1>1, <1>2, <1>3, <1>4 DEF LimiterInv

LEMMA NextLimiterInv == LimiterInv /\ [LimiterNext]_limiterVars => LimiterInv'
  <1>1. LimiterInv /\ UNCHANGED limiterVars => LimiterInv'
    BY DEF limiterVars, LimiterInv, LimiterTypeOK, HeldIsCurrent, OwnLimiters, IdleFills
  <1> QED
    BY <1>1, GetInv, AllowInv, CleanupInv, TickInv DEF LimiterNext

\* The inductive invariant of the rate limiter.
LEMMA LimiterInvariant == LimiterSpec => []LimiterInv
  <1> QED
    BY InitLimiterInv, NextLimiterInv, PTL DEF LimiterSpec

\* The request a is between get() and Allow() with the limiter of its address.
HoldsItsOwn(a) == held[a] = limiter[client[a]]

\* What cleanup() may forget: a limiter that is full and that no request holds.
FreeToForget(k) == bucket[limiter[k]] = Burst /\ \A a \in Attempts : held[a] # limiter[k]

\* cleanup() looks at lastSeen only, neither at the tokens of a limiter nor at who
\* has it (ratelimit.go:79); yet, where no request stalls for longer than MaxStall,
\* it forgets only limiters that are full and in nobody's hands, so that whoever is
\* between get() and Allow() takes the token of the limiter others find in the map.
THEOREM OnlyFullAndFreeForgotten ==
    LimiterSpec => [](/\ \A a \in Attempts : held[a] # Nil => HoldsItsOwn(a)
                      /\ \A k \in Keys : Stale(k) => FreeToForget(k))
<1>1. LimiterInv => /\ \A a \in Attempts : held[a] # Nil => HoldsItsOwn(a)
                    /\ \A k \in Keys : Stale(k) => FreeToForget(k)
  <2> SUFFICES ASSUME LimiterInv
               PROVE  /\ \A a \in Attempts : held[a] # Nil => HoldsItsOwn(a)
                      /\ \A k \in Keys : Stale(k) => FreeToForget(k)
    OBVIOUS
  <2>1. \A a \in Attempts : held[a] # Nil => HoldsItsOwn(a)
    BY DEF LimiterInv, HeldIsCurrent, HoldsItsOwn
  <2>2. ASSUME NEW k \in Keys, Stale(k) PROVE FreeToForget(k)
    <3>1. bucket[limiter[k]] = Burst
      BY <2>2, StaleIsFull
    <3>2. ASSUME NEW a \in Attempts, held[a] = limiter[k] PROVE FALSE
      <4>1. held[a] # Nil /\ client[a] \in Keys
        BY <2>2, <3>2 DEF Stale, LimiterInv, LimiterTypeOK
      <4>2. limiter[client[a]] = limiter[k] /\ limiter[k] # Nil
        BY <2>1, <3>2, <4>1 DEF HoldsItsOwn
      <4>3. client[a] = k
        BY <4>1, <4>2 DEF LimiterInv, OwnLimiters
      <4> QED
        BY <2>2, <4>1, <4>3, StaleIsFull
    <3> QED
      BY <3>1, <3>2 DEF FreeToForget
  <2> QED
    BY <2>1, <2>2
<1> QED
  BY <1>1, LimiterInvariant, PTL
-----------------------------------------------------------------------------
(* The buckets that are never forgotten *)

\* A new limiter is as full as the bucket of an address nobody saw for long.
LEMMA GetAsks ==
    ASSUME LimiterInv, NEW a \in Attempts, GetLimiter(a)
    PROVE  Buckets!Ask(a)
  <1>1. verdict' = [verdict EXCEPT ![a] = Nil]
    BY DEF GetLimiter
  <1>2. Level' = Level
    <2>1. PICK k \in Keys :
            \/ UNCHANGED << limiter, bucket >>
            \/ /\ limiter[k] = Nil
               /\ \E g \in Limiters : /\ Unused(g)
                                      /\ limiter' = [limiter EXCEPT ![k] = g]
                                      /\ bucket' = [bucket EXCEPT ![g] = Burst]
      BY DEF GetLimiter, ClientIP
    <2>2. CASE UNCHANGED << limiter, bucket >>
      BY <2>2 DEF Level
    <2>3. ASSUME NEW g \in Limiters, limiter[k] = Nil, Unused(g),
                 limiter' = [limiter EXCEPT ![k] = g], bucket' = [bucket EXCEPT ![g] = Burst]
          PROVE  Level' = Level
      <3>1. \A l \in Keys : limiter[l] # g /\ limiter[l] \in Limiters \cup {Nil}
        BY <2>3 DEF Unused, LimiterInv, LimiterTypeOK
      <3>2. \A l \in Keys : (IF limiter'[l] = Nil THEN Burst ELSE bucket'[limiter'[l]])
                          = (IF limiter[l] = Nil THEN Burst ELSE bucket[limiter[l]])
        BY <2>3, <3>1, LimiterAssumption DEF LimiterInv, LimiterTypeOK
      <3> QED
        BY <3>2 DEF Level
    <2> QED
      BY <2>1, <2>2, <2>3
  <1> QED
    BY <1>1, <1>2 DEF Buckets!Ask

LEMMA AllowDecides ==
    ASSUME LimiterInv, NEW a \in Attempts, Allow(a)
    PROVE  \E k \in Keys : Buckets!Pass(a, k) \/ Buckets!TurnAway(a, k)
  <1> DEFINE g == held[a]
             k == client[a]
  <1>1. /\ g # Nil /\ g \in Limiters /\ g = limiter[k] /\ k \in Keys
        /\ bucket[g] \in 0..Burst /\ verdict[a] = Nil
    BY DEF LimiterInv, LimiterTypeOK, HeldIsCurrent, Allow
  <1>2. /\ bucket' = [bucket EXCEPT ![g] = IF bucket[g] > 0 THEN bucket[g] - 1 ELSE 0]
        /\ verdict' = [verdict EXCEPT ![a] = << k, IF bucket[g] > 0 THEN "pass" ELSE "429" >>]
        /\ UNCHANGED limiter
    BY DEF Allow
  <1>3. Level[k] = bucket[g]
    BY <1>1 DEF Level
  <1>4. \A l \in Keys : l # k => limiter[l] # g \/ limiter[l] = Nil
    BY <1>1 DEF LimiterInv, OwnLimiters
  <1>5. CASE bucket[g] > 0
    <2>1. Level' = [Level EXCEPT ![k] = Level[k] - 1]
      <3>1. \A l \in Keys : (IF limiter'[l] = Nil THEN Burst ELSE bucket'[limiter'[l]])
                 = IF l = k THEN bucket[g] - 1
                   ELSE IF limiter[l] = Nil THEN Burst ELSE bucket[limiter[l]]
        BY <1>1, <1>2, <1>4, <1>5 DEF LimiterInv, LimiterTypeOK
      <3> QED
        BY <1>1, <1>3, <3>1 DEF Level
    <2>2. Buckets!Pass(a, k)
      BY <1>1, <1>2, <1>3, <1>5, <2>1 DEF Buckets!Pass
    <2> QED
      BY <1>1, <2>2
  <1>6. CASE ~(bucket[g] > 0)
    <2>1. bucket[g] = 0
      BY <1>1, <1>6
    <2>2. bucket' = bucket /\ Level' = Level
      <3>1. bucket' = bucket
        BY <1>2, <2>1 DEF LimiterInv, LimiterTypeOK
      <3> QED
        BY <1>2, <3>1 DEF Level
    <2>3. Buckets!TurnAway(a, k)
      <3>1. verdict' = [verdict EXCEPT ![a] = << k, "429" >>]
        BY <1>2, <1>6
      <3> QED
        BY <1>1, <1>3, <2>1, <2>2, <3>1 DEF Buckets!TurnAway
    <2> QED
      BY <1>1, <2>3
  <1> QED
    BY <1>5, <1>6

LEMMA CleanupChangesNothing ==
    ASSUME LimiterInv, Cleanup PROVE UNCHANGED << Level, verdict >>
  <1>1. /\ limiter' = [k \in Keys |-> IF Stale(k) THEN Nil ELSE limiter[k]]
        /\ UNCHANGED << bucket, verdict >>
    BY DEF Cleanup
  <1>2. \A k \in Keys : (IF limiter'[k] = Nil THEN Burst ELSE bucket[limiter'[k]])
                      = (IF limiter[k] = Nil THEN Burst ELSE bucket[limiter[k]])
    BY <1>1, StaleIsFull
  <1> QED
    BY <1>1, <1>2 DEF Level

LEMMA TickRefills == ASSUME LimiterInv, Tick PROVE Buckets!Refill
  <1>1. /\ bucket' = [g \in Limiters |-> IF bucket[g] < Burst THEN bucket[g] + 1 ELSE Burst]
        /\ UNCHANGED << limiter, verdict >>
    BY DEF Tick
  <1>2. \A k \in Keys : limiter[k] # Nil => limiter[k] \in Limiters
    BY DEF LimiterInv, LimiterTypeOK
  <1>3. Level' = [k \in Keys |-> IF Level[k] < Burst THEN Level[k] + 1 ELSE Burst]
    BY <1>1, <1>2, LimiterAssumption DEF Level
  <1> QED
    BY <1>1, <1>3 DEF Buckets!Refill

\* What cleanup() forgets changes no decision: the middleware implements one
\* bucket for each address that lasts for ever.
THEOREM LimiterRefinesBuckets == LimiterSpec => NothingGainedByEviction
  <1>1. LimiterInit => Buckets!BucketInit
    BY DEF LimiterInit, Buckets!BucketInit, Level
  <1>2. LimiterInv /\ [LimiterNext]_limiterVars => [Buckets!BucketNext]_<< Level, verdict >>
    <2> SUFFICES ASSUME LimiterInv, [LimiterNext]_limiterVars
                 PROVE  Buckets!BucketNext \/ UNCHANGED << Level, verdict >>
      OBVIOUS
    <2>1. CASE UNCHANGED limiterVars
      BY <2>1 DEF limiterVars, Level
    <2> QED
      BY <2>1, GetAsks, AllowDecides, CleanupChangesNothing, TickRefills
         DEF LimiterNext, Buckets!BucketNext
  <1> QED
    BY <1>1, <1>2, LimiterInvariant, PTL
       DEF LimiterSpec, NothingGainedByEviction, Buckets!BucketSpec, Buckets!bucketVars
-----------------------------------------------------------------------------
(* The session of the client *)

SessionCommands == [ at : {"prompt", "register", "token", "open", "request"}, host : Hosts,
                     fd : Inodes \cup {NoFile}, opened : 0..MaxLogouts,
                     loaded : Contents, left : 0..MaxLogouts ]

\* A session that was written, or read, names the server its token is for.
FileOK(i) == content[i] \in Contents /\ content[i].token = content[i].base

\* The file that session.json names was opened after the last logout that found
\* one, by every command that has it open and by the one that wrote it.
CommandOK(t) ==
    /\ terminal[t] \in SessionCommands
    /\ terminal[t].at = "open" => terminal[t].fd \in Inodes
    /\ terminal[t].at = "open" /\ terminal[t].fd = path => terminal[t].opened = logouts
    /\ terminal[t].loaded.token = terminal[t].loaded.base
    /\ terminal[t].at = "request" => terminal[t].loaded.opened = terminal[t].left

SessionInv ==
    /\ path \in Inodes \cup {NoFile}
    /\ logouts \in 0..MaxLogouts
    /\ content = [i \in Inodes |-> content[i]]
    /\ terminal = [t \in Terminals |-> terminal[t]]
    /\ \A i \in Inodes : FileOK(i)
    /\ \A t \in Terminals : CommandOK(t)
    /\ path # NoFile /\ content[path].token # NoHost => content[path].opened = logouts

LEMMA EmptyAndReady ==
    /\ Empty \in Contents /\ Empty.token = NoHost /\ Empty.base = NoHost
    /\ Ready \in SessionCommands
    /\ Ready.at = "prompt" /\ Ready.loaded = Empty
<1>1. 0 \in 0..MaxLogouts
  BY SessionAssumption
<1>2. Empty \in Contents /\ Empty.token = NoHost /\ Empty.base = NoHost
  BY <1>1 DEF Empty, Contents
<1>3. Ready \in SessionCommands
  BY <1>1, <1>2, SessionAssumption DEF Ready, SessionCommands
<1> QED
  BY <1>2, <1>3 DEF Ready

LEMMA SessionBegins == SessionInit => SessionInv
<1> SUFFICES ASSUME SessionInit PROVE SessionInv
  OBVIOUS
<1>1. \A i \in Inodes : content[i] = Empty
  BY DEF SessionInit
<1>2. \A t \in Terminals : terminal[t] = Ready
  BY DEF SessionInit
<1> QED
  BY <1>1, <1>2, EmptyAndReady, SessionAssumption DEF SessionInit, SessionInv, FileOK, CommandOK

\* A step of one command leaves the others as they are.
LEMMA OneCommand ==
    ASSUME SessionInv, NEW t \in Terminals, NEW c,
           terminal' = [terminal EXCEPT ![t] = c],
           \A u \in Terminals \ {t} : CommandOK(u)',
           terminal'[t] = c => CommandOK(t)'
    PROVE  /\ terminal' = [u \in Terminals |-> terminal'[u]]
           /\ \A u \in Terminals : CommandOK(u)'
BY DEF SessionInv

\* Nothing but the command itself changes.
LEMMA FilesUntouched ==
    ASSUME SessionInv, NEW t \in Terminals, NEW c \in SessionCommands,
           terminal' = [terminal EXCEPT ![t] = c],
           UNCHANGED << path, content, logouts >>,
           c.at # "open", c.loaded.token = c.loaded.base,
           c.at = "request" => c.loaded.opened = c.left
    PROVE  SessionInv'
<1>1. \A u \in Terminals \ {t} : terminal'[u] = terminal[u]
  BY DEF SessionInv
<1>2. \A u \in Terminals \ {t} : CommandOK(u)'
  BY <1>1 DEF SessionInv, CommandOK
<1>3. terminal'[t] = c => CommandOK(t)'
  BY DEF CommandOK
<1> QED
  BY <1>2, <1>3, OneCommand DEF SessionInv, FileOK

LEMMA SessionInductive == SessionInv /\ [SessionNext]_sessionVars => SessionInv'
<1> SUFFICES ASSUME SessionInv, [SessionNext]_sessionVars PROVE SessionInv'
  OBVIOUS
<1>1. CASE UNCHANGED sessionVars
  BY <1>1 DEF sessionVars, SessionInv, FileOK, CommandOK
<1>2. ASSUME NEW t \in Terminals, LoginCommand(t) \/ RegisterCommand(t) \/ AutoLogin(t)
      PROVE  SessionInv'
  <2>1. PICK c \in SessionCommands :
          /\ terminal' = [terminal EXCEPT ![t] = c]
          /\ c.at \in {"token", "register"} /\ c.loaded = terminal[t].loaded
    <3>1. CASE AutoLogin(t)
      <4> DEFINE c == [terminal[t] EXCEPT !.at = "token"]
      <4>1. c \in SessionCommands /\ c.at = "token" /\ c.loaded = terminal[t].loaded
        BY DEF SessionInv, CommandOK, SessionCommands
      <4>2. terminal' = [terminal EXCEPT ![t] = c]
        BY <3>1 DEF AutoLogin
      <4> QED
        BY <4>1, <4>2
    <3>2. CASE LoginCommand(t) \/ RegisterCommand(t)
      <4>1. PICK h \in Hosts, a \in {"token", "register"} :
              terminal' = [terminal EXCEPT ![t].at = a, ![t].host = h]
        BY <3>2 DEF LoginCommand, RegisterCommand
      <4> DEFINE c == [terminal[t] EXCEPT !.at = a, !.host = h]
      <4>2. c \in SessionCommands /\ c.at = a /\ c.loaded = terminal[t].loaded
        BY DEF SessionInv, CommandOK, SessionCommands
      <4>3. terminal' = [terminal EXCEPT ![t] = c]
        BY <4>1
      <4> QED
        BY <4>2, <4>3
    <3> QED
      BY <1>2, <3>1, <3>2
  <2>2. UNCHANGED << path, content, logouts >>
    BY <1>2 DEF LoginCommand, RegisterCommand, AutoLogin
  <2> QED
    BY <2>1, <2>2, FilesUntouched DEF SessionInv, CommandOK
<1>3. ASSUME NEW t \in Terminals, OpenSession(t) PROVE SessionInv'
  <2>1. PICK i \in Inodes :
          /\ path = NoFile \/ i = path
          /\ path = NoFile => \A u \in Terminals : terminal[u].fd # i
          /\ path' = i
          /\ content' = [content EXCEPT ![i] = Empty]
          /\ terminal' = [terminal EXCEPT ![t].at = "open", ![t].fd = i, ![t].opened = logouts]
          /\ logouts' = logouts
    BY <1>3 DEF OpenSession, Unlinked
  <2> DEFINE c == [terminal[t] EXCEPT !.at = "open", !.fd = i, !.opened = logouts]
  <2>2. /\ c \in SessionCommands /\ c.at = "open" /\ c.fd = i /\ c.opened = logouts
        /\ c.loaded = terminal[t].loaded
    BY DEF SessionInv, CommandOK, SessionCommands
  <2>3. terminal' = [terminal EXCEPT ![t] = c]
    BY <2>1
  <2>4. \A u \in Terminals \ {t} : CommandOK(u)'
    <3>1. \A u \in Terminals \ {t} : terminal'[u] = terminal[u]
      BY <2>3 DEF SessionInv
    <3> QED
      BY <2>1, <3>1, SessionAssumption DEF SessionInv, CommandOK
  <2>5. terminal'[t] = c => CommandOK(t)'
    BY <2>1, <2>2 DEF SessionInv, CommandOK
  <2>6. /\ content' = [k \in Inodes |-> content'[k]]
        /\ content'[i] = Empty /\ \A k \in Inodes : FileOK(k)'
    BY <2>1, EmptyAndReady DEF SessionInv, FileOK
  <2> HIDE DEF c
  <2> QED
    BY <2>1, <2>3, <2>4, <2>5, <2>6, OneCommand, EmptyAndReady DEF SessionInv
<1>4. ASSUME NEW t \in Terminals, WriteSession(t) PROVE SessionInv'
  <2> DEFINE i == terminal[t].fd
             h == terminal[t].host
             new == [ token |-> h, base |-> h,
                      length |-> Longer(Width[h], content[i].length),
                      opened |-> terminal[t].opened ]
  <2>1. /\ i \in Inodes /\ h \in Hosts /\ terminal[t].opened \in 0..MaxLogouts
        /\ i = path => terminal[t].opened = logouts
    BY <1>4 DEF WriteSession, SessionInv, CommandOK, SessionCommands
  <2>2. new \in Contents /\ new.token = new.base /\ new.opened = terminal[t].opened
    <3>1. content[i].length \in {0} \cup {Width[g] : g \in Hosts}
      BY <2>1 DEF SessionInv, FileOK, Contents
    <3>2. Longer(Width[h], content[i].length) \in {0} \cup {Width[g] : g \in Hosts}
      BY <2>1, <3>1 DEF Longer
    <3> QED
      BY <2>1, <3>2 DEF Contents
  <2>3. /\ content' = [content EXCEPT ![i] = new]
        /\ terminal' = [terminal EXCEPT ![t] = Ready]
        /\ UNCHANGED << path, logouts >>
    BY <1>4 DEF WriteSession
  <2> HIDE DEF i, h, new
  <2>4. /\ content' = [k \in Inodes |-> content'[k]]
        /\ content'[i] = new /\ \A k \in Inodes \ {i} : content'[k] = content[k]
    BY <2>1, <2>3 DEF SessionInv
  <2>5. \A k \in Inodes : FileOK(k)'
    BY <2>2, <2>4 DEF SessionInv, FileOK
  <2>6. \A u \in Terminals \ {t} : CommandOK(u)'
    BY <2>3 DEF SessionInv, CommandOK
  <2>7. terminal'[t] = Ready => CommandOK(t)'
    BY EmptyAndReady DEF CommandOK
  <2>8. path' # NoFile /\ content'[path'].token # NoHost => content'[path'].opened = logouts'
    BY <2>1, <2>2, <2>3, <2>4 DEF SessionInv
  <2> QED
    BY <2>3, <2>4, <2>5, <2>6, <2>7, <2>8, OneCommand DEF SessionInv
<1>5. ASSUME NEW t \in Terminals, Interrupt(t) \/ SendToken(t) PROVE SessionInv'
  BY <1>5, EmptyAndReady, FilesUntouched DEF Interrupt, SendToken
<1>6. ASSUME NEW t \in Terminals, LogoutCommand(t) PROVE SessionInv'
  <2>1. /\ path' = NoFile /\ logouts' \in 0..MaxLogouts
        /\ UNCHANGED << content, terminal >>
    BY <1>6, SessionAssumption DEF LogoutCommand, SessionInv
  <2>2. \A u \in Terminals : CommandOK(u)'
    BY <2>1, SessionAssumption DEF SessionInv, CommandOK
  <2> QED
    BY <2>1, <2>2 DEF SessionInv, FileOK
<1>7. ASSUME NEW t \in Terminals, LoadSession(t) PROVE SessionInv'
  <2> DEFINE c == [terminal[t] EXCEPT !.at = "request", !.loaded = content[path],
                                      !.left = logouts]
  <2>1. path \in Inodes /\ content[path].token # NoHost
    BY <1>7 DEF LoadSession, Parses, SessionInv
  <2>2. /\ c \in SessionCommands /\ c.at = "request" /\ c.loaded = content[path]
        /\ c.left = logouts
    BY <2>1 DEF SessionInv, FileOK, CommandOK, SessionCommands
  <2>3. terminal' = [terminal EXCEPT ![t] = c] /\ UNCHANGED << path, content, logouts >>
    BY <1>7 DEF LoadSession
  <2> HIDE DEF c
  <2>4. c.loaded.token = c.loaded.base /\ c.loaded.opened = c.left
    BY <2>1, <2>2, SessionAssumption DEF SessionInv, FileOK
  <2> QED
    BY <2>2, <2>3, <2>4, FilesUntouched
<1> QED
  BY <1>1, <1>2, <1>3, <1>4, <1>5, <1>6, <1>7 DEF SessionNext

LEMMA SessionInvariant == SessionSpec => []SessionInv
BY SessionBegins, SessionInductive, PTL DEF SessionSpec

\* However many commands open, write, read and remove the file in each other's
\* way, a token goes to the server that issued it, and no session that was
\* logged out comes back (session.go:36, 63).
THEOREM SessionsSound == SessionSpec => []SessionsAreSound
<1>1. SessionInv => SessionsAreSound
  BY DEF SessionInv, CommandOK, SessionsAreSound, TokenGoesHome, LogoutSticks
<1> QED
  BY <1>1, SessionInvariant, PTL
-----------------------------------------------------------------------------
(* Commands that are sent again *)

Calls == {"read", "register", "project", "member", "create", "revoke", "rotate",
          "rollback", "grant"}

\* What a shell knows and what has become of its requests: they are sent one
\* after the other and all ask for the same; the newest one is heard while
\* somebody waits for it; a request that was answered with a success or a
\* conflict leaves behind what it asked for.
ShellOK(t) ==
    /\ shell[t].tries \in 0..MaxTries[t]
    /\ shell[t].at = "prompt" => shell[t].tries = 0
    /\ shell[t].tries > 0 => shell[t].call \in Calls /\ shell[t].ok = Status(shell[t].call)
    /\ \A i \in 1..MaxTries[t] : attempt[t][i] = NotSent <=> i > shell[t].tries
    /\ \A i \in 1..MaxTries[t] :
          /\ attempt[t][i] \in {200, 201, 204} => attempt[t][i] = Status(shell[t].call)
          /\ attempt[t][i] \in {200, 201, 204, 409} => Present(shell[t].call)
    /\ shell[t].at = "waiting" => attempt[t][shell[t].tries] # Unheard
    /\ shell[t].at = "done" => attempt[t][shell[t].tries] = shell[t].ok
    /\ shell[t].at = "failed" => attempt[t][shell[t].tries] >= 400
    /\ shell[t].at # "prompt" => shell[t].tries > 0

\* The rows there are, and how many requests account for them.
StoreOK ==
    /\ \A n \in {store.users, store.members, store.secrets, store.grants} : n <= 1
    /\ store.secrets = 0 => store.versions = 0
    /\ store.secrets = 1 => store.versions >= 1
    /\ store.projects <= Cardinality(Handled("project"))
    /\ store.versions <= 1 + Cardinality(Handled("rotate"))

LineInv == LineTypeOK /\ StoreOK /\ \A t \in Shells : ShellOK(t)

Slots == UNION {{t} \X (1..MaxTries[t]) : t \in Shells}

LEMMA SlotsFinite == IsFiniteSet(Slots)
<1> DEFINE S == {{t} \X (1..MaxTries[t]) : t \in Shells}
           f == [t \in Shells |-> {t} \X (1..MaxTries[t])]
<1>1. f \in Surjection(Shells, S)
  BY DEF Surjection
<1>2. IsFiniteSet(S)
  BY <1>1, FS_Surjection, CommandLineAssumption
<1>3. ASSUME NEW t \in Shells PROVE IsFiniteSet({t} \X (1..MaxTries[t]))
  <2>1. IsFiniteSet(1..MaxTries[t])
    BY FS_Interval, CommandLineAssumption
  <2> QED
    BY <2>1, FS_Singleton, FS_Product
<1> QED
  BY <1>2, <1>3, FS_UNION DEF Slots

HandledSlots(call) ==
    {x \in Slots : shell[x[1]].call = call /\ attempt[x[1]][x[2]] \notin {NotSent, Sent}}

\* The requests that were dealt with, as a subset of a finite set, in a state
\* and in the next one.
LEMMA HandledIs ==
    ASSUME NEW call
    PROVE  /\ Handled(call) = HandledSlots(call) /\ Handled(call)' = HandledSlots(call)'
           /\ IsFiniteSet(Handled(call)) /\ IsFiniteSet(Handled(call)')
           /\ Cardinality(Handled(call)) \in Nat /\ Cardinality(Handled(call)') \in Nat
<1>1. Handled(call) = HandledSlots(call) /\ Handled(call)' = HandledSlots(call)'
  BY DEF Handled, HandledSlots, Slots
<1>2. Handled(call) \in SUBSET Slots /\ Handled(call)' \in SUBSET Slots
  BY <1>1 DEF HandledSlots
<1> QED
  BY <1>1, <1>2, SlotsFinite, FS_Subset, FS_CardinalityType

\* No step makes a request undone.
LEMMA HandledGrows ==
    ASSUME NEW call,
           \A t \in Shells : \A i \in 1..MaxTries[t] :
              /\ shell[t].call = call /\ attempt[t][i] \notin {NotSent, Sent}
              => shell[t].call' = call /\ attempt[t][i]' \notin {NotSent, Sent}
    PROVE  Cardinality(Handled(call)) <= Cardinality(Handled(call))'
<1>1. \A x \in Slots : x[1] \in Shells /\ x[2] \in 1..MaxTries[x[1]]
  BY DEF Slots
<1>2. Handled(call) \in SUBSET Handled(call)'
  BY <1>1, HandledIs DEF HandledSlots
<1> QED
  BY <1>2, HandledIs, FS_Subset

\* A request that is dealt with counts as one more.
LEMMA HandledOneMore ==
    ASSUME NEW u \in Shells, NEW j \in 1..MaxTries[u],
           UNCHANGED shell, attempt[u][j] = Sent, attempt[u][j]' \notin {NotSent, Sent},
           \A t \in Shells : \A i \in 1..MaxTries[t] :
              attempt[t][i] \notin {NotSent, Sent} => attempt[t][i]' = attempt[t][i]
    PROVE  Cardinality(Handled(shell[u].call)) + 1 <= Cardinality(Handled(shell[u].call))'
<1> DEFINE call == shell[u].call
           more == Handled(call) \cup {<< u, j >>}
<1>1. \A x \in Slots : x[1] \in Shells /\ x[2] \in 1..MaxTries[x[1]]
  BY DEF Slots
<1>2. << u, j >> \in Slots
  BY DEF Slots
<1>3. << u, j >> \notin Handled(call)
  BY HandledIs DEF HandledSlots
<1>4. more \in SUBSET Handled(call)'
  BY <1>1, <1>2, HandledIs DEF HandledSlots
<1>5. Cardinality(more) = Cardinality(Handled(call)) + 1
  BY <1>3, HandledIs, FS_AddElement
<1> QED
  BY <1>4, <1>5, HandledIs, FS_Subset

\* A shell and its requests stay as they are, and nothing is removed from the store.
LEMMA ShellKept ==
    ASSUME NEW t \in Shells, ShellOK(t), shell'[t] = shell[t], attempt'[t] = attempt[t],
           \A call : Present(call) => Present(call)'
    PROVE  ShellOK(t)'
BY DEF ShellOK, Status

Stores == [ users : Nat, projects : Nat, members : Nat, secrets : Nat, grants : Nat,
            versions : Nat, revoked : BOOLEAN ]

\* The rows after a request that takes effect.
Sound(call) ==
    /\ store'.users <= 1 /\ store'.members <= 1 /\ store'.secrets <= 1 /\ store'.grants <= 1
    /\ store'.secrets = 0 => store'.versions = 0
    /\ store'.secrets = 1 => store'.versions >= 1
    /\ store'.projects <= store.projects + (IF call = "project" THEN 1 ELSE 0)
    /\ \/ store'.versions <= store.versions + (IF call = "rotate" THEN 1 ELSE 0)
       \/ store'.versions = 1

\* What a request that takes effect does to the store.
LEMMA Performs ==
    ASSUME LineTypeOK, StoreOK, NEW call \in Calls, ~ Taken(call), ~ Missing(call),
           store' = Effect(call)
    PROVE  /\ store' \in Stores
           /\ Present(call)'
           /\ \A c : Present(c) => Present(c)'
           /\ Sound(call)
<1> DEFINE Kept == /\ store.users = 1 => store'.users = 1
                   /\ store.projects > 0 => store'.projects > 0
                   /\ store.members = 1 => store'.members = 1
                   /\ store.secrets = 1 => store'.secrets = 1
                   /\ store.revoked => store'.revoked
                   /\ store.versions > 1 => store'.versions > 1
                   /\ store.grants = 1 => store'.grants = 1
<1> USE DEF Stores, Sound
<1>1. /\ store \in Stores
      /\ store.users <= 1 /\ store.members <= 1 /\ store.secrets <= 1 /\ store.grants <= 1
      /\ store.secrets = 0 => store.versions = 0
      /\ store.secrets = 1 => store.versions >= 1
  BY DEF LineTypeOK, StoreOK
<1>2. Kept => \A c : Present(c) => Present(c)'
  BY DEF Present
<1>3. CASE call \in {"read", "rollback"}
  <2>1. store' = store
    BY <1>1, <1>3 DEF Effect, Taken, Missing
  <2>2. Present(call)'
    BY <1>1, <1>3, <2>1 DEF Present
  <2>3. Kept
    BY <1>1, <2>1
  <2>4. store' \in Stores
    BY <1>1, <2>1
  <2>5. Sound(call)
    BY <1>1, <1>3, <2>1
  <2> QED
    BY <1>2, <2>2, <2>3, <2>4, <2>5
<1>4. CASE call = "register"
  <2>1. store.users = 0 /\ store' = [store EXCEPT !.users = 1]
    BY <1>1, <1>4 DEF Effect, Taken, Missing
  <2>2. Present(call)'
    BY <1>1, <1>4, <2>1 DEF Present
  <2>3. Kept
    BY <1>1, <2>1
  <2>4. store' \in Stores
    BY <1>1, <2>1
  <2>5. Sound(call)
    BY <1>1, <1>4, <2>1
  <2> QED
    BY <1>2, <2>2, <2>3, <2>4, <2>5
<1>5. CASE call = "project"
  <2>1. store' = [store EXCEPT !.projects = @ + 1]
    BY <1>1, <1>5 DEF Effect, Taken, Missing
  <2>2. Present(call)'
    BY <1>1, <1>5, <2>1 DEF Present
  <2>3. Kept
    BY <1>1, <2>1
  <2>4. store' \in Stores
    BY <1>1, <2>1
  <2>5. Sound(call)
    BY <1>1, <1>5, <2>1
  <2> QED
    BY <1>2, <2>2, <2>3, <2>4, <2>5
<1>6. CASE call = "member"
  <2>1. store' = [store EXCEPT !.members = 1]
    BY <1>1, <1>6 DEF Effect, Taken, Missing
  <2>2. Present(call)'
    BY <1>1, <1>6, <2>1 DEF Present
  <2>3. Kept
    BY <1>1, <2>1
  <2>4. store' \in Stores
    BY <1>1, <2>1
  <2>5. Sound(call)
    BY <1>1, <1>6, <2>1
  <2> QED
    BY <1>2, <2>2, <2>3, <2>4, <2>5
<1>7. CASE call = "create"
  <2>0. store.secrets = 0
    BY <1>1, <1>7 DEF Taken
  <2> DEFINE first == [store EXCEPT !.secrets = 1]
  <2>1. first = [ users |-> store.users, projects |-> store.projects,
                  members |-> store.members, secrets |-> 1, grants |-> store.grants,
                  versions |-> store.versions, revoked |-> store.revoked ]
    BY <1>1
  <2>2. store' = [first EXCEPT !.versions = 1]
    BY <1>7, <2>0 DEF Effect
  <2> HIDE DEF first
  <2>3. store' = [ users |-> store.users, projects |-> store.projects,
                   members |-> store.members, secrets |-> 1, grants |-> store.grants,
                   versions |-> 1, revoked |-> store.revoked ]
    BY <2>1, <2>2
  <2>4. Present(call)'
    BY <1>7, <2>3 DEF Present
  <2>5. Kept
    BY <1>1, <2>3, <2>0
  <2>6. store' \in Stores
    BY <1>1, <2>3
  <2>7. Sound(call)
    BY <1>1, <1>7, <2>3
  <2> QED
    BY <1>2, <2>4, <2>5, <2>6, <2>7
<1>8. CASE call = "revoke"
  <2>0. store' = [store EXCEPT !.revoked = TRUE]
    BY <1>8 DEF Effect
  <2>1. store' = [ users |-> store.users, projects |-> store.projects,
                   members |-> store.members, secrets |-> store.secrets,
                   grants |-> store.grants, versions |-> store.versions, revoked |-> TRUE ]
    BY <1>1, <2>0
  <2>2. Present(call)'
    BY <1>8, <2>1 DEF Present
  <2>3. Kept
    BY <2>1
  <2>4. store' \in Stores
    BY <1>1, <2>1
  <2>5. Sound(call)
    BY <1>1, <1>8, <2>1
  <2> QED
    BY <1>2, <2>2, <2>3, <2>4, <2>5
<1>9. CASE call = "rotate"
  <2>1. store.secrets = 1 /\ store' = [store EXCEPT !.versions = @ + 1]
    BY <1>1, <1>9 DEF Effect, Taken, Missing
  <2>2. Present(call)'
    BY <1>1, <1>9, <2>1 DEF Present
  <2>3. Kept
    BY <1>1, <2>1
  <2>4. store' \in Stores
    BY <1>1, <2>1
  <2>5. Sound(call)
    BY <1>1, <1>9, <2>1
  <2> QED
    BY <1>2, <2>2, <2>3, <2>4, <2>5
<1>10. CASE call = "grant"
  <2>1. store' = [store EXCEPT !.grants = 1]
    BY <1>1, <1>10 DEF Effect, Taken, Missing
  <2>2. Present(call)'
    BY <1>1, <1>10, <2>1 DEF Present
  <2>3. Kept
    BY <1>1, <2>1
  <2>4. store' \in Stores
    BY <1>1, <2>1
  <2>5. Sound(call)
    BY <1>1, <1>10, <2>1
  <2> QED
    BY <1>2, <2>2, <2>3, <2>4, <2>5
<1> QED
  BY <1>3, <1>4, <1>5, <1>6, <1>7, <1>8, <1>9, <1>10 DEF Calls

LEMMA LineBegins == LineInit => LineInv
<1> SUFFICES ASSUME LineInit PROVE LineInv
  OBVIOUS
<1>1. PICK n \in {0, 1} :
          store = [ users |-> 0, projects |-> 0, members |-> 0, secrets |-> n,
                    grants |-> 0, versions |-> n, revoked |-> FALSE ]
  BY DEF LineInit
<1>2. LineTypeOK
  BY <1>1, CommandLineAssumption DEF LineInit, LineTypeOK, Prompt, NotSent, Sent, Unheard
<1>3. StoreOK
  BY <1>1, HandledIs DEF StoreOK
<1>4. \A t \in Shells : ShellOK(t)
  BY CommandLineAssumption DEF LineInit, ShellOK, Prompt, NotSent, Unheard
<1> QED
  BY <1>2, <1>3, <1>4 DEF LineInv

LEMMA RequestKeeps ==
    ASSUME LineInv, NEW t \in Shells, NEW call \in Calls, NEW ok, ok = Status(call),
           Request(t, call, ok)
    PROVE  LineInv'
<1> DEFINE n == shell[t].tries + 1
<1>1. /\ shell[t].tries \in 0..MaxTries[t] /\ n \in 1..MaxTries[t] /\ MaxTries[t] \in Nat
      /\ UNCHANGED store /\ LineTypeOK /\ ShellOK(t)
      /\ shell[t].tries > 0 => shell[t].at \in {"lost", "failed"} /\ shell[t].call = call
  BY CommandLineAssumption DEF LineInv, ShellOK, Request
<1>2. /\ shell' = [shell EXCEPT ![t] = [ at |-> "waiting", call |-> call, ok |-> ok, tries |-> n ]]
      /\ attempt' = [attempt EXCEPT ![t][n] = Sent]
  BY DEF Request
<1>3. /\ shell'[t] = [ at |-> "waiting", call |-> call, ok |-> ok, tries |-> n ]
      /\ \A u \in Shells \ {t} : shell'[u] = shell[u] /\ attempt'[u] = attempt[u]
      /\ attempt'[t] = [attempt[t] EXCEPT ![n] = Sent]
  BY <1>1, <1>2 DEF LineTypeOK
<1>4. LineTypeOK'
  <2>1. ok \in {200, 201, 204}
    BY DEF Status
  <2> DEFINE Row == [ at : {"prompt", "waiting", "lost", "done", "failed"},
                      call : {"none"} \cup Calls, ok : {200, 201, 204}, tries : Nat ]
             Results == {NotSent, Sent, Unheard, 200, 201, 204, 409, 500}
  <2>2. shell'[t] \in Row /\ attempt'[t] \in [1..MaxTries[t] -> Results]
    BY <1>1, <1>3, <2>1 DEF LineTypeOK
  <2>3. /\ shell \in [Shells -> Row] /\ DOMAIN attempt = Shells
        /\ \A u \in Shells : attempt[u] \in [1..MaxTries[u] -> Results]
    BY <1>1 DEF LineTypeOK, Calls
  <2>4. /\ shell' \in [Shells -> Row]
        /\ DOMAIN attempt' = Shells
        /\ \A u \in Shells : attempt'[u] \in [1..MaxTries[u] -> Results]
    <3> HIDE DEF Row, Results
    <3>1. DOMAIN shell' = Shells /\ shell' \in [Shells -> Row]
      <4>1. shell' = [u \in Shells |-> IF u = t THEN shell'[t] ELSE shell[u]]
        BY <1>2, <1>3, <2>3
      <4> QED
        BY <2>2, <2>3, <4>1
    <3>2. \A u \in Shells : attempt'[u] \in [1..MaxTries[u] -> Results]
      <4>1. ASSUME NEW u \in Shells PROVE attempt'[u] \in [1..MaxTries[u] -> Results]
        <5>1. CASE u = t
          BY <2>2, <5>1
        <5>2. CASE u # t
          <6>1. attempt'[u] = attempt[u]
            BY <1>3, <5>2
          <6> QED
            BY <2>3, <6>1
        <5> QED
          BY <5>1, <5>2
      <4> QED
        BY <4>1
    <3> QED
      BY <1>2, <2>3, <3>1, <3>2
  <2>5. shell' \in [Shells ->
          [ at : {"prompt", "waiting", "lost", "done", "failed"},
            call : {"none", "read", "register", "project", "member", "create", "revoke",
                    "rotate", "rollback", "grant"},
            ok : {200, 201, 204}, tries : Nat ]]
    <3>1. {"none"} \cup Calls = {"none", "read", "register", "project", "member", "create",
                                 "revoke", "rotate", "rollback", "grant"}
      BY DEF Calls
    <3> QED
      BY <2>4, <3>1
  <2>6. /\ store' = store
        /\ store \in [ users : Nat, projects : Nat, members : Nat, secrets : Nat,
                        grants : Nat, versions : Nat, revoked : BOOLEAN ]
    BY <1>1 DEF LineTypeOK
  <2> QED
    BY <2>4, <2>5, <2>6 DEF LineTypeOK
<1>5. attempt[t] \in [1..MaxTries[t] -> {NotSent, Sent, Unheard, 200, 201, 204, 409, 500}]
  BY <1>1 DEF LineTypeOK
<1>6. ShellOK(t)'
  <2>1. Present(call)' = Present(call)
    BY <1>1 DEF Present
  <2>2. \A i \in 1..MaxTries[t] : attempt'[t][i] = IF i = n THEN Sent ELSE attempt[t][i]
    BY <1>3, <1>5
  <2>3. \A i \in 1..MaxTries[t] : attempt[t][i] \notin {NotSent} => shell[t].tries > 0
    BY <1>1 DEF ShellOK
  <2> QED
    BY <1>1, <1>3, <2>1, <2>2, <2>3 DEF ShellOK, NotSent, Sent, Unheard
<1>7. \A u \in Shells : ShellOK(u)'
  <2>1. \A c : Present(c) => Present(c)'
    BY <1>1 DEF Present
  <2> QED
    BY <1>3, <1>6, <2>1, ShellKept DEF LineInv
<1>8. StoreOK'
  <2>1. ASSUME NEW c PROVE Cardinality(Handled(c)) <= Cardinality(Handled(c))'
    <3>1. ASSUME NEW u \in Shells, NEW i \in 1..MaxTries[u],
                 shell[u].call = c, attempt[u][i] \notin {NotSent, Sent}
          PROVE  shell[u].call' = c /\ attempt[u][i]' \notin {NotSent, Sent}
      <4>1. CASE u # t
        BY <1>3, <3>1, <4>1
      <4>2. CASE u = t
        <5>1. i \in 1..MaxTries[t] /\ attempt[t][i] # NotSent
          BY <3>1, <4>2
        <5>2. i # n /\ shell[t].tries > 0
          <6>1. ~ (i > shell[t].tries)
            BY <1>1, <5>1 DEF ShellOK
          <6> QED
            BY <1>1, <5>1, <6>1
        <5>3. attempt'[t][i] = attempt[t][i]
          BY <1>3, <1>5, <5>1, <5>2
        <5>4. shell'[t].call = c
          BY <1>1, <1>3, <3>1, <4>2, <5>2
        <5>5. attempt'[t][i] \notin {NotSent, Sent}
          BY <3>1, <4>2, <5>3
        <5> QED
          BY <4>2, <5>4, <5>5
      <4> QED
        BY <4>1, <4>2
    <3> QED
      BY <3>1, HandledGrows
  <2>2. StoreOK /\ store' = store /\ store.projects \in Nat /\ store.versions \in Nat
    BY <1>1 DEF LineInv, LineTypeOK
  <2>3. /\ Cardinality(Handled("project")) <= Cardinality(Handled("project"))'
        /\ Cardinality(Handled("rotate")) <= Cardinality(Handled("rotate"))'
    BY <2>1
  <2> QED
    BY <2>2, <2>3, HandledIs DEF StoreOK
<1> QED
  BY <1>4, <1>7, <1>8 DEF LineInv

\* What an attempt may have come to.
Outcomes == {NotSent, Sent, Unheard, 200, 201, 204, 409, 500}

\* A request is answered with a status, or with silence when nobody waits for it.
LEMMA AnswerKeeps ==
    ASSUME LineInv, NEW t \in Shells, NEW i \in 1..MaxTries[t], NEW status,
           status \in {Status(shell[t].call), 409, 500}, Answered(t, i, status),
           status \in {Status(shell[t].call), 409} => Present(shell[t].call)',
           \A c : Present(c) => Present(c)',
           store' \in Stores
    PROVE  /\ LineTypeOK'
           /\ \A u \in Shells : ShellOK(u)'
           /\ \A c : Cardinality(Handled(c)) <= Cardinality(Handled(c))'
           /\ Cardinality(Handled(shell[t].call)) + 1 <= Cardinality(Handled(shell[t].call))'
<1> DEFINE heard == shell[t].at = "waiting" /\ shell[t].tries = i
           outcome == IF heard THEN status ELSE Unheard
<1>1. /\ LineTypeOK /\ ShellOK(t) /\ shell' = shell
      /\ attempt[t][i] = Sent
      /\ attempt' = [attempt EXCEPT ![t][i] = outcome]
      /\ attempt[t] \in [1..MaxTries[t] -> Outcomes]
  BY DEF LineInv, LineTypeOK, Answered, Outcomes
<1>2. status \in {200, 201, 204, 409, 500}
  BY DEF Status
<1>3. /\ attempt'[t] = [attempt[t] EXCEPT ![i] = outcome]
      /\ \A u \in Shells \ {t} : attempt'[u] = attempt[u]
      /\ DOMAIN attempt' = Shells
  BY <1>1 DEF LineTypeOK
<1>4. \A j \in 1..MaxTries[t] : attempt'[t][j] = IF j = i THEN outcome ELSE attempt[t][j]
  BY <1>1, <1>3
<1>5. outcome \in {Unheard, 200, 201, 204, 409, 500}
  BY <1>2
<1>6. LineTypeOK'
  <2>1. attempt'[t] \in [1..MaxTries[t] -> Outcomes]
    BY <1>1, <1>3, <1>5 DEF Outcomes
  <2>2. \A u \in Shells : attempt'[u] \in [1..MaxTries[u] -> Outcomes]
    BY <1>1, <1>3, <2>1 DEF LineTypeOK, Outcomes
  <2>3. LineTypeOK /\ shell' = shell
    BY <1>1
  <2> QED
    BY <1>3, <2>2, <2>3 DEF LineTypeOK, Outcomes, Stores
<1>7. ShellOK(t)'
  <2>1. outcome \in {200, 201, 204} => outcome = Status(shell[t].call)
    BY <1>2 DEF Unheard
  <2>2. outcome \in {200, 201, 204, 409} => Present(shell[t].call)'
    BY <1>2 DEF Unheard
  <2>3. shell[t].at = "waiting" /\ shell[t].tries = i => outcome # Unheard
    BY <1>2 DEF Unheard
  <2>4. shell[t].at \in {"done", "failed"} => shell[t].tries # i
    <3>1. shell[t].tries > 0 => shell[t].ok \in {200, 201, 204}
      BY <1>1 DEF LineTypeOK
    <3> QED
      BY <1>1, <3>1 DEF ShellOK, Sent
  <2>5. Status(shell[t].call)' = Status(shell[t].call)
    BY <1>1 DEF Status
  <2> HIDE DEF outcome
  <2> QED
    BY <1>1, <1>4, <1>5, <2>1, <2>2, <2>3, <2>4, <2>5
    DEF ShellOK, NotSent, Sent, Unheard
<1>8. \A u \in Shells : ShellOK(u)'
  BY <1>1, <1>3, <1>7, ShellKept DEF LineInv
<1>9. /\ attempt'[t][i] \notin {NotSent, Sent}
      /\ \A u \in Shells : \A j \in 1..MaxTries[u] :
            attempt[u][j] \notin {NotSent, Sent} => attempt'[u][j] = attempt[u][j]
  <2>1. outcome \notin {NotSent, Sent}
    BY <1>5 DEF NotSent, Sent, Unheard
  <2>2. attempt[t][i] = Sent /\ \A u \in Shells : u # t => attempt'[u] = attempt[u]
    BY <1>1, <1>3
  <2>3. \A j \in 1..MaxTries[t] : attempt'[t][j] = IF j = i THEN outcome ELSE attempt[t][j]
    BY <1>4
  <2> HIDE DEF outcome
  <2> QED
    BY <2>1, <2>2, <2>3
<1>10. \A c : Cardinality(Handled(c)) <= Cardinality(Handled(c))'
  BY <1>1, <1>9, HandledGrows
<1>11. Cardinality(Handled(shell[t].call)) + 1 <= Cardinality(Handled(shell[t].call))'
  BY <1>1, <1>9, HandledOneMore
<1> QED
  BY <1>6, <1>8, <1>10, <1>11

LEMMA PerformKeeps ==
    ASSUME LineInv, NEW t \in Shells, NEW i \in 1..MaxTries[t], Perform(t, i)
    PROVE  LineInv'
<1> DEFINE call == shell[t].call
<1>1. PICK status \in {Status(call), 500} : Answered(t, i, status)
  BY DEF Perform
<1>2. LineTypeOK /\ StoreOK /\ ShellOK(t) /\ shell' = shell
  BY <1>1 DEF LineInv, Answered
<1>3. call \in Calls
  <2>1. attempt[t][i] # NotSent
    BY <1>1 DEF Answered, NotSent, Sent
  <2> QED
    BY <1>2, <2>1 DEF ShellOK
<1>4. /\ store' \in Stores /\ Present(call)' /\ Sound(call)
      /\ \A c : Present(c) => Present(c)'
  BY <1>2, <1>3, Performs DEF Perform
<1>5. /\ LineTypeOK' /\ \A u \in Shells : ShellOK(u)'
      /\ \A c : Cardinality(Handled(c)) <= Cardinality(Handled(c))'
      /\ Cardinality(Handled(call)) + 1 <= Cardinality(Handled(call))'
  BY <1>1, <1>4, AnswerKeeps
<1>6. StoreOK'
  <2>1. /\ Cardinality(Handled("project")) <= Cardinality(Handled("project"))'
        /\ Cardinality(Handled("rotate")) <= Cardinality(Handled("rotate"))'
    BY <1>5
  <2>2. /\ call = "project" =>
              Cardinality(Handled("project")) + 1 <= Cardinality(Handled("project"))'
        /\ call = "rotate" =>
              Cardinality(Handled("rotate")) + 1 <= Cardinality(Handled("rotate"))'
    BY <1>2, <1>5
  <2>3. store \in Stores /\ store' \in Stores
    BY <1>2, <1>4 DEF LineTypeOK, Stores
  <2>4. /\ store.projects <= Cardinality(Handled("project"))
        /\ store.versions <= 1 + Cardinality(Handled("rotate"))
    BY <1>2 DEF StoreOK
  <2> HIDE DEF call
  <2>5. store'.projects <= Cardinality(Handled("project"))'
    BY <1>4, <2>1, <2>2, <2>3, <2>4, HandledIs DEF Sound, Stores
  <2>6. store'.versions <= 1 + Cardinality(Handled("rotate"))'
    BY <1>4, <2>1, <2>2, <2>3, <2>4, HandledIs DEF Sound, Stores
  <2> QED
    BY <1>4, <2>5, <2>6 DEF Sound, StoreOK
<1> QED
  BY <1>5, <1>6 DEF LineInv

LEMMA RejectKeeps ==
    ASSUME LineInv, NEW t \in Shells, NEW i \in 1..MaxTries[t], Reject(t, i)
    PROVE  LineInv'
<1> DEFINE status == IF Taken(shell[t].call) THEN 409 ELSE 500
<1>1. Answered(t, i, status) /\ UNCHANGED << shell, store >>
  BY DEF Reject, Answered
<1>2. /\ \A c : Present(c) => Present(c)'
      /\ store' \in Stores
  BY <1>1 DEF Present, LineInv, LineTypeOK, Stores
<1>3. status \in {Status(shell[t].call), 409} => Present(shell[t].call)'
  <2>1. status \in {Status(shell[t].call), 409} => Taken(shell[t].call)
    BY DEF Status
  <2>2. /\ store.users > 0 => store.users = 1
        /\ store.secrets > 0 => store.secrets = 1
    BY DEF LineInv, LineTypeOK, StoreOK
  <2> QED
    BY <1>1, <1>2, <2>1, <2>2 DEF Taken, Present
<1>4. status \in {Status(shell[t].call), 409, 500}
  OBVIOUS
<1> HIDE DEF status
<1>5. /\ LineTypeOK' /\ \A u \in Shells : ShellOK(u)'
      /\ \A c : Cardinality(Handled(c)) <= Cardinality(Handled(c))'
  BY <1>1, <1>2, <1>3, <1>4, AnswerKeeps
<1>6. StoreOK'
  BY <1>1, <1>5, HandledIs DEF LineInv, StoreOK, LineTypeOK
<1> QED
  BY <1>5, <1>6 DEF LineInv

\* A step of the client alone: the requests that were dealt with stay so.
LEMMA ClientKeeps ==
    ASSUME LineInv, NEW t \in Shells, UNCHANGED store,
           LineTypeOK', ShellOK(t)', shell'[t].call = shell[t].call,
           \A u \in Shells \ {t} : shell'[u] = shell[u] /\ attempt'[u] = attempt[u],
           \A i \in 1..MaxTries[t] :
              attempt[t][i] \notin {NotSent, Sent} => attempt'[t][i] \notin {NotSent, Sent}
    PROVE  LineInv'
<1>1. \A u \in Shells : ShellOK(u)'
  <2>1. \A c : Present(c) => Present(c)'
    BY DEF Present
  <2> QED
    BY <2>1, ShellKept DEF LineInv
<1>2. \A c : Cardinality(Handled(c)) <= Cardinality(Handled(c))'
  <2>1. ASSUME NEW u \in Shells, NEW i \in 1..MaxTries[u], attempt[u][i] \notin {NotSent, Sent}
        PROVE  shell[u].call' = shell[u].call /\ attempt[u][i]' \notin {NotSent, Sent}
    BY <2>1
  <2> QED
    BY <2>1, HandledGrows
<1>3. StoreOK'
  BY <1>2, HandledIs DEF LineInv, StoreOK, LineTypeOK
<1> QED
  BY <1>1, <1>3 DEF LineInv

LEMMA LoseKeeps ==
    ASSUME LineInv, NEW t \in Shells, LoseConnection(t)
    PROVE  LineInv'
<1> DEFINE n == shell[t].tries
<1>1. /\ shell[t].at = "waiting" /\ UNCHANGED store /\ ShellOK(t) /\ LineTypeOK
      /\ MaxTries[t] \in Nat /\ n \in 1..MaxTries[t]
  BY CommandLineAssumption DEF LoseConnection, LineInv, ShellOK
<1>2. /\ shell'[t] = [shell[t] EXCEPT !.at = "lost"]
      /\ attempt'[t] = [attempt[t] EXCEPT ![n] = IF @ = Sent THEN Sent ELSE Unheard]
      /\ \A u \in Shells \ {t} : shell'[u] = shell[u] /\ attempt'[u] = attempt[u]
  BY <1>1 DEF LoseConnection, LineTypeOK
<1>3. \A i \in 1..MaxTries[t] : attempt'[t][i] =
         IF i # n THEN attempt[t][i] ELSE IF attempt[t][n] = Sent THEN Sent ELSE Unheard
  BY <1>1, <1>2 DEF LineTypeOK
<1>4. LineTypeOK'
  <2>1. shell'[t] = [ at |-> "lost", call |-> shell[t].call, ok |-> shell[t].ok, tries |-> n ]
    BY <1>1, <1>2 DEF LineTypeOK
  <2>2. attempt'[t] \in [1..MaxTries[t] -> {NotSent, Sent, Unheard, 200, 201, 204, 409, 500}]
    BY <1>1, <1>2 DEF LineTypeOK
  <2>3. /\ shell' = [shell EXCEPT ![t] = shell'[t]]
        /\ DOMAIN attempt' = DOMAIN attempt
    BY <1>1, <1>2 DEF LineTypeOK, LoseConnection
  <2>4. \A u \in Shells :
          attempt'[u] \in [1..MaxTries[u] -> {NotSent, Sent, Unheard, 200, 201, 204, 409, 500}]
    <3>1. \A u \in Shells :
            attempt[u] \in [1..MaxTries[u] -> {NotSent, Sent, Unheard, 200, 201, 204, 409, 500}]
      BY <1>1 DEF LineTypeOK
    <3>2. \A u \in Shells \ {t} : attempt'[u] = attempt[u]
      BY <1>2
    <3> SUFFICES ASSUME NEW u \in Shells
                 PROVE  attempt'[u] \in
                    [1..MaxTries[u] -> {NotSent, Sent, Unheard, 200, 201, 204, 409, 500}]
      OBVIOUS
    <3>3. CASE u = t
      BY <2>2, <3>3
    <3>4. CASE u # t
      <4>1. attempt'[u] = attempt[u]
        BY <3>2, <3>4
      <4> QED
        BY <3>1, <4>1
    <3> QED
      BY <3>3, <3>4
  <2>5. shell' \in [Shells ->
          [ at : {"prompt", "waiting", "lost", "done", "failed"},
            call : {"none", "read", "register", "project", "member", "create", "revoke",
                    "rotate", "rollback", "grant"},
            ok : {200, 201, 204}, tries : Nat ]]
    BY <1>1, <2>1, <2>3 DEF LineTypeOK
  <2>6. store' \in Stores /\ DOMAIN attempt' = Shells
    BY <1>1, <2>3 DEF LineTypeOK, Stores
  <2> QED
    BY <2>4, <2>5, <2>6 DEF LineTypeOK, Stores
<1>5. /\ shell'[t].tries = n /\ shell'[t].at = "lost" /\ shell'[t].ok = shell[t].ok
      /\ shell'[t].call = shell[t].call
  BY <1>1, <1>2 DEF LineTypeOK
<1>6. ShellOK(t)'
  <2>1. /\ Present(shell[t].call)' = Present(shell[t].call)
        /\ Status(shell[t].call)' = Status(shell[t].call)
    BY <1>1, <1>5 DEF Present, Status
  <2> HIDE DEF n
  <2> QED
    BY <1>1, <1>3, <1>5, <2>1 DEF ShellOK, NotSent, Sent, Unheard, n
<1>7. \A i \in 1..MaxTries[t] :
         attempt[t][i] \notin {NotSent, Sent} => attempt'[t][i] \notin {NotSent, Sent}
  BY <1>3 DEF NotSent, Sent, Unheard
<1> QED
  BY <1>1, <1>2, <1>4, <1>5, <1>6, <1>7, ClientKeeps

LEMMA ReadKeeps ==
    ASSUME LineInv, NEW t \in Shells, ReadAnswer(t)
    PROVE  LineInv'
<1> DEFINE n == shell[t].tries
           status == attempt[t][n]
           after == IF status = shell[t].ok THEN "done" ELSE "failed"
<1>1. /\ shell[t].at = "waiting" /\ UNCHANGED << attempt, store >> /\ ShellOK(t)
      /\ LineTypeOK /\ status \notin {NotSent, Sent}
      /\ shell' = [shell EXCEPT ![t].at = after]
      /\ MaxTries[t] \in Nat /\ n \in 1..MaxTries[t]
  BY CommandLineAssumption DEF ReadAnswer, LineInv, ShellOK
<1>2. /\ shell'[t] = [shell[t] EXCEPT !.at = after]
      /\ \A u \in Shells \ {t} : shell'[u] = shell[u]
  BY <1>1 DEF LineTypeOK
<1>3. LineTypeOK'
  <2>1. shell'[t] = [ at |-> after, call |-> shell[t].call, ok |-> shell[t].ok, tries |-> n ]
    BY <1>1, <1>2 DEF LineTypeOK
  <2>2. shell' = [shell EXCEPT ![t] = shell'[t]]
    BY <1>1, <1>2 DEF LineTypeOK
  <2> QED
    BY <1>1, <1>2, <2>1, <2>2 DEF LineTypeOK
<1>4. /\ shell'[t].tries = n /\ shell'[t].at = after /\ shell'[t].ok = shell[t].ok
      /\ shell'[t].call = shell[t].call
  BY <1>1, <1>2 DEF LineTypeOK
<1>5. status \in {200, 201, 204, 409, 500} /\ shell[t].ok = Status(shell[t].call)
  BY <1>1 DEF LineTypeOK, ShellOK, NotSent, Sent, Unheard
<1>6. ShellOK(t)'
  <2>1. /\ Present(shell[t].call)' = Present(shell[t].call)
        /\ Status(shell[t].call)' = Status(shell[t].call)
    BY <1>1, <1>4 DEF Present, Status
  <2>2. /\ after = "done" => status = shell[t].ok
        /\ after = "failed" => status >= 400
        /\ after \in {"done", "failed"}
    BY <1>1, <1>5 DEF ShellOK
  <2> HIDE DEF after
  <2> QED
    BY <1>1, <1>4, <2>1, <2>2 DEF ShellOK
<1> QED
  BY <1>1, <1>2, <1>3, <1>4, <1>6, ClientKeeps

LEMMA LineInductive == LineInv /\ [LineNext]_lineVars => LineInv'
<1> SUFFICES ASSUME LineInv, [LineNext]_lineVars PROVE LineInv'
  OBVIOUS
<1>1. CASE UNCHANGED lineVars
  BY <1>1 DEF lineVars, LineInv, LineTypeOK, StoreOK, Handled, ShellOK, Present, Status
<1>2. ASSUME NEW t \in Shells,
             \/ Register(t) \/ Whoami(t)
             \/ ProjectsList(t) \/ ProjectsCreate(t) \/ ProjectsAddMember(t)
             \/ SecretsList(t) \/ SecretsCreate(t) \/ SecretsRevoke(t) \/ SecretsRotate(t)
             \/ SecretsVersions(t) \/ SecretsRollback(t) \/ SecretsGrant(t)
      PROVE  LineInv'
  <2>1. PICK call \in Calls : Request(t, call, Status(call))
    BY <1>2 DEF Register, Whoami, ProjectsList, ProjectsCreate, ProjectsAddMember,
         SecretsList, SecretsCreate, SecretsRevoke, SecretsRotate, SecretsVersions,
         SecretsRollback, SecretsGrant, Calls, Status
  <2> QED
    BY <2>1, RequestKeeps
<1>3. ASSUME NEW t \in Shells, NEW i \in 1..MaxTries[t], Perform(t, i) \/ Reject(t, i)
      PROVE  LineInv'
  BY <1>3, PerformKeeps, RejectKeeps
<1>4. ASSUME NEW t \in Shells, LoseConnection(t) \/ ReadAnswer(t) PROVE LineInv'
  BY <1>4, LoseKeeps, ReadKeeps
<1> QED
  BY <1>1, <1>2, <1>3, <1>4 DEF LineNext

LEMMA LineInvariant == LineSpec => []LineInv
BY LineBegins, LineInductive, PTL DEF LineSpec

\* Whatever a user or a script runs again, and however often: nothing that can
\* be there once is there twice, projects and versions multiply once for each
\* request at most, and what a command reports is true, for any number of
\* shells and of attempts (client.go:42, secret_repo.go:185).
THEOREM RetriesHarmless == LineSpec => []RetriesAreHarmless
<1>1. LineInv => RetriesAreHarmless
  <2> SUFFICES ASSUME LineInv PROVE RetriesAreHarmless
    OBVIOUS
  <2>1. ASSUME NEW t \in Shells
        PROVE  LET answer == attempt[t][shell[t].tries] IN
               /\ shell[t].at = "done" => Present(shell[t].call)
               /\ shell[t].at = "failed" => answer >= 400
               /\ shell[t].at = "failed" /\ answer = 409 => Present(shell[t].call)
    <3>1. ShellOK(t) /\ shell[t] \in [ at : {"prompt", "waiting", "lost", "done", "failed"},
            call : {"none"} \cup Calls, ok : {200, 201, 204}, tries : Nat ]
      BY DEF LineInv, LineTypeOK, Calls
    <3> QED
      BY <3>1 DEF ShellOK
  <2> QED
    BY <2>1 DEF LineInv, StoreOK, RetriesAreHarmless
<1> QED
  BY <1>1, LineInvariant, PTL
-----------------------------------------------------------------------------
(* The values a command of the client hands on *)

RunRecords == [ at : {"idle", "fetching", "delivered", "failed"}, kind : {"run", "get"},
          todo : SUBSET Secrets, asked : Secrets \cup {Nobody},
          values : [Names -> (Secrets \cup {Nobody}) \X Nat],
          revoked : SUBSET Secrets, had : [Secrets -> SUBSET Nat] ]

\* There is always a current version, and a rotation has seen versions there are.
VersionsOK(s) ==
    /\ versions[s] = [ last |-> versions[s].last, current |-> versions[s].current,
                       seen |-> versions[s].seen ]
    /\ versions[s].last \in 1..MaxVersion[s]
    /\ versions[s].current \subseteq 1..versions[s].last /\ versions[s].current # {}
    /\ versions[s].seen \subseteq 1..versions[s].last
    /\ versions[s].seen # {} => versions[s].last < MaxVersion[s]

\* What a command has received, or is about to receive, is a value of a secret
\* that was not revoked when the command chose it: revocations last, so that
\* the check of the server is as good as one made then.
RunOK(c) ==
    /\ cmd[c] \in RunRecords
    /\ cmd[c].asked # Nobody => cmd[c].asked \in cmd[c].todo \ cmd[c].revoked
    /\ \A s \in cmd[c].revoked : row[s] = "revoked"
    /\ \A s \in cmd[c].todo : versions[s].current \subseteq cmd[c].had[s]
    /\ \A n \in Names : cmd[c].values[n] # NoValue =>
         /\ cmd[c].values[n][1] \in Secrets
         /\ cmd[c].values[n][1] \notin cmd[c].revoked
         /\ cmd[c].values[n][2] \in cmd[c].had[cmd[c].values[n][1]]

FetchInv ==
    /\ row \in [Secrets -> {"none", "stamped"} \cup Statuses]
    /\ DOMAIN versions = Secrets /\ \A s \in Secrets : VersionsOK(s)
    /\ DOMAIN cmd = Commands
    /\ cmd = [c \in Commands |-> cmd[c]]
    /\ \A c \in Commands : RunOK(c)

LEMMA NewRun ==
    /\ NewCommand \in RunRecords
    /\ NewCommand.asked = Nobody /\ NewCommand.revoked = {} /\ NewCommand.todo = {}
    /\ \A n \in Names : NewCommand.values[n] = NoValue
BY CommandAssumption DEF NewCommand, RunRecords, NoValue

LEMMA FetchBegins == CommandInit => FetchInv
<1> SUFFICES ASSUME CommandInit PROVE FetchInv
  OBVIOUS
<1>1. ASSUME NEW c \in Commands PROVE RunOK(c)
  <2>1. cmd[c] = NewCommand
    BY DEF CommandInit
  <2> QED
    BY <2>1, NewRun DEF RunOK
<1>2. ASSUME NEW s \in Secrets PROVE VersionsOK(s)
  <2>1. versions[s] = FirstVersion /\ MaxVersion[s] \in Nat \ {0}
    BY CommandAssumption DEF CommandInit
  <2> QED
    BY <2>1 DEF VersionsOK, FirstVersion
<1> QED
  BY <1>1, <1>2 DEF CommandInit, ListingInit, FetchInv

\* Nothing a command relies on is taken back by what other people do to the secrets.
LEMMA SecretsMoveOn ==
    ASSUME FetchInv, UNCHANGED << versions, cmd >>,
           row' \in [Secrets -> {"none", "stamped"} \cup Statuses],
           \A s \in Secrets : row[s] = "revoked" => row'[s] = "revoked"
    PROVE  FetchInv'
<1>1. ASSUME NEW c \in Commands PROVE RunOK(c)'
  <2>1. RunOK(c)
    BY DEF FetchInv
  <2>2. \A s \in cmd[c].revoked : row'[s] = "revoked"
    BY <2>1 DEF RunOK, RunRecords
  <2> QED
    BY <2>1, <2>2 DEF RunOK
<1>2. \A s \in Secrets : VersionsOK(s)'
  BY DEF FetchInv, VersionsOK
<1> QED
  BY <1>1, <1>2 DEF FetchInv

\* Nor by their writes: what becomes current is noted by who may come to read it.
LEMMA WritesAreNoted ==
    ASSUME FetchInv, NEW s \in Secrets, NEW new, SetVersions(s, new),
           (versions'[s] = new) => VersionsOK(s)'
    PROVE  FetchInv'
<1>1. /\ versions'[s] = new /\ \A t \in Secrets \ {s} : versions'[t] = versions[t]
      /\ DOMAIN versions' = Secrets /\ row' = row
  BY DEF SetVersions, FetchInv
<1>2. \A t \in Secrets : VersionsOK(t)'
  BY <1>1 DEF FetchInv, VersionsOK
<1>3. new.current \subseteq Nat
  <2>1. /\ new.current \subseteq 1..new.last /\ new.last \in 1..MaxVersion[s]
        /\ MaxVersion[s] \in Nat
    BY <1>1, <1>2, CommandAssumption DEF VersionsOK
  <2> QED
    BY <2>1
<1>4. ASSUME NEW c \in Commands PROVE RunOK(c)'
  <2>1. RunOK(c)
    BY DEF FetchInv
  <2>2. CASE s \notin cmd[c].todo
    <3>1. cmd'[c] = cmd[c]
      BY <2>2 DEF SetVersions
    <3>2. \A t \in cmd[c].todo : versions'[t].current = versions[t].current
      BY <1>1, <2>1, <2>2 DEF RunOK, RunRecords
    <3> QED
      BY <1>1, <2>1, <3>1, <3>2 DEF RunOK
  <2>3. CASE s \in cmd[c].todo
    <3> DEFINE noted == [cmd[c] EXCEPT !.had[s] = @ \cup new.current]
    <3>1. cmd'[c] = noted
      BY <2>3 DEF SetVersions
    <3>2. /\ noted.asked = cmd[c].asked /\ noted.todo = cmd[c].todo
          /\ noted.revoked = cmd[c].revoked /\ noted.values = cmd[c].values
          /\ noted.had = [cmd[c].had EXCEPT ![s] = @ \cup new.current]
          /\ noted.at = cmd[c].at /\ noted.kind = cmd[c].kind
      BY <2>1 DEF RunOK, RunRecords
    <3>3. cmd[c].had \in [Secrets -> SUBSET Nat]
      BY <2>1 DEF RunOK, RunRecords
    <3>4. noted.had \in [Secrets -> SUBSET Nat]
      BY <1>3, <3>2, <3>3
    <3>5. noted \in RunRecords
      BY <2>1, <3>2, <3>4 DEF RunOK, RunRecords
    <3>6. /\ noted.had[s] = cmd[c].had[s] \cup new.current
          /\ \A t \in Secrets : cmd[c].had[t] \subseteq noted.had[t]
      BY <3>2, <3>3
    <3> HIDE DEF noted
    <3>7. \A t \in cmd[c].todo : versions'[t].current \subseteq noted.had[t]
      <4>1. \A t \in cmd[c].todo : t \in Secrets /\ versions[t].current \subseteq cmd[c].had[t]
        BY <2>1 DEF RunOK, RunRecords
      <4> QED
        BY <1>1, <3>6, <4>1
    <3>8. ASSUME NEW n \in Names, noted.values[n] # NoValue
          PROVE  /\ noted.values[n][1] \in Secrets \ noted.revoked
                 /\ noted.values[n][2] \in noted.had[noted.values[n][1]]
      BY <2>1, <3>2, <3>6, <3>8 DEF RunOK
    <3> QED
      BY <1>1, <2>1, <3>1, <3>2, <3>5, <3>7, <3>8 DEF RunOK
  <2> QED
    BY <2>2, <2>3
<1>5. DOMAIN cmd' = Commands /\ cmd' = [c \in Commands |-> cmd'[c]]
  BY DEF SetVersions
<1> QED
  BY <1>1, <1>2, <1>4, <1>5 DEF FetchInv

\* A step of one command that keeps its part of the invariant keeps it all.
LEMMA OneRun ==
    ASSUME FetchInv, UNCHANGED << row, versions >>, NEW c \in Commands, NEW new,
           cmd' = [cmd EXCEPT ![c] = new], (cmd'[c] = new) => RunOK(c)'
    PROVE  FetchInv'
<1>1. cmd'[c] = new /\ \A d \in Commands \ {c} : cmd'[d] = cmd[d]
  BY DEF FetchInv
<1>2. ASSUME NEW d \in Commands PROVE RunOK(d)'
  BY <1>1 DEF FetchInv, RunOK
<1>3. DOMAIN cmd' = Commands /\ cmd' = [d \in Commands |-> cmd'[d]]
  BY DEF FetchInv
<1>4. \A s \in Secrets : VersionsOK(s)'
  BY DEF FetchInv, VersionsOK
<1> QED
  BY <1>2, <1>3, <1>4 DEF FetchInv

LEMMA FetchInductive == FetchInv /\ [CommandNext]_commandVars => FetchInv'
<1> SUFFICES ASSUME FetchInv, [CommandNext]_commandVars PROVE FetchInv'
  OBVIOUS
<1>1. CASE UNCHANGED commandVars
  BY <1>1, SecretsMoveOn DEF commandVars, FetchInv
<1>2. ASSUME NEW s \in Secrets,
             LookToRotate(s) \/ CommitRotation(s) \/ AbandonRotation(s) \/ CommitRollback(s)
      PROVE  FetchInv'
  <2>1. VersionsOK(s) /\ MaxVersion[s] \in Nat /\ versions[s].last \in Nat
    BY CommandAssumption DEF FetchInv, VersionsOK
  <2>2. CASE LookToRotate(s)
    <3> DEFINE new == [versions[s] EXCEPT !.seen = versions[s].current]
    <3>1. SetVersions(s, new) /\ versions[s].last < MaxVersion[s]
      BY <2>2 DEF LookToRotate
    <3>2. new = [ last |-> versions[s].last, current |-> versions[s].current,
                  seen |-> versions[s].current ]
      BY <2>1 DEF VersionsOK
    <3> HIDE DEF new
    <3>3. (versions'[s] = new) => VersionsOK(s)'
      BY <2>1, <3>1, <3>2 DEF VersionsOK
    <3> QED
      BY <3>1, <3>3, WritesAreNoted
  <2>3. CASE CommitRotation(s)
    <3> DEFINE v == versions[s].last + 1
               new == [ last |-> v, current |-> (versions[s].current \ versions[s].seen) \cup {v},
                        seen |-> {} ]
    <3>1. SetVersions(s, new) /\ versions[s].last < MaxVersion[s]
      BY <2>1, <2>3 DEF CommitRotation, VersionsOK
    <3>2. v \in 1..MaxVersion[s] /\ new.current \subseteq 1..v
      BY <2>1, <3>1 DEF VersionsOK
    <3>3. (versions'[s] = new) => VersionsOK(s)'
      BY <3>2 DEF VersionsOK
    <3> HIDE DEF new
    <3> QED
      BY <3>1, <3>3, WritesAreNoted
  <2>4. CASE AbandonRotation(s)
    <3> DEFINE new == [versions[s] EXCEPT !.seen = {}]
    <3>1. SetVersions(s, new)
      BY <2>4 DEF AbandonRotation
    <3>2. new = [ last |-> versions[s].last, current |-> versions[s].current, seen |-> {} ]
      BY <2>1 DEF VersionsOK
    <3> HIDE DEF new
    <3>3. (versions'[s] = new) => VersionsOK(s)'
      BY <2>1, <3>2 DEF VersionsOK
    <3> QED
      BY <3>1, <3>3, WritesAreNoted
  <2>5. CASE CommitRollback(s)
    <3>1. PICK m \in 1..versions[s].last : \E v \in 1..m :
             SetVersions(s, [versions[s] EXCEPT !.current = (@ \ (1..m)) \cup {v}])
      BY <2>5 DEF CommitRollback
    <3>2. PICK v \in 1..m :
             SetVersions(s, [versions[s] EXCEPT !.current = (@ \ (1..m)) \cup {v}])
      BY <3>1
    <3> DEFINE now == (versions[s].current \ (1..m)) \cup {v}
               new == [versions[s] EXCEPT !.current = now]
    <3>3. new = [ last |-> versions[s].last, current |-> now, seen |-> versions[s].seen ]
      BY <2>1 DEF VersionsOK
    <3>4. now \subseteq 1..versions[s].last /\ now # {}
      BY <2>1 DEF VersionsOK
    <3>5. SetVersions(s, new)
      BY <3>2
    <3> HIDE DEF new, now
    <3>6. (versions'[s] = new) => VersionsOK(s)'
      BY <2>1, <3>3, <3>4 DEF VersionsOK
    <3> QED
      BY <3>5, <3>6, WritesAreNoted
  <2> QED
    BY <1>2, <2>2, <2>3, <2>4, <2>5
<1>3. ASSUME NEW s \in Secrets, SecretStep(s), UNCHANGED << versions, cmd >>
      PROVE  FetchInv'
  <2>1. /\ row' \in [Secrets -> {"none", "stamped"} \cup Statuses]
        /\ \A t \in Secrets : row[t] = "revoked" => row'[t] = "revoked"
    BY <1>3 DEF SecretStep, StampSecret, StoreSecret, RevokeSecret, FetchInv, Statuses
  <2> QED
    BY <1>3, <2>1, SecretsMoveOn
<1>4. ASSUME NEW c \in Commands, NEW kind \in {"run", "get"},
             NEW place \in {"fetching", "failed"}, NEW todo \in SUBSET Secrets,
             Begin(c, kind, place, todo), UNCHANGED << row, versions >>
      PROVE  FetchInv'
  <2> DEFINE new == [NewCommand EXCEPT
          !.at = place, !.kind = kind, !.todo = todo,
          !.revoked = {s \in todo : row[s] = "revoked"},
          !.had = [s \in Secrets |-> IF s \in todo THEN versions[s].current ELSE {}]]
  <2>1. cmd' = [cmd EXCEPT ![c] = new]
    BY <1>4 DEF Begin
  <2>2. \A s \in Secrets : versions[s].current \subseteq Nat
    <3> SUFFICES ASSUME NEW s \in Secrets PROVE versions[s].current \subseteq Nat
      OBVIOUS
    <3>1. /\ MaxVersion[s] \in Nat /\ versions[s].last \in 1..MaxVersion[s]
          /\ versions[s].current \subseteq 1..versions[s].last
      BY CommandAssumption DEF FetchInv, VersionsOK
    <3> QED
      BY <3>1
  <2>3. /\ new.had \in [Secrets -> SUBSET Nat]
        /\ \A s \in todo : new.had[s] = versions[s].current
    <3>1. new.had = [s \in Secrets |-> IF s \in todo THEN versions[s].current ELSE {}]
      BY NewRun DEF NewCommand
    <3> QED
      BY <2>2, <3>1
  <2>4. /\ new.revoked = {s \in todo : row[s] = "revoked"}
        /\ new.asked = Nobody /\ new.values = NewCommand.values /\ new.todo = todo
    BY DEF NewCommand
  <2>5. new \in RunRecords
    BY <2>3, <2>4, NewRun DEF NewCommand, RunRecords
  <2> HIDE DEF new
  <2>6. ASSUME cmd'[c] = new PROVE RunOK(c)'
    BY <1>4, <2>3, <2>4, <2>5, <2>6, NewRun DEF RunOK
  <2> QED
    BY <1>4, <2>1, <2>6, OneRun
<1>5. ASSUME NEW c \in Commands, RunCommand(c) PROVE FetchInv'
  <2>1. {s \in FirstPage : row[s] = "active"} \in SUBSET Secrets
    BY DEF FirstPage, ListSecrets, Stored
  <2> QED
    BY <1>4, <1>5, <2>1 DEF RunCommand
<1>6. ASSUME NEW c \in Commands, NEW s \in Secrets, GetByName(c, s) \/ GetByID(c, s)
      PROVE  FetchInv'
  <2>1. {s} \cap FirstPage \in SUBSET Secrets /\ {s} \in SUBSET Secrets
    OBVIOUS
  <2> QED
    BY <1>4, <1>6, <2>1 DEF GetByName, GetByID
<1>7. ASSUME NEW c \in Commands, NEW s \in Secrets, PassChecks(c, s) PROVE FetchInv'
  <2> DEFINE new == [cmd[c] EXCEPT !.asked = s]
  <2>1. cmd' = [cmd EXCEPT ![c] = new] /\ row[s] = "active" /\ UNCHANGED << row, versions >>
    BY <1>7 DEF PassChecks
  <2>2. RunOK(c)
    BY DEF FetchInv
  <2>3. new \in RunRecords /\ new.asked = s /\ new.revoked = cmd[c].revoked
        /\ new.had = cmd[c].had /\ new.values = cmd[c].values /\ new.todo = cmd[c].todo
    BY <2>2 DEF RunOK, RunRecords
  <2>4. s \in cmd[c].todo \ cmd[c].revoked
    BY <1>7, <2>1, <2>2 DEF RunOK, PassChecks, IsNext
  <2> HIDE DEF new
  <2>5. ASSUME cmd'[c] = new PROVE RunOK(c)'
    BY <2>1, <2>2, <2>3, <2>4, <2>5 DEF RunOK
  <2> QED
    BY <2>1, <2>5, OneRun
<1>8. ASSUME NEW c \in Commands, NEW s \in Secrets, GoWithout(c, s) PROVE FetchInv'
  <2> DEFINE new == [cmd[c] EXCEPT !.todo = @ \ {s}, !.asked = Nobody,
                          !.at = IF cmd[c].kind = "run" THEN "fetching" ELSE "failed"]
  <2>1. cmd' = [cmd EXCEPT ![c] = new] /\ UNCHANGED << row, versions >>
    BY <1>8 DEF GoWithout
  <2>2. RunOK(c)
    BY DEF FetchInv
  <2>3. new \in RunRecords /\ new.asked = Nobody /\ new.revoked = cmd[c].revoked
        /\ new.had = cmd[c].had /\ new.values = cmd[c].values /\ new.todo \subseteq cmd[c].todo
    BY <2>2 DEF RunOK, RunRecords
  <2> HIDE DEF new
  <2>4. ASSUME cmd'[c] = new PROVE RunOK(c)'
    BY <2>1, <2>2, <2>3, <2>4 DEF RunOK
  <2> QED
    BY <2>1, <2>4, OneRun
<1>9. ASSUME NEW c \in Commands, NEW s \in Secrets, Receive(c, s) PROVE FetchInv'
  <2>1. PICK v \in versions[s].current :
           cmd' = [cmd EXCEPT ![c].todo = @ \ {s}, ![c].asked = Nobody,
                              ![c].values[Upper[s]] = << s, v >>]
    BY <1>9 DEF Receive
  <2> DEFINE new == [cmd[c] EXCEPT !.todo = @ \ {s}, !.asked = Nobody,
                          !.values[Upper[s]] = << s, v >>]
  <2>2. cmd' = [cmd EXCEPT ![c] = new] /\ UNCHANGED << row, versions >> /\ cmd[c].asked = s
    <3>1. cmd' = [cmd EXCEPT ![c] = new]
      BY <2>1
    <3> QED
      BY <1>9, <3>1 DEF Receive
  <2>3. RunOK(c) /\ Upper[s] \in Names
    BY DEF FetchInv, Names
  <2>4. s \notin cmd[c].revoked /\ v \in cmd[c].had[s] /\ v \in Nat
    <3>1. s \in cmd[c].todo \ cmd[c].revoked
      BY <2>2, <2>3, CommandAssumption DEF RunOK
    <3>2. v \in cmd[c].had[s] /\ cmd[c].had \in [Secrets -> SUBSET Nat]
      BY <2>3, <3>1 DEF RunOK, RunRecords
    <3> QED
      BY <3>1, <3>2
  <2>5. /\ new \in RunRecords /\ new.asked = Nobody /\ new.revoked = cmd[c].revoked
        /\ new.had = cmd[c].had /\ new.todo \subseteq cmd[c].todo
        /\ new.values = [cmd[c].values EXCEPT ![Upper[s]] = << s, v >>]
    <3>1. [cmd[c].values EXCEPT ![Upper[s]] = << s, v >>]
            \in [Names -> (Secrets \cup {Nobody}) \X Nat]
      BY <2>3, <2>4 DEF RunOK, RunRecords
    <3> QED
      BY <2>3, <3>1 DEF RunOK, RunRecords
  <2>6. \A n \in Names : new.values[n] = IF n = Upper[s] THEN << s, v >> ELSE cmd[c].values[n]
    BY <2>3, <2>5 DEF RunOK, RunRecords
  <2> HIDE DEF new
  <2>7. ASSUME cmd'[c] = new PROVE RunOK(c)'
    <3>1. ASSUME NEW n \in Names, new.values[n] # NoValue
          PROVE  /\ new.values[n][1] \in Secrets
                 /\ new.values[n][1] \notin new.revoked
                 /\ new.values[n][2] \in new.had[new.values[n][1]]
      <4>1. CASE n = Upper[s]
        <5>1. new.values[n][1] = s /\ new.values[n][2] = v
          BY <2>6, <4>1
        <5> QED
          BY <2>4, <2>5, <5>1
      <4>2. CASE n # Upper[s]
        BY <2>3, <2>5, <2>6, <3>1, <4>2 DEF RunOK
      <4> QED
        BY <4>1, <4>2
    <3>2. /\ \A t \in new.revoked : row'[t] = "revoked"
          /\ \A t \in new.todo : versions'[t].current \subseteq new.had[t]
      BY <2>2, <2>3, <2>5 DEF RunOK
    <3> QED
      BY <2>5, <2>7, <3>1, <3>2 DEF RunOK
  <2> QED
    BY <2>2, <2>7, OneRun
<1>10. ASSUME NEW c \in Commands, Deliver(c) PROVE FetchInv'
  <2> DEFINE new == [cmd[c] EXCEPT !.at = "delivered"]
  <2>1. cmd' = [cmd EXCEPT ![c] = new] /\ UNCHANGED << row, versions >>
    BY <1>10 DEF Deliver
  <2>2. RunOK(c)
    BY DEF FetchInv
  <2>3. new \in RunRecords /\ new.asked = cmd[c].asked /\ new.revoked = cmd[c].revoked
        /\ new.had = cmd[c].had /\ new.values = cmd[c].values /\ new.todo = cmd[c].todo
    BY <2>2 DEF RunOK, RunRecords
  <2> HIDE DEF new
  <2>4. ASSUME cmd'[c] = new PROVE RunOK(c)'
    BY <2>1, <2>2, <2>3, <2>4 DEF RunOK
  <2> QED
    BY <2>1, <2>4, OneRun
<1> QED
  BY <1>1, <1>2, <1>3, <1>5, <1>6, <1>7, <1>8, <1>9, <1>10 DEF CommandNext, CommandStep

\* No value of a secret that was revoked when the command chose it, and none that
\* was replaced before and has not come back since, reaches the user or a child
\* process, however many commands, secrets, rotations and rollbacks there are, and
\* whichever of several current versions is read (run.go:80, secret/service.go:157).
THEOREM NothingRevokedDelivered == CommandSpec => []DeliveredWasLive
<1>1. FetchInv => DeliveredWasLive
  BY DEF FetchInv, RunOK, DeliveredWasLive
<1> QED
  BY <1>1, FetchBegins, FetchInductive, PTL DEF CommandSpec
-----------------------------------------------------------------------------
(* The parts side by side *)

\* A step of one part leaves the variables of the others alone; the walks over
\* the list are no steps of the commands, but change nothing those rely on.
LEMMA PartsStep ==
    ASSUME [PartsNext]_allVars
    PROVE  /\ [StartNext]_startVars /\ [ServerNext]_serverVars
           /\ [LimiterNext]_limiterVars /\ [SessionNext]_sessionVars
           /\ [LineNext]_lineVars /\ [AuditNext]_auditVars
           /\ [ListingNext]_listingVars
           /\ [CommandNext]_commandVars \/ UNCHANGED << versions, cmd, row >>
<1>1. CASE UNCHANGED allVars
  BY <1>1 DEF allVars, commandVars, listingVars
<1>2. CASE part = "start" /\ StartNext /\ OnlyStart
  BY <1>2 DEF OnlyStart, commandVars, listingVars
<1>3. CASE part = "server" /\ ServerNext /\ OnlyServer
  BY <1>3 DEF OnlyServer, commandVars, listingVars
<1>4. CASE part = "limiter" /\ LimiterNext /\ OnlyLimiter
  BY <1>4 DEF OnlyLimiter, commandVars, listingVars
<1>5. CASE part = "listing" /\ ListingNext /\ OnlyListing
  <2>1. /\ UNCHANGED << startVars, serverVars, limiterVars, sessionVars, lineVars, auditVars >>
        /\ UNCHANGED << versions, cmd >>
    BY <1>5 DEF OnlyListing
  <2>2. [CommandNext]_commandVars \/ UNCHANGED row
    BY <1>5, <2>1 DEF ListingNext, BeginWalk, NextPage, CommandNext
  <2> QED
    BY <1>5, <2>1, <2>2
<1>6. CASE part = "command" /\ CommandNext /\ OnlyCommand
  <2>1. ASSUME NEW c \in Commands, CommandStep(c) PROVE UNCHANGED listingVars
    BY <2>1 DEF CommandStep, RunCommand, Deliver, GetByName, GetByID, PassChecks, GoWithout,
       Receive, listingVars
  <2>2. ASSUME NEW s \in Secrets,
               LookToRotate(s) \/ CommitRotation(s) \/ AbandonRotation(s) \/ CommitRollback(s)
        PROVE  UNCHANGED listingVars
    BY <2>2 DEF LookToRotate, CommitRotation, AbandonRotation, CommitRollback, SetVersions,
       listingVars
  <2>3. [ListingNext]_listingVars
    BY <1>6, <2>1, <2>2 DEF CommandNext, ListingNext
  <2> QED
    BY <1>6, <2>3 DEF OnlyCommand
<1>7. CASE part = "session" /\ SessionNext /\ OnlySession
  BY <1>7 DEF OnlySession, commandVars, listingVars
<1>8. CASE part = "line" /\ LineNext /\ OnlyLine
  BY <1>8 DEF OnlyLine, commandVars, listingVars
<1>9. CASE part = "audit" /\ AuditNext /\ OnlyAudit
  BY <1>9 DEF OnlyAudit, commandVars, listingVars
<1> QED
  BY <1>1, <1>2, <1>3, <1>4, <1>5, <1>6, <1>7, <1>8, <1>9 DEF PartsNext

\* Side by side, each part behaves as it does alone: what is proved of its
\* specification holds of the behaviours of the composition.
THEOREM PartsAreIndependent ==
    PartsSpec => /\ StartSpec /\ ServerSpec /\ LimiterSpec /\ ListingSpec
                 /\ SessionSpec /\ LineSpec /\ AuditSpec
<1>1. PartsInit => /\ StartInit /\ ServerInit /\ LimiterInit /\ ListingInit
                   /\ SessionInit /\ LineInit /\ AuditInit
  BY DEF PartsInit, CommandInit
<1>2. [PartsNext]_allVars =>
           /\ [StartNext]_startVars /\ [ServerNext]_serverVars
           /\ [LimiterNext]_limiterVars /\ [SessionNext]_sessionVars
           /\ [LineNext]_lineVars /\ [AuditNext]_auditVars /\ [ListingNext]_listingVars
  BY PartsStep
<1> QED
  BY <1>1, <1>2, PTL
     DEF PartsSpec, StartSpec, ServerSpec, LimiterSpec, ListingSpec, SessionSpec, LineSpec,
         AuditSpec

\* The commands that read secrets keep their invariant beside the walks too.
LEMMA FetchBesideWalks == PartsSpec => []FetchInv
<1>1. PartsInit => FetchInv
  BY FetchBegins DEF PartsInit
<1>2. FetchInv /\ [PartsNext]_allVars => FetchInv'
  <2> SUFFICES ASSUME FetchInv, [PartsNext]_allVars PROVE FetchInv'
    OBVIOUS
  <2>1. CASE [CommandNext]_commandVars
    BY <2>1, FetchInductive
  <2>2. CASE UNCHANGED << versions, cmd, row >>
    BY <2>2, SecretsMoveOn, CommandAssumption DEF FetchInv
  <2> QED
    BY <2>1, <2>2, PartsStep
<1> QED
  BY <1>1, <1>2, PTL DEF PartsSpec

\* The variables of all the parts keep their types, for any constants the
\* assumptions of the parts allow: no counter of theirs leaves its bounds, and no
\* record is left half written by any handler of migrate.go, main.go, ratelimit.go,
\* session.go, the commands of the client and the lists.
THEOREM PartsTypes == PartsSpec => []PartsTypeOK
<1>1. /\ StartInv => StartTypeOK
      /\ ServerInv => ServerTypeOK
      /\ LimiterInv => LimiterTypeOK
      /\ LineInv => LineTypeOK
  BY DEF StartInv, ServerInv, LimiterInv, LineInv
<1>2. SessionInv => SessionTypeOK
  <2> SUFFICES ASSUME SessionInv PROVE SessionTypeOK
    OBVIOUS
  <2>1. content \in [Inodes -> Contents]
    BY DEF SessionInv, FileOK
  <2>2. terminal \in [Terminals -> SessionCommands]
    BY DEF SessionInv, CommandOK
  <2> QED
    BY <2>1, <2>2 DEF SessionInv, SessionTypeOK, SessionCommands
<1>3. FetchInv => CommandTypeOK
  <2> SUFFICES ASSUME FetchInv PROVE CommandTypeOK
    OBVIOUS
  <2>1. cmd \in [Commands -> RunRecords]
    BY DEF FetchInv, RunOK
  <2>2. /\ DOMAIN versions = Secrets
        /\ \A s \in Secrets :
              /\ versions[s].last \in 1..MaxVersion[s]
              /\ versions[s].current \subseteq 1..versions[s].last /\ versions[s].current # {}
              /\ versions[s].seen \subseteq 1..versions[s].last
    BY DEF FetchInv, VersionsOK
  <2> QED
    BY <2>1, <2>2 DEF CommandTypeOK, RunRecords
<1> QED
  BY <1>1, <1>2, <1>3, PartsAreIndependent, StartInvariant, ServerInvariant, LimiterInvariant,
     LineInvariant, SessionInvariant, FetchBesideWalks, ListingTypes, AuditTypes, PTL
     DEF PartsTypeOK
===============================================================================
