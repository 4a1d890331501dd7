----------------------------- MODULE RateLimiter ------------------------------
(***************************************************************************)
(* internal/middleware/ratelimit.go: the limit of five attempts a second,  *)
(* ten at once, for each client address on the routes that register and    *)
(* log in (internal/http/router.go:61).                                    *)
(*                                                                         *)
(* The map of limiters is guarded by a mutex, which get() releases before  *)
(* Allow() is called on the limiter it returned; the goroutine cleanup     *)
(* forgets, under the mutex, the limiters nobody asked for in five         *)
(* minutes.  A tick is the time in which one token returns, so five        *)
(* minutes are Idle ticks.  rate.Limiter computes its tokens when asked;   *)
(* here every tick adds them.                                              *)
(***************************************************************************)
EXTENDS Integers

CONSTANTS
    Keys,          \* client addresses
    Attempts,      \* requests under way; each may be followed by another
    Limiters,      \* limiter objects
    Nil,           \* no limiter, no X-Forwarded-For, no answer yet
    Burst,         \* tokens of a full bucket
    Idle,          \* ticks after which a limiter may be forgotten
    MaxStall,      \* the longest time between get() and Allow(), in ticks
    TrustProxy

\* A request is not delayed between get() and Allow() for so long that its
\* limiter is forgotten and full again: 298 seconds with the values of the code.
ASSUME LimiterAssumption ==
    /\ Keys # {} /\ Nil \notin Limiters
    /\ Burst \in Nat \ {0} /\ MaxStall \in Nat /\ Idle \in Nat
    /\ MaxStall + Burst <= Idle + 1
    /\ TrustProxy \in BOOLEAN

VARIABLES
    limiter,       \* the map: the limiter of each address
    bucket,        \* the tokens of each limiter
    idle,          \* ticks since lastSeen, Idle + 1 for all that are more
    client,        \* client[a]: the address a is limited by
    held,          \* held[a]: the limiter get() returned to a
    stall,         \* stall[a]: ticks since then
    verdict        \* << address, "pass" or "429" >>, or Nil

limiterVars == << limiter, bucket, idle, client, held, stall, verdict >>

LimiterInit ==
    /\ limiter = [k \in Keys |-> Nil]
    /\ bucket = [g \in Limiters |-> Burst]
    /\ idle = [k \in Keys |-> 0]
    /\ client = [a \in Attempts |-> CHOOSE k \in Keys : TRUE]
    /\ held = [a \in Attempts |-> Nil]
    /\ stall = [a \in Attempts |-> 0]
    /\ verdict = [a \in Attempts |-> Nil]

\* The address a request counts for: the leftmost of X-Forwarded-For behind a
\* trusted proxy, the other end of the connection otherwise.
ClientIP(remote, forwarded) ==
    IF TrustProxy /\ forwarded # Nil THEN forwarded ELSE remote

\* A limiter the garbage collector may have reclaimed.
Unused(g) == /\ \A k \in Keys : limiter[k] # g
             /\ \A a \in Attempts : held[a] # g

\* get(): one critical section.
GetLimiter(a) ==
    /\ held[a] = Nil
    /\ \E remote \in Keys, forwarded \in Keys \cup {Nil} :
       LET k == ClientIP(remote, forwarded) IN
        /\ client' = [client EXCEPT ![a] = k]
        /\ idle' = [idle EXCEPT ![k] = 0]
        /\ \/ /\ limiter[k] # Nil
              /\ held' = [held EXCEPT ![a] = limiter[k]]
              /\ UNCHANGED << limiter, bucket >>
           \/ /\ limiter[k] = Nil
              /\ \E g \in Limiters :
                    /\ Unused(g)
                    /\ limiter' = [limiter EXCEPT ![k] = g]
                    /\ bucket' = [bucket EXCEPT ![g] = Burst]
                    /\ held' = [held EXCEPT ![a] = g]
    /\ stall' = [stall EXCEPT ![a] = 0]
    /\ verdict' = [verdict EXCEPT ![a] = Nil]

\* Mutant of Allow: a request that is refused takes a token as well.
AllowOnCredit(a) ==
    /\ held[a] # Nil
    /\ bucket' = [bucket EXCEPT ![held[a]] = @ - 1]
    /\ verdict' = [verdict EXCEPT ![a] =
          << client[a], IF bucket[held[a]] > 0 THEN "pass" ELSE "429" >>]
    /\ held' = [held EXCEPT ![a] = Nil]
    /\ stall' = [stall EXCEPT ![a] = 0]
    /\ UNCHANGED << limiter, idle, client >>

\* Allow(), outside the mutex of the map, then the handler or 429.
Allow(a) ==
    /\ held[a] # Nil
    /\ bucket' = [bucket EXCEPT ![held[a]] = IF @ > 0 THEN @ - 1 ELSE 0]
    /\ verdict' = [verdict EXCEPT ![a] =
          << client[a], IF bucket[held[a]] > 0 THEN "pass" ELSE "429" >>]
    /\ held' = [held EXCEPT ![a] = Nil]
    /\ stall' = [stall EXCEPT ![a] = 0]
    /\ UNCHANGED << limiter, idle, client >>

\* Mutant of Stale: limiters are forgotten as soon as they are idle.
StaleAtOnce(k) == limiter[k] # Nil /\ idle[k] > 0

Stale(k) == limiter[k] # Nil /\ idle[k] > Idle

\* One round of cleanup(): one critical section over the whole map.
Cleanup ==
    /\ \E k \in Keys : Stale(k)
    /\ limiter' = [k \in Keys |-> IF Stale(k) THEN Nil ELSE limiter[k]]
    /\ UNCHANGED << bucket, idle, client, held, stall, verdict >>

Tick ==
    /\ \A a \in Attempts : held[a] # Nil => stall[a] < MaxStall
    /\ bucket' = [g \in Limiters |-> IF bucket[g] < Burst THEN bucket[g] + 1 ELSE Burst]
    /\ idle' = [k \in Keys |-> IF idle[k] <= Idle THEN idle[k] + 1 ELSE Idle + 1]
    /\ stall' = [a \in Attempts |-> IF held[a] # Nil THEN stall[a] + 1 ELSE 0]
    /\ UNCHANGED << limiter, client, held, verdict >>

LimiterNext ==
    \/ \E a \in Attempts : GetLimiter(a) \/ Allow(a)
    \/ Cleanup
    \/ Tick

LimiterSpec == LimiterInit /\ [][LimiterNext]_limiterVars
-------------------------------------------------------------------------------
(* Properties *)

LimiterTypeOK ==
    /\ limiter \in [Keys -> Limiters \cup {Nil}]
    /\ bucket \in [Limiters -> 0..Burst]
    /\ idle \in [Keys -> 0..Idle + 1]
    /\ client \in [Attempts -> Keys]
    /\ held \in [Attempts -> Limiters \cup {Nil}]
    /\ stall \in [Attempts -> 0..MaxStall]
    /\ verdict \in [Attempts -> (Keys \X {"pass", "429"}) \cup {Nil}]

\* An address that has been forgotten has the full bucket it would have by now.
Level == [k \in Keys |-> IF limiter[k] = Nil THEN Burst ELSE bucket[limiter[k]]]

\* Nobody gains a token, or loses one, by what cleanup() forgets, although it
\* runs beside requests that hold a limiter without holding the mutex: the
\* middleware decides as if every address had one bucket for ever
\* (ratelimit.go:79, 91).
Buckets == INSTANCE TokenBucket WITH level <- Level, answer <- verdict, Pending <- Nil
NothingGainedByEviction == Buckets!BucketSpec
===============================================================================
