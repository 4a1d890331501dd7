----------------------------- MODULE TokenBucket ------------------------------
(***************************************************************************)
(* What the rate limit of the login routes promises: every client address  *)
(* has one bucket for ever, filled by one token a tick up to Burst, and an *)
(* attempt passes exactly if it takes a token from it.                     *)
(***************************************************************************)
EXTENDS Integers

CONSTANTS Keys, Attempts, Burst, Pending

VARIABLES
    level,         \* the tokens of each address
    answer         \* answer[a]: << address, "pass" or "429" >> once a was decided

bucketVars == << level, answer >>

BucketInit ==
    /\ level = [k \in Keys |-> Burst]
    /\ answer = [a \in Attempts |-> Pending]

Refill ==
    /\ level' = [k \in Keys |-> IF level[k] < Burst THEN level[k] + 1 ELSE Burst]
    /\ UNCHANGED answer

\* A client makes another attempt.
Ask(a) ==
    /\ answer' = [answer EXCEPT ![a] = Pending]
    /\ UNCHANGED level

Pass(a, k) ==
    /\ answer[a] = Pending
    /\ level[k] > 0
    /\ level' = [level EXCEPT ![k] = @ - 1]
    /\ answer' = [answer EXCEPT ![a] = << k, "pass" >>]

\* 429 Too Many Requests
TurnAway(a, k) ==
    /\ answer[a] = Pending
    /\ level[k] = 0
    /\ answer' = [answer EXCEPT ![a] = << k, "429" >>]
    /\ UNCHANGED level

BucketNext ==
    \/ Refill
    \/ \E a \in Attempts : \/ Ask(a)
                           \/ \E k \in Keys : Pass(a, k) \/ TurnAway(a, k)

BucketSpec == BucketInit /\ [][BucketNext]_bucketVars
===============================================================================
