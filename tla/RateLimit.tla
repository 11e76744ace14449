------------------------------ MODULE RateLimit ------------------------------
(***************************************************************************)
(* The token buckets of the machine routes                                 *)
(* (packages/server/src/gateway/rateLimit.ts): one limiter per client      *)
(* address and one per credential, each a bounded map of buckets.  Time    *)
(* is the wall clock, which may be set back.  Buckets hold fractions of a  *)
(* token: Cost of them are one token, and a unit of time refills Refill.   *)
(***************************************************************************)
EXTENDS Integers, FiniteSets

CONSTANTS
  Ips, Tokens,        \* client addresses and credentials
  NoToken,            \* a request without a credential
  Capacity,           \* burst of a bucket, by limiter
  Refill,             \* what a unit of time refills, by limiter
  Cost,               \* what a request takes
  MaxKeys,            \* buckets a limiter holds
  MaxTime,            \* bound: the wall clock's range
  MaxForward          \* bound: how far the clock moves forward in all

Limiters == {"ip", "token"}
Keys == Ips \cup Tokens

RateBounds ==
  /\ Capacity \in [Limiters -> Nat \ {0}]
  /\ Refill \in [Limiters -> Nat]
  /\ Cost \in Nat \ {0}
  /\ MaxKeys \in Nat \ {0}
  /\ MaxTime \in Nat /\ MaxForward \in Nat
  /\ NoToken \notin Tokens

VARIABLES
  now,       \* the wall clock
  buckets,   \* buckets[l][k]: a bucket, or Absent
  forward,   \* history: how far the clock has moved forward in all
  granted    \* history: granted[l][k]: since the bucket was made, and when that was

vars == <<now, buckets, forward, granted>>

Absent == [tokens |-> -1, last |-> 0]
Bucket(l) == [tokens: 0..Capacity[l], last: 0..MaxTime] \cup {Absent}

TypeOK ==
  /\ now \in 0..MaxTime
  /\ forward \in Nat
  /\ \A l \in Limiters : \A k \in Keys :
       /\ buckets[l][k] \in Bucket(l)
       /\ granted[l][k] \in [count: Nat, since: Nat]

Init ==
  /\ now = 0 /\ forward = 0
  /\ buckets = [l \in Limiters |-> [k \in Keys |-> Absent]]
  /\ granted = [l \in Limiters |-> [k \in Keys |-> [count |-> 0, since |-> 0]]]

Held(l) == {k \in Keys : buckets[l][k] # Absent}
Least(a, b) == IF a <= b THEN a ELSE b
Elapsed(b) == IF now >= b.last THEN now - b.last ELSE 0

(***************************************************************************)
(* allow: the bucket is made when it is missing, for which the stalest one *)
(* may have to go; it is refilled, and one token is spent.                 *)
(***************************************************************************)
Evictions(l, k) ==
  IF k \in Held(l) \/ Cardinality(Held(l)) < MaxKeys THEN {{}}
  ELSE {{v} : v \in {v \in Held(l) : \A w \in Held(l) : buckets[l][v].last <= buckets[l][w].last}}

Level(l, k) ==
  IF k \in Held(l)
    THEN Least(Capacity[l], buckets[l][k].tokens + Elapsed(buckets[l][k]) * Refill[l])
    ELSE Capacity[l]

Allowed(l, k) == Level(l, k) >= Cost
Spent(l, k) == Level(l, k) - (IF Allowed(l, k) THEN Cost ELSE 0)

(* The refill is stored, but only a request that passes moves the refill time. *)
AfterLateStamp(l, k, evicted) ==
  [x \in Keys |->
     IF x = k
       THEN [tokens |-> Spent(l, k),
             last |-> IF Allowed(l, k) \/ k \notin Held(l) THEN now ELSE buckets[l][k].last]
       ELSE IF x \in evicted THEN Absent ELSE buckets[l][x]]

After(l, k, evicted) ==
  [x \in Keys |-> IF x = k THEN [tokens |-> Spent(l, k), last |-> now]
                  ELSE IF x \in evicted THEN Absent ELSE buckets[l][x]]

Tally(l, k, evicted) ==
  [x \in Keys |->
     IF x = k
       THEN [count |-> (IF k \in Held(l) THEN granted[l][k].count ELSE 0) + (IF Allowed(l, k) THEN 1 ELSE 0),
             since |-> IF k \in Held(l) THEN granted[l][k].since ELSE forward]
       ELSE IF x \in evicted THEN [count |-> 0, since |-> 0] ELSE granted[l][x]]

Allow(l, k) ==
  \E evicted \in Evictions(l, k) :
    /\ buckets' = [buckets EXCEPT ![l] = After(l, k, evicted)]
    /\ granted' = [granted EXCEPT ![l] = Tally(l, k, evicted)]

Both(i, t) ==
  \E ei \in Evictions("ip", i), et \in Evictions("token", t) :
    /\ buckets' = [l \in Limiters |-> IF l = "ip" THEN After(l, i, ei) ELSE After(l, t, et)]
    /\ granted' = [l \in Limiters |-> IF l = "ip" THEN Tally(l, i, ei) ELSE Tally(l, t, et)]

(***************************************************************************)
(* machineRouteLimit: the address first; only a request it lets through    *)
(* spends of its credential's bucket.                                      *)
(***************************************************************************)
Request(i, t) ==
  /\ IF Allowed("ip", i) /\ t # NoToken THEN Both(i, t) ELSE Allow("ip", i)
  /\ UNCHANGED <<now, forward>>

(* machineCredentialLimit: the credential came with the body. *)
Credential(t) == Allow("token", t) /\ UNCHANGED <<now, forward>>

(* Date.now moves on, or is set back. *)
Advance ==
  /\ now < MaxTime /\ forward < MaxForward
  /\ now' = now + 1 /\ forward' = forward + 1
  /\ UNCHANGED <<buckets, granted>>
SetBack ==
  /\ \E t \in 0..MaxTime : t < now /\ now' = t
  /\ UNCHANGED <<buckets, forward, granted>>

Next ==
  \/ \E i \in Ips, t \in Tokens \cup {NoToken} : Request(i, t)
  \/ \E t \in Tokens : Credential(t)
  \/ Advance
  \/ SetBack

Spec == Init /\ [][Next]_vars

(***************************************************************************)
(* Since a bucket was made it has granted no more than its burst and what  *)
(* the forward moves of the clock refilled, less what it still holds: a    *)
(* clock that is set back and moves on again refills twice and never more  *)
(* than it moved, and no rest, however long, saves up more than one burst. *)
(***************************************************************************)
RateIsBounded ==
  \A l \in Limiters : \A k \in Held(l) :
    /\ buckets[l][k].tokens <= Capacity[l]
    /\ Cost * granted[l][k].count + buckets[l][k].tokens + Refill[l] * Elapsed(buckets[l][k])
         <= Capacity[l] + Refill[l] * (forward - granted[l][k].since)
=============================================================================
