------------------------------ MODULE Throttle ------------------------------
(***************************************************************************)
(* The rate limit of one client on one route: a bucket of Limit tokens in  *)
(* Redis that refills in Ttl milliseconds.  An API instance stamps a call  *)
(* with its own clock and then runs the script, in Redis, as one step; the *)
(* calls of several instances arrive out of order.  Tokens are counted in  *)
(* parts: Ttl parts make a token, and Limit of them come back each         *)
(* millisecond, so that the numbers stay whole.                            *)
(***************************************************************************)
EXTENDS Integers

CONSTANTS
  Hits,          \* bound: the calls of a behaviour
  Limit, Ttl,
  Life,          \* how long Redis keeps a bucket that nobody asks
  Skew,          \* how far the clocks of the instances run ahead or behind
  MaxTime        \* bound on the clock

VARIABLES
  clock,       \* the time in Redis
  bucket,      \* the parts in it, the stamp of its last refill, and when it was touched
  hit,         \* each call: its stamp and what it was told
  window,      \* ghost: the calls admitted from some stamp on, and by how much
               \* the stamps ran backwards since
  retryAt      \* ghost: when the last call was told to come back, -1 if admitted

throttleVars == <<clock, bucket, hit, window, retryAt>>

ASSUME ThrottleAssumption ==
  /\ Limit \in Nat \ {0} /\ Ttl \in Nat \ {0}
  /\ Life \in Nat /\ Life > Ttl
  /\ Skew \in Nat /\ MaxTime \in Nat

Capacity == Limit * Ttl
HitSteps == {"idle", "stamped", "admitted", "blocked"}
ThrottleTypeOK ==
  /\ clock \in Nat
  /\ bucket \in [parts : 0..Capacity, stamp : Int, touched : Int, there : BOOLEAN]
  /\ hit \in [Hits -> [at : HitSteps, stamp : Int]]
  /\ window \in [open : BOOLEAN, from : Int, admitted : Nat, slack : Nat]
  /\ retryAt \in Int

ThrottleInit ==
  /\ clock = 0
  /\ bucket = [parts |-> Capacity, stamp |-> 0, touched |-> 0, there |-> FALSE]
  /\ hit = [h \in Hits |-> [at |-> "idle", stamp |-> 0]]
  /\ window = [open |-> FALSE, from |-> 0, admitted |-> 0, slack |-> 0]
  /\ retryAt = -1

AtLeast0(n) == IF n > 0 THEN n ELSE 0
AtMostFull(n) == IF n > Capacity THEN Capacity ELSE n

Tick ==
  /\ clock < MaxTime
  /\ clock' = clock + 1
  /\ UNCHANGED <<bucket, hit, window, retryAt>>

\* increment: Date.now().
Stamp(h, now) ==
  /\ hit[h].at = "idle" /\ h = CHOOSE k \in Hits : hit[k].at = "idle"
  /\ hit' = [hit EXCEPT ![h] = [at |-> "stamped", stamp |-> now]]
  /\ UNCHANGED <<clock, bucket, window, retryAt>>

\* The script: what is in the bucket for a call with this stamp, and what it leaves.
Kept == bucket.there /\ clock < bucket.touched + Life
Overfilled(now) ==
  IF Kept THEN bucket.parts + AtLeast0(now - bucket.stamp) * Limit ELSE Capacity
Refilled(now) ==
  IF Kept THEN AtMostFull(bucket.parts + AtLeast0(now - bucket.stamp) * Limit) ELSE Capacity
Admits(now) == Refilled(now) >= Ttl
Left(now) == Refilled(now) - (IF Admits(now) THEN Ttl ELSE 0)

\* msUntilNextToken, rounded up.
WaitTooShort(now) == (Ttl - Left(now)) \div Limit
Wait(now) == (Ttl - Left(now) + Limit - 1) \div Limit

\* How much the window lost to a stamp before the last, or to a call that was
\* stamped before its bucket was dropped and arrived after.
Backwards(now) == AtLeast0((IF Kept THEN bucket.stamp ELSE bucket.stamp + Ttl) - now)
Counted(now, opens) ==
  LET one == IF Admits(now) THEN 1 ELSE 0 IN
  CASE opens -> [open |-> TRUE, from |-> now, admitted |-> one, slack |-> 0]
    [] ~opens /\ window.open ->
         [window EXCEPT !.admitted = @ + one, !.slack = @ + Backwards(now)]
    [] OTHER -> window

Evaluate(h, opens) ==
  LET now == hit[h].stamp IN
  /\ hit[h].at = "stamped"
  /\ opens => ~window.open
  /\ bucket' = [parts |-> Left(now), stamp |-> now, touched |-> clock, there |-> TRUE]
  /\ hit' = [hit EXCEPT ![h] = [at |-> IF Admits(now) THEN "admitted" ELSE "blocked", stamp |-> 0]]
  /\ window' = Counted(now, opens)
  /\ retryAt' = IF Admits(now) THEN -1 ELSE AtLeast0(now + Wait(now))
  /\ UNCHANGED clock

ThrottleNext ==
  \/ Tick
  \/ \E h \in Hits :
       \/ \E now \in (clock - Skew)..(clock + Skew) : Stamp(h, now)
       \/ \E opens \in BOOLEAN : Evaluate(h, opens)
ThrottleSpec == ThrottleInit /\ [][ThrottleNext]_throttleVars

-----------------------------------------------------------------------------
\* From any call on, no more are admitted than a full bucket and what time refills:
\* "concurrent requests for the same key can't race past each other"
\* (token-bucket-throttler.storage.ts:21-22), a dropped bucket included.  Stamps
\* that run backwards credit their time twice, and no more than that.
RateHolds ==
  window.open =>
    window.admitted * Ttl <= Capacity + Limit * (bucket.stamp - window.from + window.slack)

\* A call told to come back after some time is admitted when it does, if nobody
\* else asked meanwhile; waiting does not leave it at a wall.
RetriesAreAdmitted ==
  [][\A h \in Hits :
       hit[h].at = "stamped" /\ hit'[h].at # "stamped" /\ retryAt # -1 /\ hit[h].stamp >= retryAt
         => hit'[h].at = "admitted"]_throttleVars

\* The bucket holds its rate and its word: no more calls than it says, and none that
\* waited as it was told is blocked again.
BucketKeepsItsWord == []RateHolds /\ RetriesAreAdmitted
=============================================================================
