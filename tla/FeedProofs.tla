------------------------------ MODULE FeedProofs ------------------------------
(***************************************************************************)
(* run_feed uses its bucket as TokenBucket describes, for every setting of *)
(* the backoff, the rates and the venue's habits.                          *)
(***************************************************************************)
EXTENDS Feed, FiniteSetTheorems, TLAPS

(* The part of the type invariant the bucket depends on. *)
BucketTypeOK ==
  /\ tokens \in 0..Capacity
  /\ since \in 0..MaxSince
  /\ phase = "throttled" => sleep \in Nat

LEMMA RefillRange ==
  ASSUME NEW t \in 0..Capacity, NEW e \in Nat
  PROVE  Refilled(t, e) \in 0..Capacity /\ Refilled(t, 0) = t
<1> DEFINE p == e * Rate
<1>1. p \in Nat /\ 0 * Rate = 0
  BY ConnectRateAssumption
<1> QED BY <1>1, ConnectRateAssumption DEF Refilled

(* What is missing from the bucket shrinks by Rate per unit of time. *)
LEMMA MissingOneLater ==
  ASSUME NEW t \in 0..Capacity, NEW e \in 0..MaxSince
  PROVE  LET missing == Capacity - Refilled(t, e)
         IN  Capacity - Refilled(t, OneLater(e)) = IF missing > Rate THEN missing - Rate ELSE 0
<1>1. e * Rate \in Nat
  BY ConnectRateAssumption
<1>2. CASE e < MaxSince
  <2>1. (e + 1) * Rate = e * Rate + Rate
    BY ConnectRateAssumption
  <2>2. OneLater(e) = e + 1
    BY <1>2 DEF OneLater
  <2> QED BY <1>1, <2>1, <2>2, ConnectRateAssumption DEF Refilled
<1>3. CASE e = MaxSince
  <2>1. OneLater(e) = e
    BY <1>3, ConnectRateAssumption DEF OneLater
  <2>2. t + e * Rate >= Capacity
    BY <1>3, ConnectRateAssumption
  <2> QED BY <1>1, <2>1, <2>2, ConnectRateAssumption DEF Refilled
<1> QED BY <1>2, <1>3, ConnectRateAssumption

(* A deficit takes a natural number of units to refill. *)
LEMMA WaitForType ==
  ASSUME NEW t \in 0..Capacity, t < Token
  PROVE  WaitFor(t) \in Nat
<1>1. Token - t + Rate - 1 \in Nat
  BY ConnectRateAssumption
<1> QED BY <1>1, ConnectRateAssumption DEF WaitFor

(* The steps that leave the bucket and its caller's state alone. *)
Elsewhere ==
  /\ phase \notin {"acquiring", "throttled"}
  /\ phase' \notin {"acquiring", "throttled"}
  /\ UNCHANGED bucket

LEMMA StepsElsewhere ==
  ASSUME \/ ConnectFails \/ Connects \/ Subscribes \/ SubscribeFails
         \/ ReadBook \/ Sent \/ ReadOther \/ ConnectionEnds
         \/ PingIdle \/ PingFails
  PROVE  Elsewhere
BY DEF ConnectFails, Connects, Subscribes, SubscribeFails, ReadBook, Sent, ReadOther,
       ConnectionEnds, PingIdle, PingFails, IdleTimeout, BackOff, bucket, Elsewhere

(* The steps of the world that leave the task alone. *)
Aside == UNCHANGED <<phase, sleep, bucket>>

LEMMA StepsAside ==
  ASSUME LinkDies \/ StreamBreaks \/ AsksReconnect \/ Heal \/ UNCHANGED vars
  PROVE  Aside
BY DEF LinkDies, StreamBreaks, AsksReconnect, Heal, vars, backoff, bucket, connection, Aside

(* The bucket of a feed is well typed. *)
THEOREM BucketTypeCorrect == Spec => []BucketTypeOK
<1>1. Init => BucketTypeOK
  BY ConnectRateAssumption DEF Init, BucketTypeOK
<1>2. BucketTypeOK /\ [Next]_vars => BucketTypeOK'
  <2> SUFFICES ASSUME BucketTypeOK, [Next]_vars
               PROVE  BucketTypeOK'
    OBVIOUS
  <2>1. CASE Elsewhere
    BY <2>1 DEF Elsewhere, bucket, BucketTypeOK
  <2>2. CASE Aside
    BY <2>2 DEF Aside, bucket, BucketTypeOK
  <2>3. CASE BackoffOver \/ ThrottleOver
    BY <2>3 DEF BackoffOver, ThrottleOver, bucket, BucketTypeOK
  <2>4. CASE Acquire
    <3>1. Refilled(tokens, since) \in 0..Capacity
      BY RefillRange DEF BucketTypeOK
    <3> QED BY <2>4, <3>1, ConnectRateAssumption DEF Acquire, BucketTypeOK
  <2>5. CASE Throttle
    <3>1. Refilled(tokens, since) \in 0..Capacity
      BY RefillRange DEF BucketTypeOK
    <3> QED BY <2>5, <3>1, WaitForType, ConnectRateAssumption DEF Throttle, BucketTypeOK
  <2>6. CASE Tick
    <3>1. since' \in 0..MaxSince
      BY <2>6, ConnectRateAssumption DEF Tick, BucketTypeOK, OneLater
    <3> QED BY <2>6, <3>1 DEF Tick, BucketTypeOK
  <2> QED BY <2>1, <2>2, <2>3, <2>4, <2>5, <2>6, StepsElsewhere, StepsAside DEF Next
<1> QED BY <1>1, <1>2, PTL DEF Spec

(* 2^a, as the number of subsets of a set of a elements. *)
LEMMA PowerOfTwo == ASSUME NEW a \in Nat PROVE 2^a \in Nat
<1>1. IsFiniteSet(1..a) /\ Cardinality(1..a) = a
  BY FS_Interval
<1>2. IsFiniteSet(SUBSET (1..a)) /\ Cardinality(SUBSET (1..a)) = 2^a
  BY <1>1, FS_SUBSET
<1> QED BY <1>2, FS_CardinalityType

LEMMA DelayType ==
  ASSUME NEW a \in Nat
  PROVE  Delay(a) \in Nat /\ Jittered(Delay(a)) \subseteq Nat
<1>1. Second * 2^a \in Nat
  BY PowerOfTwo, FeedAssumption
<1>2. Delay(a) \in Nat
  BY <1>1, FeedAssumption DEF Delay
<1> HIDE DEF Delay
<1> QED BY <1>2 DEF Jittered

(* However a connection ends, nothing of it is left behind. *)
LEMMA BackOffType ==
  ASSUME TypeOK, NEW a \in 0..AttemptCap, BackOff(a)
  PROVE  TypeOK'
<1>1. sleep' \in Nat
  BY DelayType, FeedAssumption DEF BackOff
<1>2. attempt' \in 0..AttemptCap
  BY FeedAssumption DEF BackOff
<1> QED BY <1>1, <1>2, FeedAssumption DEF BackOff, TypeOK, bucket, Connected

(* run_feed is well typed for every setting, and a connection is there in  *)
(* exactly the phases that use one.                                        *)
THEOREM TypeCorrect == Spec => []TypeOK
<1>1. Init => TypeOK
  BY ConnectRateAssumption, FeedAssumption DEF Init, TypeOK, Connected
<1>2. TypeOK /\ [Next]_vars => TypeOK'
  <2> SUFFICES ASSUME TypeOK, [Next]_vars
               PROVE  TypeOK'
    OBVIOUS
  <2> USE DEF backoff, bucket, connection
  <2>1. CASE ConnectFails \/ SubscribeFails \/ ConnectionEnds \/ PingFails
    <3>1. attempt \in 0..AttemptCap /\ ResetIfStable \in 0..AttemptCap
      BY FeedAssumption DEF TypeOK, ResetIfStable
    <3>2. BackOff(attempt) \/ BackOff(ResetIfStable)
      BY <2>1 DEF ConnectFails, SubscribeFails, ConnectionEnds, PingFails
    <3> QED BY <3>1, <3>2, BackOffType
  <2>2. CASE Connects \/ Subscribes
    BY <2>2 DEF Connects, Subscribes, TypeOK, Connected
  <2>3. CASE ReadBook \/ Sent \/ ReadOther \/ PingIdle
    BY <2>3, FeedAssumption
       DEF ReadBook, Sent, ReadOther, PingIdle, IdleTimeout, TypeOK, Connected
  <2>4. CASE BackoffOver \/ ThrottleOver
    BY <2>4 DEF BackoffOver, ThrottleOver, TypeOK, Connected
  <2>5. CASE Acquire \/ Throttle
    <3>1. Refilled(tokens, since) \in 0..Capacity
      <4>1. tokens \in 0..Capacity /\ since \in Nat
        BY ConnectRateAssumption DEF TypeOK
      <4> QED BY <4>1, RefillRange
    <3>2. tokens' \in 0..Capacity /\ since' \in 0..MaxSince
      BY <2>5, <3>1, ConnectRateAssumption DEF Acquire, Throttle
    <3>3. sleep' \in Nat
      BY <2>5, <3>1, WaitForType DEF Acquire, Throttle, TypeOK
    <3> QED BY <2>5, <3>2, <3>3 DEF Acquire, Throttle, TypeOK, Connected
  <2>6. CASE LinkDies \/ StreamBreaks \/ AsksReconnect \/ Heal
    BY <2>6 DEF LinkDies, StreamBreaks, AsksReconnect, Heal, TypeOK, Connected
  <2>7. CASE Tick
    <3>1. since' \in 0..MaxSince
      BY <2>7, ConnectRateAssumption DEF Tick, TypeOK, OneLater
    <3>2. sleep' \in Nat /\ held' \in 0..StabilityWindow + 1 /\ idle' \in 0..IdlePing
      BY <2>7, FeedAssumption DEF Tick, TypeOK
    <3> QED BY <2>7, <3>1, <3>2 DEF Tick, TypeOK, Connected
  <2>8. CASE UNCHANGED vars
    BY <2>8 DEF vars, TypeOK, Connected
  <2> QED BY <2>1, <2>2, <2>3, <2>4, <2>5, <2>6, <2>7, <2>8 DEF Next
<1> QED BY <1>1, <1>2, PTL DEF Spec

(* Every step of a feed is a step of its bucket or leaves it alone: the    *)
(* ceiling TokenBucket guarantees holds for run_feed's reconnects.         *)
THEOREM FeedImplementsBucket == Spec => ImplementsBucket
<1> USE DEF Bucket!Refilled, Bucket!WaitFor, Bucket!OneLater
<1>1. Init => Bucket!Init
  <2> SUFFICES ASSUME Init
               PROVE  Bucket!Init
    OBVIOUS
  <2>1. Refilled(Capacity, 0) = Capacity
    BY RefillRange, ConnectRateAssumption
  <2> QED BY <2>1, ConnectRateAssumption DEF Init, Bucket!Init
<1>2. BucketTypeOK /\ [Next]_vars => [Bucket!Next]_Bucket!vars
  <2> SUFFICES ASSUME BucketTypeOK, [Next]_vars
               PROVE  [Bucket!Next]_Bucket!vars
    OBVIOUS
  <2>1. CASE Elsewhere
    BY <2>1 DEF Elsewhere, bucket, Bucket!vars, Refilled
  <2>2. CASE Aside
    BY <2>2 DEF Aside, bucket, Bucket!vars, Refilled
  <2>3. CASE BackoffOver
    <3>1. Bucket!Ask
      BY <2>3 DEF BackoffOver, backoff, bucket, Bucket!Ask, Refilled
    <3> QED BY <3>1 DEF Bucket!Next
  <2>4. CASE Acquire
    <3>1. Refilled(tokens, since) \in 0..Capacity
      BY RefillRange DEF BucketTypeOK
    <3>2. Refilled(tokens', since') = tokens'
      <4>1. tokens' \in 0..Capacity /\ since' = 0
        BY <2>4, <3>1, ConnectRateAssumption DEF Acquire
      <4> QED BY <4>1, RefillRange
    <3>3. Bucket!Grant
      BY <2>4, <3>1, <3>2, ConnectRateAssumption DEF Acquire, Bucket!Grant, Refilled
    <3> QED BY <3>3 DEF Bucket!Next
  <2>5. CASE Throttle
    <3>1. Refilled(tokens, since) \in 0..Capacity
      BY RefillRange DEF BucketTypeOK
    <3>2. Refilled(tokens', since') = tokens'
      BY <2>5, <3>1, RefillRange, ConnectRateAssumption DEF Throttle
    <3>3. Bucket!Sleep
      BY <2>5, <3>1, <3>2, ConnectRateAssumption DEF Throttle, WaitFor, Bucket!Sleep, Refilled
    <3> QED BY <3>3 DEF Bucket!Next
  <2>6. CASE ThrottleOver
    <3>1. Bucket!Wake
      BY <2>6 DEF ThrottleOver, backoff, bucket, Bucket!Wake, Refilled
    <3> QED BY <3>1 DEF Bucket!Next
  <2>7. CASE Tick
    <3>1. Bucket!Tick
      BY <2>7, MissingOneLater DEF Tick, BucketTypeOK, OneLater, Bucket!Tick, Refilled
    <3> QED BY <3>1 DEF Bucket!Next
  <2> QED BY <2>1, <2>2, <2>3, <2>4, <2>5, <2>6, <2>7, StepsElsewhere, StepsAside DEF Next
<1> QED BY <1>1, <1>2, BucketTypeCorrect, PTL DEF Spec, ImplementsBucket, Bucket!Spec
----------------------------------------------------------------------------
(* Refilling twice is refilling for both times. *)
LEMMA RefilledTwice ==
  ASSUME NEW t \in 0..Capacity, NEW e \in Nat, NEW f \in Nat
  PROVE  Refilled(t, e + f) = Refilled(Refilled(t, e), f)
<1>1. (e + f) * Rate = e * Rate + f * Rate /\ e * Rate \in Nat /\ f * Rate \in Nat
  BY ConnectRateAssumption
<1> QED BY <1>1, ConnectRateAssumption DEF Refilled

(* More left and more time make a fuller bucket. *)
LEMMA RefillGrows ==
  ASSUME NEW t \in 0..Capacity, NEW u \in 0..Capacity, t <= u,
         NEW e \in Nat, NEW f \in Nat, e <= f
  PROVE  Refilled(t, e) <= Refilled(u, f)
<1>1. PICK d \in Nat : f = e + d
  <2>1. f - e \in Nat /\ f = e + (f - e)
    OBVIOUS
  <2> QED BY <2>1
<1>2. f * Rate = e * Rate + d * Rate /\ e * Rate \in Nat /\ d * Rate \in Nat
  BY <1>1, ConnectRateAssumption
<1> QED BY <1>2, ConnectRateAssumption DEF Refilled

(* MaxSince is long enough to fill any bucket. *)
LEMMA FullAtLast ==
  ASSUME NEW t \in 0..Capacity, NEW e \in Nat, e >= MaxSince
  PROVE  Refilled(t, e) = Capacity
<1>1. Refilled(0, MaxSince) <= Refilled(t, e)
  BY RefillGrows, ConnectRateAssumption
<1>2. Refilled(0, MaxSince) = Capacity
  BY ConnectRateAssumption DEF Refilled
<1>3. Refilled(t, e) \in 0..Capacity
  BY RefillRange
<1> QED BY <1>1, <1>2, <1>3, ConnectRateAssumption

(* What BucketNeverThrottles needs to be inductive: what is in the bucket, *)
(* and what will be when the backoff is over.                              *)
RateInv(left) ==
  /\ phase # "throttled"
  /\ phase \in {"backoff", "acquiring"} =>
       Refilled(tokens, since + sleep) >= left[attempt] + Token
  /\ phase = "acquiring" => sleep = 0
  /\ phase \notin {"backoff", "acquiring"} => Refilled(tokens, since) >= left[attempt]
  /\ Refilled(tokens, since) >= Refilled(0, held)
  /\ ~Connected => held = 0

(* A connection that ends, or is not made, leaves enough for a token when  *)
(* its delay is over.                                                      *)
LEMMA BackOffLeavesEnough ==
  ASSUME NEW left, Outpaces(left), TypeOK, NEW a \in 0..AttemptCap, BackOff(a),
         Refilled(tokens, since) >= left[a]
  PROVE  RateInv(left)'
<1> DEFINE next == IF a < AttemptCap THEN a + 1 ELSE a
           now == Refilled(tokens, since)
<1>1. tokens \in 0..Capacity /\ since \in Nat /\ now \in 0..Capacity
  <2>1. tokens \in 0..Capacity /\ since \in Nat
    BY ConnectRateAssumption DEF TypeOK
  <2> QED BY <2>1, RefillRange
<1>2. left[a] \in 0..Capacity /\ left[next] \in 0..Capacity
  BY FeedAssumption DEF Outpaces
<1>3. Refilled(left[a], Delay(a) \div 2) >= left[next] + Token
  BY DEF Outpaces
<1>4. /\ phase' = "backoff" /\ attempt' = next /\ held' = 0
      /\ tokens' = tokens /\ since' = since
      /\ sleep' \in Jittered(Delay(a))
  BY DEF BackOff, bucket
<1>5. sleep' \in Nat /\ Delay(a) \div 2 \in Nat /\ Delay(a) \div 2 <= sleep'
  <2>1. Delay(a) \in Nat
    BY DelayType, FeedAssumption
  <2> HIDE DEF Delay
  <2> QED BY <1>4, <2>1 DEF Jittered
<1>6. Refilled(tokens, since + sleep') = Refilled(now, sleep')
  BY <1>1, <1>5, RefilledTwice
<1>7. Refilled(left[a], Delay(a) \div 2) <= Refilled(now, sleep')
  BY <1>1, <1>2, <1>5, RefillGrows
<1>8. Refilled(tokens', since' + sleep') >= left[attempt'] + Token
  <2>1. /\ Refilled(now, sleep') \in 0..Capacity
        /\ Refilled(left[a], Delay(a) \div 2) \in 0..Capacity
    BY <1>1, <1>2, <1>5, RefillRange
  <2>2. Refilled(now, sleep') >= left[next] + Token
    BY <1>2, <1>3, <1>7, <2>1, ConnectRateAssumption
  <2> QED BY <1>4, <1>6, <2>2
<1>9. Refilled(tokens', since') >= Refilled(0, held')
  BY <1>1, <1>4, RefillRange, ConnectRateAssumption
<1> QED BY <1>4, <1>8, <1>9 DEF RateInv, Connected

(* Time refills the bucket no slower than it runs off the sleep, or adds   *)
(* to the time held.                                                       *)
LEMMA TickLeavesEnough ==
  ASSUME NEW left, Outpaces(left), TypeOK, RateInv(left), Tick
  PROVE  RateInv(left)'
<1>1. /\ tokens \in 0..Capacity /\ since \in 0..MaxSince /\ since \in Nat
      /\ sleep \in Nat /\ held \in Nat /\ left[attempt] \in 0..Capacity
  BY ConnectRateAssumption, FeedAssumption DEF TypeOK, Outpaces
<1>2. /\ tokens' = tokens /\ attempt' = attempt /\ phase' = phase
      /\ since' = OneLater(since) /\ since' \in Nat /\ since <= since'
      /\ sleep' = (IF sleep > 0 THEN sleep - 1 ELSE 0) /\ sleep' \in Nat
      /\ held' = IF Connected /\ held <= StabilityWindow THEN held + 1 ELSE held
  BY <1>1 DEF Tick, OneLater
<1> DEFINE now == Refilled(tokens, since)
           then == Refilled(tokens', since')
<1>3. now \in 0..Capacity /\ then \in 0..Capacity /\ now <= then
  BY <1>1, <1>2, RefillRange, RefillGrows
<1>4. Refilled(tokens', since' + sleep') >= Refilled(tokens, since + sleep)
  <2>1. since + sleep \in Nat /\ since' + sleep' \in Nat
    BY <1>1, <1>2
  <2>2. /\ Refilled(tokens, since + sleep) \in 0..Capacity
        /\ Refilled(tokens, since' + sleep') \in 0..Capacity
    BY <1>1, <2>1, RefillRange
  <2>3. CASE since < MaxSince \/ sleep = 0
    <3>1. since + sleep <= since' + sleep'
      BY <1>1, <1>2, <2>3 DEF OneLater
    <3> QED BY <1>1, <1>2, <2>1, <3>1, RefillGrows
  <2>4. CASE since = MaxSince
    <3>1. since' + sleep' >= MaxSince
      BY <1>1, <1>2, <2>4, ConnectRateAssumption
    <3>2. Refilled(tokens, since' + sleep') = Capacity
      BY <1>1, <2>1, <3>1, FullAtLast
    <3> QED BY <1>2, <2>2, <3>2, ConnectRateAssumption
  <2> QED BY <1>1, <2>3, <2>4, ConnectRateAssumption
<1>5. phase' \in {"backoff", "acquiring"} =>
        Refilled(tokens', since' + sleep') >= left[attempt'] + Token
  <2>1. since + sleep \in Nat /\ since' + sleep' \in Nat
    BY <1>1, <1>2
  <2>2. /\ Refilled(tokens, since' + sleep') \in 0..Capacity
        /\ Refilled(tokens, since + sleep) \in 0..Capacity
    BY <1>1, <2>1, RefillRange
  <2> QED BY <1>1, <1>2, <1>4, <2>2, ConnectRateAssumption DEF RateInv
<1>6. then >= Refilled(0, held')
  <2>1. now >= Refilled(0, held) /\ Refilled(0, held) \in 0..Capacity
    BY <1>1, RefillRange, ConnectRateAssumption DEF RateInv
  <2>2. CASE held' = held
    BY <1>3, <2>1, <2>2
  <2>3. CASE held' = held + 1
    <3>1. Refilled(0, held + 1) = Refilled(Refilled(0, held), 1)
      BY <1>1, RefilledTwice, ConnectRateAssumption
    <3>2. Refilled(Refilled(0, held), 1) <= Refilled(now, 1)
      BY <1>3, <2>1, RefillGrows
    <3>3. Refilled(now, 1) = IF now + Rate < Capacity THEN now + Rate ELSE Capacity
      BY ConnectRateAssumption DEF Refilled
    <3>4. then >= Refilled(now, 1)
      <4>1. Capacity - then = IF Capacity - now > Rate THEN Capacity - now - Rate ELSE 0
        BY <1>1, <1>2, MissingOneLater
      <4> QED BY <1>3, <3>3, <4>1, ConnectRateAssumption
    <3>5. Refilled(now, 1) \in 0..Capacity /\ Refilled(0, held + 1) \in 0..Capacity
      <4>1. held + 1 \in Nat /\ 1 \in Nat /\ 0 \in 0..Capacity
        BY <1>1, ConnectRateAssumption
      <4> QED BY <1>3, <4>1, RefillRange
    <3> QED BY <1>3, <2>3, <3>1, <3>2, <3>4, <3>5
  <2> QED BY <1>2, <2>2, <2>3
<1>7. phase' \notin {"backoff", "acquiring"} => then >= left[attempt']
  BY <1>1, <1>2, <1>3 DEF RateInv
<1>8. (phase' = "acquiring" => sleep' = 0) /\ (~Connected' => held' = 0)
  BY <1>1, <1>2 DEF RateInv, Connected
<1> QED BY <1>2, <1>5, <1>6, <1>7, <1>8 DEF RateInv

(* Where the delays and rates are as in src/feed.rs (BackoffSuffices of    *)
(* MCFeed: the shortest delays of the backoff refill what an attempt takes)*)
(* run_feed never waits for its bucket, whatever the venue does.           *)
THEOREM NeverThrottles ==
  ASSUME NEW left, Outpaces(left)
  PROVE  Spec => []BucketNeverThrottles
<1>1. Init => RateInv(left)
  <2> SUFFICES ASSUME Init
               PROVE  RateInv(left)
    OBVIOUS
  <2>1. Refilled(Capacity, 0) = Capacity /\ Refilled(0, 0) = 0
    BY RefillRange, ConnectRateAssumption
  <2>2. left[0] \in 0..Capacity
    BY FeedAssumption DEF Outpaces
  <2> QED BY <2>1, <2>2, ConnectRateAssumption DEF Init, RateInv, Connected
<1>2. TypeOK /\ RateInv(left) /\ [Next]_vars => RateInv(left)'
  <2> SUFFICES ASSUME TypeOK, RateInv(left), [Next]_vars
               PROVE  RateInv(left)'
    OBVIOUS
  <2> USE DEF backoff, bucket, connection
  <2>0. /\ tokens \in 0..Capacity /\ since \in Nat /\ held \in 0..StabilityWindow + 1
        /\ attempt \in 0..AttemptCap /\ 0 \in 0..AttemptCap
        /\ left[attempt] \in 0..Capacity /\ left[0] \in 0..Capacity
        /\ Refilled(tokens, since) \in 0..Capacity
    <3>1. /\ tokens \in 0..Capacity /\ since \in Nat /\ held \in 0..StabilityWindow + 1
          /\ attempt \in 0..AttemptCap /\ 0 \in 0..AttemptCap
      BY ConnectRateAssumption, FeedAssumption DEF TypeOK
    <3>2. left[attempt] \in 0..Capacity /\ left[0] \in 0..Capacity
      BY <3>1 DEF Outpaces
    <3> QED BY <3>1, <3>2, RefillRange
  <2>1. CASE ConnectFails
    <3>1. BackOff(attempt) /\ Refilled(tokens, since) >= left[attempt]
      BY <2>1 DEF ConnectFails, RateInv
    <3> QED BY <2>0, <3>1, BackOffLeavesEnough
  <2>2. CASE SubscribeFails \/ ConnectionEnds \/ PingFails
    <3>1. BackOff(ResetIfStable) /\ phase \notin {"backoff", "acquiring"}
      BY <2>2 DEF SubscribeFails, ConnectionEnds, PingFails, IdleTimeout
    <3>2. Refilled(tokens, since) >= left[ResetIfStable] /\ ResetIfStable \in 0..AttemptCap
      <4>1. CASE held > StabilityWindow
        <5>1. held = StabilityWindow + 1
          BY <2>0, <4>1, FeedAssumption
        <5>2. Refilled(tokens, since) >= Capacity
          BY <5>1 DEF RateInv, Outpaces
        <5> QED BY <2>0, <4>1, <5>2, ConnectRateAssumption DEF ResetIfStable
      <4>2. CASE ~(held > StabilityWindow)
        BY <2>0, <3>1, <4>2 DEF RateInv, ResetIfStable
      <4> QED BY <4>1, <4>2
    <3> QED BY <3>1, <3>2, BackOffLeavesEnough
  <2>3. CASE Connects \/ Subscribes
    BY <2>3 DEF Connects, Subscribes, RateInv, Connected
  <2>4. CASE ReadBook \/ Sent \/ ReadOther \/ PingIdle
    BY <2>4 DEF ReadBook, Sent, ReadOther, PingIdle, IdleTimeout, RateInv, Connected
  <2>5. CASE BackoffOver
    BY <2>5 DEF BackoffOver, RateInv, Connected
  <2>6. CASE ThrottleOver
    BY <2>6 DEF ThrottleOver, RateInv
  <2>7. CASE Acquire \/ Throttle
    <3>1. sleep = 0 /\ since + sleep = since /\ phase = "acquiring"
      BY <2>0, <2>7 DEF Acquire, Throttle, RateInv
    <3>2. Refilled(tokens, since) >= left[attempt] + Token /\ held = 0
      BY <3>1 DEF RateInv, Connected
    <3>3. CASE Throttle
      BY <2>0, <3>2, <3>3, ConnectRateAssumption DEF Throttle
    <3>4. CASE Acquire
      <4>1. /\ tokens' = Refilled(tokens, since) - Token /\ since' = 0
            /\ phase' = "connecting" /\ attempt' = attempt /\ held' = 0
        BY <3>2, <3>4 DEF Acquire
      <4>2. tokens' \in 0..Capacity /\ tokens' >= left[attempt]
        BY <2>0, <3>2, <4>1, ConnectRateAssumption
      <4>3. Refilled(tokens', since') = tokens' /\ Refilled(0, held') = 0
        BY <4>1, <4>2, RefillRange, ConnectRateAssumption
      <4> QED BY <4>1, <4>2, <4>3 DEF RateInv
    <3> QED BY <2>7, <3>3, <3>4
  <2>8. CASE LinkDies \/ StreamBreaks \/ AsksReconnect \/ Heal
    BY <2>8 DEF LinkDies, StreamBreaks, AsksReconnect, Heal, RateInv, Connected
  <2>9. CASE Tick
    BY <2>9, TickLeavesEnough
  <2>10. CASE UNCHANGED vars
    BY <2>10 DEF vars, RateInv, Connected
  <2> QED BY <2>1, <2>2, <2>3, <2>4, <2>5, <2>6, <2>7, <2>8, <2>9, <2>10 DEF Next
<1>3. RateInv(left) => BucketNeverThrottles
  BY DEF RateInv, BucketNeverThrottles
<1> QED BY <1>1, <1>2, <1>3, TypeCorrect, PTL DEF Spec
===============================================================================
