-------------------------- MODULE TokenBucketProofs --------------------------
(***************************************************************************)
(* The ceiling of TokenBucket for every capacity and refill rate.          *)
(***************************************************************************)
EXTENDS TokenBucket, TLAPS

(* A refill never loses tokens, never exceeds the capacity, and a          *)
(* fraction left unrefilled for one more unit of time gains at most Rate.  *)
LEMMA RefillBounds ==
  ASSUME NEW t \in 0..Capacity, NEW e \in Nat
  PROVE  /\ Refilled(t, e) \in 0..Capacity
         /\ Refilled(t, e) >= t
         /\ Refilled(t, e) <= t + e * Rate
         /\ Refilled(t, 0) = t
<1> DEFINE p == e * Rate
<1>1. p \in Nat
  BY ConnectRateAssumption
<1>2. 0 * Rate = 0
  BY ConnectRateAssumption
<1> QED BY <1>1, <1>2, ConnectRateAssumption DEF Refilled

(* One unit of time later a refill would yield at most Rate more, and no   *)
(* more than before if it had already reached the capacity.                *)
LEMMA RefillOneLater ==
  ASSUME NEW t \in 0..Capacity, NEW e \in 0..MaxSince
  PROVE  \/ Refilled(t, OneLater(e)) = Refilled(t, e) /\ Refilled(t, e) = Capacity
         \/ /\ Refilled(t, OneLater(e)) <= Refilled(t, e) + Rate
            /\ Refilled(t, OneLater(e)) \in 0..Capacity
<1>1. CASE e < MaxSince
  <2>1. (e + 1) * Rate = e * Rate + Rate
    BY ConnectRateAssumption
  <2>2. e * Rate \in Nat
    BY ConnectRateAssumption
  <2>3. OneLater(e) = e + 1
    BY <1>1 DEF OneLater
  <2> QED BY <2>1, <2>2, <2>3, ConnectRateAssumption DEF Refilled
<1>2. CASE e = MaxSince
  <2>1. OneLater(e) = e
    BY <1>2, ConnectRateAssumption DEF OneLater
  <2>2. t + e * Rate >= Capacity
    BY <1>2, ConnectRateAssumption
  <2>3. Refilled(t, e) = Capacity
    BY <2>2, ConnectRateAssumption DEF Refilled
  <2> QED BY <2>1, <2>3
<1> QED BY <1>1, <1>2, ConnectRateAssumption

(* The sleep is long enough to refill what is missing. *)
LEMMA WaitSuffices ==
  ASSUME NEW t \in 0..Capacity, t < Token
  PROVE  WaitFor(t) \in Nat /\ t + WaitFor(t) * Rate >= Token
<1> DEFINE d == Token - t + Rate - 1
           q == d \div Rate
<1>1. d \in Nat /\ d >= Rate - 1
  BY ConnectRateAssumption
<1>2. q \in Nat /\ d = q * Rate + (d % Rate) /\ d % Rate \in 0..(Rate - 1)
  BY <1>1, ConnectRateAssumption
<1>3. q * Rate \in Nat
  BY <1>2, ConnectRateAssumption
<1> QED BY <1>1, <1>2, <1>3, ConnectRateAssumption DEF WaitFor

(* The tokens left when acquire has found one. *)
LEMMA Spent ==
  ASSUME NEW t \in 0..Capacity, NEW e \in Nat, Refilled(t, e) >= Token
  PROVE  Refilled(t, e) - Token \in 0..Capacity
<1>1. Refilled(t, e) \in 0..Capacity
  BY RefillBounds
<1> QED BY <1>1, ConnectRateAssumption

(* The state of the bucket is well typed, whatever its caller does.        *)
THEOREM TypeCorrect == Spec => []TypeOK
<1>1. Init => TypeOK
  BY ConnectRateAssumption DEF Init, TypeOK
<1>2. TypeOK /\ [Next]_vars => TypeOK'
  <2> SUFFICES ASSUME TypeOK, [Next]_vars
               PROVE  TypeOK'
    OBVIOUS
  <2>1. CASE Ask
    BY <2>1 DEF Ask, TypeOK
  <2>2. CASE Grant
    BY <2>2, Spent, ConnectRateAssumption DEF Grant, TypeOK
  <2>3. CASE Sleep
    BY <2>3, RefillBounds, WaitSuffices, ConnectRateAssumption DEF Sleep, TypeOK
  <2>4. CASE Wake
    BY <2>4 DEF Wake, TypeOK
  <2>5. CASE Tick
    <3>1. since' \in 0..MaxSince
      BY <2>5, ConnectRateAssumption DEF Tick, TypeOK, OneLater
    <3> QED BY <2>5, <3>1, ConnectRateAssumption DEF Tick, TypeOK
  <2>6. CASE UNCHANGED vars
    BY <2>6 DEF vars, TypeOK
  <2> QED BY <2>1, <2>2, <2>3, <2>4, <2>5, <2>6 DEF Next
<1> QED BY <1>1, <1>2, PTL DEF Spec

(* What was granted and not yet worked off is always covered by tokens     *)
(* missing from the bucket, and a sleeper's deficit by the time it will    *)
(* have waited.                                                            *)
THEOREM BucketInvariant == Spec => []BucketInv
<1>1. Init => BucketInv
  BY RefillBounds, ConnectRateAssumption DEF Init, BucketInv
<1>2. TypeOK /\ BucketInv /\ [Next]_vars => BucketInv'
  <2> SUFFICES ASSUME TypeOK, BucketInv, [Next]_vars
               PROVE  BucketInv'
    OBVIOUS
  <2> USE ConnectRateAssumption
  <2>1. CASE Ask
    BY <2>1 DEF Ask, BucketInv
  <2>2. CASE Grant
    <3>1. tokens' \in 0..Capacity /\ Refilled(tokens', since') = tokens'
      BY <2>2, Spent, RefillBounds DEF Grant, TypeOK
    <3>2. Refilled(tokens, since) \in 0..Capacity
      BY RefillBounds DEF TypeOK
    <3> QED BY <2>2, <3>1, <3>2 DEF Grant, BucketInv, TypeOK
  <2>3. CASE Sleep
    <3>1. tokens' \in 0..Capacity /\ Refilled(tokens', since') = tokens'
      BY <2>3, RefillBounds DEF Sleep, TypeOK
    <3>2. tokens' + sleep' * Rate >= Token /\ sleep' \in Nat
      BY <2>3, <3>1, WaitSuffices DEF Sleep
    <3> QED BY <2>3, <3>1, <3>2 DEF Sleep, BucketInv, TypeOK
  <2>4. CASE Wake
    BY <2>4 DEF Wake, BucketInv
  <2>5. CASE Tick
    <3>1. debt' + Refilled(tokens', since') <= Capacity
      <4>1. Refilled(tokens, since) \in 0..Capacity
        BY RefillBounds DEF TypeOK
      <4>2. \/ Refilled(tokens', since') = Refilled(tokens, since) /\ Refilled(tokens, since) = Capacity
            \/ /\ Refilled(tokens', since') <= Refilled(tokens, since) + Rate
               /\ Refilled(tokens', since') \in 0..Capacity
        BY <2>5, RefillOneLater DEF Tick, TypeOK
      <4> QED BY <2>5, <4>1, <4>2 DEF Tick, BucketInv, TypeOK
    <3>2. state' = "sleeping" => tokens' + (since' + sleep') * Rate >= Token
      <4> SUFFICES ASSUME state = "sleeping"
                   PROVE  tokens + (since' + sleep') * Rate >= Token
        BY <2>5 DEF Tick
      <4>1. tokens + (since + sleep) * Rate >= Token
        BY DEF BucketInv
      <4>2. CASE since < MaxSince
        <5>1. since' + sleep' \in Nat /\ since' + sleep' >= since + sleep
          BY <2>5, <4>2 DEF Tick, OneLater, TypeOK
        <5>2. (since' + sleep') * Rate >= (since + sleep) * Rate
          BY <5>1 DEF TypeOK
        <5>3. (since' + sleep') * Rate \in Nat /\ (since + sleep) * Rate \in Nat
          BY <5>1 DEF TypeOK
        <5> QED BY <4>1, <5>2, <5>3 DEF TypeOK
      <4>3. CASE since = MaxSince
        <5>1. since' + sleep' \in Nat /\ since' + sleep' >= MaxSince
          BY <2>5, <4>3 DEF Tick, OneLater, TypeOK
        <5>2. (since' + sleep') * Rate >= MaxSince * Rate
          BY <5>1
        <5>3. (since' + sleep') * Rate \in Nat /\ MaxSince * Rate \in Nat
          BY <5>1
        <5> QED BY <5>2, <5>3 DEF TypeOK
      <4> QED BY <4>2, <4>3 DEF TypeOK
    <3> QED BY <3>1, <3>2 DEF BucketInv
  <2>6. CASE UNCHANGED vars
    BY <2>6 DEF vars, BucketInv
  <2> QED BY <2>1, <2>2, <2>3, <2>4, <2>5, <2>6 DEF Next
<1> QED BY <1>1, <1>2, TypeCorrect, PTL DEF Spec

(* The ceiling on connection attempts: in no window are more than Capacity *)
(* fractions granted beyond what Rate refills in it.                       *)
THEOREM CeilingHolds == Spec => []RateCeiling
<1>1. TypeOK /\ BucketInv => RateCeiling
  <2> SUFFICES ASSUME TypeOK, BucketInv
               PROVE  RateCeiling
    OBVIOUS
  <2>1. Refilled(tokens, since) \in 0..Capacity
    BY RefillBounds DEF TypeOK
  <2> QED BY <2>1, ConnectRateAssumption DEF BucketInv, RateCeiling, TypeOK
<1> QED BY <1>1, TypeCorrect, BucketInvariant, PTL

(* acquire sleeps once at most: when its timer has run out, the token it   *)
(* lacked is there.                                                        *)
THEOREM SleepSuffices == Spec => []OneSleepIsEnough
<1>1. TypeOK /\ BucketInv => OneSleepIsEnough
  <2> SUFFICES ASSUME TypeOK, BucketInv, state = "sleeping", sleep = 0
               PROVE  Refilled(tokens, since) >= Token
    BY DEF OneSleepIsEnough
  <2>1. tokens + since * Rate >= Token
    BY ConnectRateAssumption DEF BucketInv, TypeOK
  <2> QED BY <2>1, ConnectRateAssumption DEF Refilled, TypeOK
<1> QED BY <1>1, TypeCorrect, BucketInvariant, PTL
==============================================================================
