---------------------------- MODULE TokenBucket ----------------------------
(***************************************************************************)
(* TokenBucket::acquire of src/feed.rs under a caller that asks whenever   *)
(* it likes: the ceiling on connection attempts taken on its own, without  *)
(* the backoff that normally comes before it.                              *)
(***************************************************************************)
EXTENDS ConnectRate

VARIABLES
  tokens,   \* TokenBucket::tokens
  since,    \* time since TokenBucket::last_refill
  state,    \* the caller: "away", "acquiring" or "sleeping"
  sleep,    \* what is left of its sleep
  debt      \* history: fractions granted and not yet worked off at Rate

vars == <<tokens, since, state, sleep, debt>>

(* TokenBucket::new *)
Init ==
  /\ tokens = Capacity
  /\ since = 0
  /\ state = "away"
  /\ sleep = 0
  /\ debt = 0

Ask ==
  /\ state = "away"
  /\ state' = "acquiring"
  /\ UNCHANGED <<tokens, since, sleep, debt>>

(* acquire: refill, then spend a token and return ... *)
Grant ==
  /\ state = "acquiring"
  /\ Refilled(tokens, since) >= Token
  /\ tokens' = Refilled(tokens, since) - Token
  /\ since' = 0
  /\ state' = "away"
  /\ debt' = debt + Token
  /\ UNCHANGED sleep

(* ... or sleep until the missing fraction should be there. *)
Sleep ==
  /\ state = "acquiring"
  /\ Refilled(tokens, since) < Token
  /\ tokens' = Refilled(tokens, since)
  /\ since' = 0
  /\ state' = "sleeping"
  /\ sleep' = WaitFor(tokens')
  /\ UNCHANGED debt

Wake ==
  /\ state = "sleeping"
  /\ sleep = 0
  /\ state' = "acquiring"
  /\ UNCHANGED <<tokens, since, sleep, debt>>

Tick ==
  /\ since' = OneLater(since)
  /\ sleep' = IF sleep > 0 THEN sleep - 1 ELSE 0
  /\ debt' = IF debt > Rate THEN debt - Rate ELSE 0
  /\ UNCHANGED <<tokens, state>>

Next == Ask \/ Grant \/ Sleep \/ Wake \/ Tick

Spec == Init /\ [][Next]_vars

(* The task is polled when its sleep is over, and time passes. *)
FairSpec == Spec /\ WF_vars(Tick) /\ WF_vars(Wake) /\ WF_vars(Grant) /\ WF_vars(Sleep)
----------------------------------------------------------------------------
TypeOK ==
  /\ tokens \in 0..Capacity
  /\ since \in 0..MaxSince
  /\ state \in {"away", "acquiring", "sleeping"}
  /\ sleep \in Nat
  /\ debt \in Nat

(* The ceiling: in every window of length T, wherever it starts, at most   *)
(* Capacity + T * Rate fractions are granted, whatever the caller does.    *)
(* (debt rises by Token per grant and falls by Rate per unit of time, so   *)
(* it exceeds Capacity exactly when some window got more.)                 *)
RateCeiling == debt <= Capacity

(* The loop in acquire never sleeps twice for one token: when the computed *)
(* sleep is over, the missing fraction is there.                           *)
OneSleepIsEnough ==
  state = "sleeping" /\ sleep = 0 => Refilled(tokens, since) >= Token

(* Every caller that asks is let through in the end. *)
EveryAskIsGranted == state # "away" ~> state = "away"

(* What RateCeiling and OneSleepIsEnough need to be inductive. *)
BucketInv ==
  /\ debt + Refilled(tokens, since) <= Capacity
  /\ state = "sleeping" => tokens + (since + sleep) * Rate >= Token
============================================================================
