---------------------------- MODULE ConnectRate ----------------------------
(***************************************************************************)
(* The arithmetic of TokenBucket in src/feed.rs.  Tokens are counted in    *)
(* fractions: Token of them make one connection attempt, and Rate of them  *)
(* are refilled per unit of time, so that all quantities are integers.     *)
(***************************************************************************)
EXTENDS Integers

CONSTANTS
  Token,      \* fractions in one token
  Capacity,   \* capacity, in fractions
  Rate,       \* refill_per_sec, in fractions per unit of time
  MaxSince    \* bound: time since the last refill is not told apart beyond it

ASSUME ConnectRateAssumption ==
  /\ Token \in Nat \ {0}
  /\ Capacity \in Nat
  /\ Capacity >= Token
  /\ Rate \in Nat \ {0}
  /\ MaxSince \in Nat
  /\ MaxSince * Rate >= Capacity

(* Faulty variants of Refilled: time spent connected is saved up without   *)
(* limit; no time counts.                                                  *)
RefilledUncapped(tokens, elapsed) == tokens + elapsed * Rate
NeverRefilled(tokens, elapsed) == tokens

(* TokenBucket::refill *)
Refilled(tokens, elapsed) ==
  IF tokens + elapsed * Rate < Capacity THEN tokens + elapsed * Rate ELSE Capacity

(* Faulty variant of WaitFor: the division rounds down. *)
WaitForRoundedDown(tokens) == (Token - tokens) \div Rate

(* The sleep of TokenBucket::acquire: deficit / refill_per_sec, a timer    *)
(* never firing early.                                                     *)
WaitFor(tokens) == (Token - tokens + Rate - 1) \div Rate

(* Time since last_refill, one unit later. *)
OneLater(since) == IF since < MaxSince THEN since + 1 ELSE since
============================================================================
