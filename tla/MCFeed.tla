------------------------------- MODULE MCFeed -------------------------------
(***************************************************************************)
(* Feed with the delays and rates of src/feed.rs: the theorem              *)
(* NeverThrottles of FeedProofs applies to them.                           *)
(***************************************************************************)
EXTENDS Feed

(* What is left in the bucket when the delay after attempt a is chosen, if *)
(* every delay so far was the shortest there is.                           *)
Reserve[a \in 0..AttemptCap] ==
  IF a = 0 THEN Capacity ELSE Refilled(Reserve[a - 1], Delay(a - 1) \div 2) - Token

ASSUME BackoffSuffices == Outpaces(Reserve)
============================================================================
