----------------------------- MODULE MergeLoop -----------------------------
(***************************************************************************)
(* The `while` loop of merge_side in src/merge.rs, one iteration per step, *)
(* over lists that arrive sorted best first (`model::Book` promises "each  *)
(* already ordered best-first").                                           *)
(***************************************************************************)
EXTENDS Merge

CONSTANT InputLists   \* the level lists a venue's book may hold

ASSUME InputListsAssumption == InputLists \subseteq Seq(Level)

VARIABLES
  side,     \* the side being merged
  lists,    \* each venue's levels on that side
  cursor,   \* how many of them have been emitted
  out       \* the merged levels

vars == <<side, lists, cursor, out>>

Init ==
  /\ side \in Side
  /\ lists \in [Venue -> InputLists]
  /\ \A v \in Venue : BestFirst(side, lists[v])
  /\ cursor = [v \in Venue |-> 0]
  /\ out = <<>>

(* Faulty variants of Emit: a pass that skips the level after the one it   *)
(* takes, and a loop without its `out.len() < TOP_N`.                      *)
EmitSkipping(v) ==
  /\ Len(out) < TopN
  /\ IsBest(side, lists, cursor, v)
  /\ out' = Append(out, Tagged(v, Front(lists, cursor, v)))
  /\ cursor' = [cursor EXCEPT ![v] = @ + 2]
  /\ UNCHANGED <<side, lists>>

EmitUnbounded(v) ==
  /\ IsBest(side, lists, cursor, v)
  /\ out' = Append(out, Tagged(v, Front(lists, cursor, v)))
  /\ cursor' = [cursor EXCEPT ![v] = @ + 1]
  /\ UNCHANGED <<side, lists>>

(* One pass of the loop body that found a best cursor. *)
Emit(v) ==
  /\ Len(out) < TopN
  /\ IsBest(side, lists, cursor, v)
  /\ out' = Append(out, Tagged(v, Front(lists, cursor, v)))
  /\ cursor' = [cursor EXCEPT ![v] = @ + 1]
  /\ UNCHANGED <<side, lists>>

Next == \E v \in Venue : Emit(v)

Spec == Init /\ [][Next]_vars

Finished == Len(out) = TopN \/ Pending(lists, cursor) = {}
----------------------------------------------------------------------------
OutLevel == [exchange : Venue, price : Int, amount : Int]

(* The state is well typed: a cursor never runs past its list. *)
TypeOK ==
  /\ side \in Side
  /\ lists \in [Venue -> Seq(Level)]
  /\ cursor \in [Venue -> Nat]
  /\ \A v \in Venue : cursor[v] <= Len(lists[v])
  /\ out \in Seq(OutLevel)

(* A level's rank: lower asks and higher bids come first. *)
Rank(level) == IF side = Ask THEN level.price ELSE -level.price

Precedes(a, b) ==
  \/ Rank(a) < Rank(b)
  \/ Rank(a) = Rank(b) /\ a.amount >= b.amount

(* merge_side hands out levels best price first and, at one price, larger  *)
(* amount first, whatever venues they come from: what the client displays  *)
(* as a ladder and `merge` reads its best bid and best ask from.           *)
OutBestFirst ==
  \A i, j \in 1..Len(out) : i < j => Precedes(out[i], out[j])

(* No level that a cursor has not reached yet, in any venue, is better     *)
(* than a level already emitted: stopping after TopN loses nothing better. *)
NothingBetterLeftBehind ==
  \A i \in 1..Len(out) : \A v \in Venue :
    \A k \in (cursor[v] + 1)..Len(lists[v]) : Precedes(out[i], lists[v][k])

(* The reference: every level of every venue, ordered by rank, amount,     *)
(* venue (declaration order) and place in the venue's own list.            *)
AllLevels == UNION {{v} \X (1..Len(lists[v])) : v \in Venue}

Before(d, e) ==
  LET a == lists[d[1]][d[2]]
      b == lists[e[1]][e[2]]
  IN  \/ Rank(a) < Rank(b)
      \/ Rank(a) = Rank(b) /\ a.amount > b.amount
      \/ Rank(a) = Rank(b) /\ a.amount = b.amount
           /\ (d[1] < e[1] \/ (d[1] = e[1] /\ d[2] < e[2]))

(* The i-th level out is the i-th of the reference order: the top TopN of  *)
(* the union, each level once, full ties in venue order.                   *)
OutIsTopN ==
  \A i \in 1..Len(out) :
    \E e \in AllLevels :
      /\ out[i] = Tagged(e[1], lists[e[1]][e[2]])
      /\ Cardinality({d \in AllLevels : Before(d, e)}) = i - 1

(* When the loop ends, `out` is the value of the operator MergeSide that   *)
(* Aggregator uses for a call of merge_side, and it has TopN levels or all *)
(* there are.                                                              *)
LoopComputesMergeSide ==
  Finished =>
    /\ out = MergeSide([v \in Venue |-> [s \in Side |-> lists[v]]], side)
    /\ Len(out) = TopN \/ \A v \in Venue : cursor[v] = Len(lists[v])
============================================================================
