------------------------------- MODULE Merge -------------------------------
(***************************************************************************)
(* The pure merge of src/merge.rs: one side of every venue's book is       *)
(* merged best first by a cursor per venue, and the two sides make a       *)
(* summary.  No state: MergeLoop runs the loop one iteration at a time,    *)
(* and Aggregator calls MergeBooks.                                        *)
(*                                                                         *)
(* A venue is its position in the declaration order of `enum Venue`, which *)
(* is the iteration order of the BTreeMap the merge reads.  Prices and     *)
(* amounts are integers (ticks): the spread of two tick values is a tick   *)
(* value, so the rounding to 8 decimals in `merge` returns the exact       *)
(* difference.                                                             *)
(***************************************************************************)
EXTENDS Integers, Sequences, FiniteSets

CONSTANTS
  Venue,       \* the venues, numbered in declaration order
  TopN,        \* levels per side in a summary (10 in the code)
  NoSummary    \* the None that `merge` returns

ASSUME VenueAssumption == Venue \subseteq Int /\ IsFiniteSet(Venue)
ASSUME TopNAssumption == TopN \in Nat \ {0}

Bid == "bid"
Ask == "ask"
Side == {Bid, Ask}

Level == [price : Int, amount : Int]

(* Faulty variant of Better: the amount tie-break the wrong way round. *)
BetterSmallFirst(side, a, b) ==
  \/ side = Ask /\ a.price < b.price
  \/ side = Bid /\ a.price > b.price
  \/ a.price = b.price /\ a.amount < b.amount

(* Side::better(a, b) is Less: a goes before b. *)
Better(side, a, b) ==
  \/ side = Ask /\ a.price < b.price
  \/ side = Bid /\ a.price > b.price
  \/ a.price = b.price /\ a.amount > b.amount

(* The order `model::Book` promises of each of its sides. *)
BestFirst(side, list) ==
  \A i, j \in 1..Len(list) : i < j => ~Better(side, list[j], list[i])

(* The venues whose cursor still points at a level. *)
Pending(lists, cursor) == {v \in DOMAIN lists : cursor[v] < Len(lists[v])}

Front(lists, cursor, v) == lists[v][cursor[v] + 1]

(* Faulty variants of IsBest: the first venue that has levels left, and    *)
(* the last of the fronts that tie.                                        *)
FirstPending(side, lists, cursor, v) ==
  /\ v \in Pending(lists, cursor)
  /\ \A u \in Pending(lists, cursor) : v <= u

LastOfTies(side, lists, cursor, v) ==
  /\ v \in Pending(lists, cursor)
  /\ \A u \in Pending(lists, cursor) :
       /\ ~Better(side, Front(lists, cursor, u), Front(lists, cursor, v))
       /\ u > v => Better(side, Front(lists, cursor, v), Front(lists, cursor, u))

(* min_by over the cursors in venue order: nothing beats v's front, and of *)
(* the fronts that tie with it v's comes first.                            *)
IsBest(side, lists, cursor, v) ==
  /\ v \in Pending(lists, cursor)
  /\ \A u \in Pending(lists, cursor) :
       /\ ~Better(side, Front(lists, cursor, u), Front(lists, cursor, v))
       /\ u < v => Better(side, Front(lists, cursor, v), Front(lists, cursor, u))

Tagged(v, level) ==
  [exchange |-> v, price |-> level.price, amount |-> level.amount]

(* One pass of the loop in merge_side: the best front is emitted and its    *)
(* cursor advances; with no level left the loop is over.                   *)
Pass(side, lists, s) ==
  LET v == CHOOSE u \in DOMAIN lists : IsBest(side, lists, s.cursor, u)
  IN  IF Pending(lists, s.cursor) = {} THEN s
      ELSE [cursor |-> [s.cursor EXCEPT ![v] = @ + 1],
            out |-> Append(s.out, Tagged(v, Front(lists, s.cursor, v)))]

(* Every cursor at its list's front, nothing out yet. *)
Untouched(lists) == [cursor |-> [v \in DOMAIN lists |-> 0], out |-> <<>>]

(* The cursors and the levels out after each number of passes. *)
Passes(side, lists) ==
  LET after[n \in 0..TopN] ==
        IF n = 0 THEN Untouched(lists) ELSE Pass(side, lists, after[n - 1])
  IN  after

(* merge_side: at most TopN passes. *)
MergeSide(books, side) ==
  Passes(side, [v \in DOMAIN books |-> books[v][side]])[TopN].out

(* Faulty variant of MergeBooks: a crossed market shows a spread of zero. *)
MergeBooksClamped(books) ==
  LET bids == MergeSide(books, Bid)
      asks == MergeSide(books, Ask)
      gap == asks[1].price - bids[1].price
  IN  IF bids = <<>> \/ asks = <<>>
      THEN NoSummary
      ELSE [spread |-> IF gap < 0 THEN 0 ELSE gap, bids |-> bids, asks |-> asks]

(* merge: nothing is publishable unless both sides have a level. *)
MergeBooks(books) ==
  LET bids == MergeSide(books, Bid)
      asks == MergeSide(books, Ask)
  IN  IF bids = <<>> \/ asks = <<>>
      THEN NoSummary
      ELSE [spread |-> asks[1].price - bids[1].price, bids |-> bids, asks |-> asks]
============================================================================
