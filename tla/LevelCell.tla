----------------------------- MODULE LevelCell -----------------------------
(***************************************************************************)
(* One level of the terminal viewer's table (level_cell and shade_cell of  *)
(* src/bin/client.rs): a cell of Width columns in which the foreground     *)
(* changes at Split and the depth bar covers FillLen columns from either   *)
(* edge.  The cell is written window by window between the boundaries of   *)
(* both, each window with its own pair of colours.                         *)
(***************************************************************************)
EXTENDS Integers, Sequences

CONSTANTS
  Width,      \* CELL_WIDTH
  Split,      \* CELL_FG_SPLIT
  MaxAmount   \* bound: the amounts shown are 0..MaxAmount

ASSUME LevelCellAssumption ==
  /\ Width \in Nat \ {0}
  /\ Split \in 0..Width
  /\ MaxAmount \in Nat

VARIABLES
  side,  \* FillFrom: "left" or "right"
  fill,  \* fill_len
  at,    \* the start of the next window
  out    \* the colours written, per column

cellVars == <<side, fill, at, out>>

(* round(amount / max * Width), halves away from zero; amounts are not     *)
(* negative and none exceeds the largest of both sides.                    *)
FillLen(amount, max) ==
  IF max > 0 THEN (2 * amount * Width + max) \div (2 * max) ELSE 0

Fills == UNION {{FillLen(amount, max) : amount \in 0..max} : max \in 0..MaxAmount}

CellInit ==
  /\ side \in {"left", "right"}
  /\ fill \in Fills
  /\ at = 0
  /\ out = <<>>

(* level_cell is called for the next level of the frame. *)
StartCell(from) ==
  /\ side' = from
  /\ fill' \in Fills
  /\ at' = 0
  /\ out' = <<>>

BarStart == IF side = "left" THEN 0 ELSE Width - fill
BarEnd == IF side = "left" THEN fill ELSE Width

(* Faulty variant of Boundaries: the right edge is left out. *)
BoundariesWithoutEdge == {0, Split, BarStart, BarEnd}

(* The five boundaries, whose equal neighbours make no window. *)
Boundaries == {0, Split, BarStart, BarEnd, Width}

(* The end of the window that starts at `at`. *)
EndsWindow(end) ==
  /\ end \in Boundaries
  /\ at < end
  /\ \A b \in Boundaries : b <= at \/ end <= b

(* Faulty variant of Colours: the bar is one column too long. *)
ColoursInclusive(start) ==
  [fg |-> IF start < Split THEN "price" ELSE "dim",
   bg |-> IF BarStart <= start /\ start <= BarEnd THEN "bar" ELSE "none"]

(* The pair of a window, from where it starts. *)
Colours(start) ==
  [fg |-> IF start < Split THEN "price" ELSE "dim",
   bg |-> IF BarStart <= start /\ start < BarEnd THEN "bar" ELSE "none"]

Window(end) ==
  /\ EndsWindow(end)
  /\ out' = out \o [i \in 1..end - at |-> Colours(at)]
  /\ at' = end
  /\ UNCHANGED <<side, fill>>

CellNext ==
  \/ \E end \in Boundaries : Window(end)
  \/ \E from \in {"left", "right"} : StartCell(from)

CellSpec == CellInit /\ [][CellNext]_cellVars
----------------------------------------------------------------------------
(* In the bar, seen from the edge it grows from. *)
Shaded(column) == IF side = "left" THEN column <= fill ELSE column > Width - fill

(* Whatever the order in which the foreground's and the bar's boundaries   *)
(* fall, and however many coincide, every column is written exactly once,  *)
(* in order, in its own colours: the bar is as long as it should be and    *)
(* the price keeps its colour under it.                                    *)
EveryColumnOnce ==
  /\ Len(out) = at
  /\ \A i \in 1..at :
       out[i] = [fg |-> IF i <= Split THEN "price" ELSE "dim",
                 bg |-> IF Shaded(i) THEN "bar" ELSE "none"]

(* The loop stops only at the right edge, with a bar that fits the cell. *)
WholeCell == (\A end \in Boundaries : ~EndsWindow(end)) <=> at = Width
----------------------------------------------------------------------------
(* What EveryColumnOnce needs to be inductive. *)
CellInv ==
  /\ side \in {"left", "right"}
  /\ fill \in 0..Width
  /\ at \in 0..Width
  /\ out \in Seq([fg : {"price", "dim"}, bg : {"bar", "none"}])
  /\ EveryColumnOnce
============================================================================
