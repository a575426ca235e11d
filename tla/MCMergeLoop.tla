---------------------------- MODULE MCMergeLoop ----------------------------
(* MergeLoop over three venues and every list of up to MaxLen levels.      *)
EXTENDS MergeLoop

CONSTANTS Prices, Amounts, MaxLen

MCLevels == [price : Prices, amount : Amounts]
MCInputLists == UNION {[1..n -> MCLevels] : n \in 0..MaxLen}
============================================================================
