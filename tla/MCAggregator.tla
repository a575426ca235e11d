---------------------------- MODULE MCAggregator ----------------------------
(* Aggregator with two venues that may cross each other, two levels a side *)
(* and a book with an empty side.                                          *)
EXTENDS Aggregator, TLC

MCLevel(price) == [price |-> price, amount |-> 1]
MCQuote(bid, ask) == (Bid :> <<MCLevel(bid), MCLevel(bid - 1)>>)
                       @@ (Ask :> <<MCLevel(ask), MCLevel(ask + 2)>>)
MCOneSided == (Bid :> <<>>) @@ (Ask :> <<MCLevel(4)>>)

MCBook == {MCQuote(2, 4), MCQuote(5, 6), MCOneSided}
MCStaleness == 1 :> 2 @@ 2 :> 3
============================================================================
