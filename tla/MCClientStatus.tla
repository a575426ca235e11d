--------------------------- MODULE MCClientStatus ---------------------------
(* ClientStatus with one client, two venues with levels for both to show,  *)
(* and one-sided books.                                                    *)
EXTENDS ClientStatus, TLC

MCLevel(price) == <<[price |-> price, amount |-> 1]>>
MCQuote(bid, ask) == (Bid :> MCLevel(bid)) @@ (Ask :> MCLevel(ask))

MCBook == {MCQuote(2, 4), MCQuote(3, 6), (Bid :> MCLevel(3)) @@ (Ask :> <<>>)}
MCPublished == Summary
MCStaleness == 1 :> 1 @@ 2 :> 2
============================================================================
