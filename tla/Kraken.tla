------------------------------- MODULE Kraken -------------------------------
(***************************************************************************)
(* The incremental book of src/exchange/kraken.rs: a snapshot, then        *)
(* updates of changed levels, applied to a book held across messages and   *)
(* checked against the venue's checksum.                                   *)
(*                                                                         *)
(* A side of a book is a function from prices to quantities, 0 where there *)
(* is no level; the Vec of the code is that function in price order.  The  *)
(* checksum stands for the levels it is computed over: two different top   *)
(* Depth books never share one.                                            *)
(*                                                                         *)
(* The venue is modelled from what kraken.rs relies on: it sends, in order *)
(* and over one connection, a snapshot of its best Depth levels and then,  *)
(* for every change of them, the levels that appeared or changed and a     *)
(* quantity of 0 for those that left the book; a level that only fell out  *)
(* of the best Depth is not mentioned.                                     *)
(***************************************************************************)
EXTENDS FiniteSets, SequencesExt

CONSTANTS
  Price,       \* prices, natural numbers, finitely many
  Qty,         \* quantities of a level, all positive
  Depth,       \* DEPTH: levels per side
  MaxChanges,  \* bound: prices per side that change between two messages
  MaxGarbled,  \* bound: garbled messages of a connection
  Garbled,     \* a level whose number does not parse
  NoBook       \* Option::None

ASSUME KrakenAssumption ==
  /\ Price \subseteq Nat /\ IsFiniteSet(Price) /\ Qty \subseteq Nat \ {0}
  /\ Depth \in Nat \ {0} /\ MaxChanges \in Nat \ {0}

ASSUME GarbledAssumption == MaxGarbled \in Nat

Side == {"bids", "asks"}
Cells == Side \X Price

(* KrakenBook: per side and price the quantity, 0 for no level. *)
KrakenBook == [Cells -> Qty \cup {0}]
EmptyBook == [c \in Cells |-> 0]

(* A level of a message that parses. *)
WireLevel == [side : Side, price : Price, qty : Qty \cup {0}]

Message == [kind : {"snapshot", "update", "other"},
            levels : Seq(WireLevel \cup {Garbled}),
            checksum : KrakenBook]

ASSUME NamesAssumption == NoBook \notin KrakenBook /\ Garbled \notin WireLevel

VARIABLES
  venueBook,  \* the venue's own book, all levels (while connected)
  connected,  \* a connection with a subscription
  wire,       \* its messages on the way, at most one
  garbled,    \* history: messages of this connection that were garbled
  book,       \* Kraken::book
  synced,     \* history: a snapshot of this connection has been accepted
  last        \* history: the message just parsed and what parse returned

vars == <<venueBook, connected, wire, garbled, book, synced, last>>

Better(side, p, q) == IF side = "bids" THEN p > q ELSE p < q

(* The best Depth levels of each side. *)
Top(b) ==
  [c \in Cells |->
     IF Cardinality({p \in Price : b[<<c[1], p>>] # 0 /\ Better(c[1], p, c[2])}) < Depth
     THEN b[c] ELSE 0]

(* compute_checksum *)
Checksum(b) == Top(b)

(* Faulty variant of Truncate: nothing is cut off. *)
NoTruncate(b) == b

(* truncate(DEPTH) on both sides, sorted best first. *)
Truncate(b) == Top(b)

(* Faulty variant of Upsert: cut off after every level. *)
UpsertTruncating(b, level) ==
  Top([b EXCEPT ![<<level.side, level.price>>] = level.qty])

(* Faulty variant of Upsert: the quantity is taken for a difference. *)
UpsertAdding(b, level) ==
  [b EXCEPT ![<<level.side, level.price>>] = IF level.qty = 0 THEN 0 ELSE @ + level.qty]

(* upsert: one level replaces what is at its price, quantity 0 removes it. *)
Upsert(b, level) == [b EXCEPT ![<<level.side, level.price>>] = level.qty]

(* The loops of apply_update and from_snapshot, up to the first level that *)
(* does not parse.                                                         *)
Readable(levels) == SelectInSeq(levels, LAMBDA l : l = Garbled) = 0
UpToGarbled(levels) ==
  IF Readable(levels) THEN levels
  ELSE SubSeq(levels, 1, SelectInSeq(levels, LAMBDA l : l = Garbled) - 1)
Steps(b, levels) ==
  LET after[n \in 0..Len(levels)] ==
        IF n = 0 THEN b ELSE Upsert(after[n - 1], levels[n])
  IN  after
Applied(b, levels) ==
  LET readable == UpToGarbled(levels) IN Steps(b, readable)[Len(readable)]

(* What parse leaves in Kraken::book and what it returns. *)
Outcome(held, result) == [held |-> held, result |-> result]

(* The "snapshot" arm of parse_book_message.  from_snapshot pushes the      *)
(* levels as they come; the venue lists no price twice and none without a  *)
(* quantity there, so setting them one by one gives the same.              *)
ParseSnapshot(b, msg) ==
  LET new == Truncate(Applied(EmptyBook, msg.levels))
  IN  IF ~Readable(msg.levels) THEN Outcome(b, NoBook)
      ELSE IF Checksum(new) # msg.checksum THEN Outcome(NoBook, NoBook)
      ELSE Outcome(new, new)

(* The "update" arm.  The book is changed in place: a level that does not  *)
(* parse leaves it with the levels before it applied and not cut off.      *)
ParseUpdate(b, msg) ==
  LET new == Truncate(Applied(b, msg.levels))
  IN  IF b = NoBook THEN Outcome(b, NoBook)
      ELSE IF ~Readable(msg.levels) THEN Outcome(Applied(b, msg.levels), NoBook)
      ELSE IF Checksum(new) # msg.checksum THEN Outcome(NoBook, NoBook)
      ELSE Outcome(new, new)

(* parse: anything else (heartbeat, status, acknowledgement, malformed     *)
(* message) is no book and changes nothing.                                *)
Parsed(b, msg) ==
  CASE msg.kind = "snapshot" -> ParseSnapshot(b, msg)
    [] msg.kind = "update" -> ParseUpdate(b, msg)
    [] OTHER -> Outcome(b, NoBook)

Idle == [msg |-> [kind |-> "other", levels |-> <<>>, checksum |-> EmptyBook],
         result |-> NoBook]

Init ==
  /\ venueBook = EmptyBook
  /\ connected = FALSE
  /\ wire = <<>>
  /\ garbled = 0
  /\ book = NoBook
  /\ synced = FALSE
  /\ last = Idle

(* run_once_inner reads a frame and parses it. *)
Parse ==
  /\ wire # <<>>
  /\ wire' = Tail(wire)
  /\ LET outcome == Parsed(book, Head(wire))
     IN  /\ book' = outcome.held
         /\ last' = [msg |-> Head(wire), result |-> outcome.result]
         /\ synced' = (synced \/ (Head(wire).kind = "snapshot" /\ outcome.result # NoBook))
  /\ UNCHANGED <<venueBook, connected, garbled>>
----------------------------------------------------------------------------
(* The venue and the connection. *)

Level(b, c) == [side |-> c[1], price |-> c[2], qty |-> b[c]]

(* A message with the given cells of b, bids first, in any order. *)
MessageOf(kind, b, bids, asks) ==
  [kind |-> kind,
   levels |-> [i \in DOMAIN bids |-> Level(b, bids[i])]
                \o [i \in DOMAIN asks |-> Level(b, asks[i])],
   checksum |-> Checksum(b)]

Messages(kind, b, cells) ==
  {MessageOf(kind, b, order[1], order[2]) :
     order \in SetToSeqs({c \in cells : c[1] = "bids"})
                 \X SetToSeqs({c \in cells : c[1] = "asks"})}

(* The cells a snapshot lists. *)
Best(b) == {c \in Cells : Top(b)[c] # 0}

(* The cells an update from one venue book to the next mentions. *)
Mentioned(old, new) ==
  {c \in Cells :
     \/ Top(new)[c] # Top(old)[c] /\ Top(new)[c] # 0
     \/ Top(old)[c] # 0 /\ new[c] = 0}

(* What a message may become on its way in: itself, a message whose i-th   *)
(* level does not parse, or one that does not parse at all.                *)
Garblings(msg) ==
  {[msg EXCEPT !.levels[i] = Garbled] : i \in DOMAIN msg.levels}
    \cup {[msg EXCEPT !.kind = "other"]}

(* A message arrives as it is, or garbled. *)
SendOne(msgs) ==
  \/ /\ \E msg \in msgs : wire' = <<msg>>
     /\ UNCHANGED garbled
  \/ /\ garbled < MaxGarbled
     /\ \E msg \in msgs : \E bad \in Garblings(msg) : wire' = <<bad>>
     /\ garbled' = garbled + 1

(* The feed connects and subscribes; the venue answers with a snapshot.    *)
(* Kraken::book is not touched; the market has moved meanwhile.            *)
Subscribe ==
  /\ ~connected
  /\ connected' = TRUE
  /\ venueBook' \in KrakenBook
  /\ SendOne(Messages("snapshot", venueBook', Best(venueBook')))
  /\ last' = Idle
  /\ UNCHANGED <<book, synced>>

(* The books the venue may have next: up to MaxChanges prices per side     *)
(* have other quantities.                                                  *)
Successors(b) ==
  {n \in KrakenBook :
     \A side \in Side :
       Cardinality({c \in Cells : c[1] = side /\ n[c] # b[c]}) <= MaxChanges} \ {b}

(* The venue's book changes, and its best levels with it. *)
VenueUpdates ==
  /\ connected
  /\ wire = <<>>
  /\ venueBook' \in Successors(venueBook)
  /\ IF Mentioned(venueBook, venueBook') = {}
     THEN UNCHANGED <<wire, garbled>>
     ELSE SendOne(Messages("update", venueBook', Mentioned(venueBook, venueBook')))
  /\ last' = Idle
  /\ UNCHANGED <<connected, book, synced>>

(* The connection ends, and what was on its way is lost. *)
Disconnect ==
  /\ connected
  /\ connected' = FALSE
  /\ wire' = <<>>
  /\ garbled' = 0
  /\ synced' = FALSE
  /\ venueBook' = EmptyBook
  /\ last' = Idle
  /\ UNCHANGED book

Next == Parse \/ Subscribe \/ VenueUpdates \/ Disconnect

Spec == Init /\ [][Next]_vars
----------------------------------------------------------------------------
TypeOK ==
  /\ venueBook \in KrakenBook
  /\ {connected, synced} \subseteq BOOLEAN /\ garbled \in 0..MaxGarbled
  /\ wire \in Seq(Message) /\ Len(wire) <= 1
  /\ book \in KrakenBook \cup {NoBook}
  /\ last \in [msg : Message, result : KrakenBook \cup {NoBook}]

(* Whatever was garbled, lost or left over from an earlier connection,     *)
(* every book handed to the aggregator has exactly the levels the venue    *)
(* had in its best Depth when it sent the message.                         *)
OnlyTrueBooks == last.result # NoBook => last.result = last.msg.checksum

(* No false alarm: on a connection on which nothing is garbled the held    *)
(* book follows the venue through every change, levels that fall out of    *)
(* and come back into the best Depth included, in whatever order an update *)
(* lists them, and whatever book was held before the snapshot.             *)
HeldBookFollowsVenue ==
  synced /\ garbled = 0 /\ wire = <<>> => book = Top(venueBook)

(* Parsing an accepted message twice does no harm: levels are absolute, so *)
(* the second time changes nothing and returns the same book.              *)
ReparsingIsHarmless ==
  last.result # NoBook /\ book = last.result =>
    Parsed(book, last.msg) = Outcome(book, last.result)
----------------------------------------------------------------------------
(* What HeldBookFollowsVenue needs to be inductive: nothing is left of a   *)
(* lost connection but the held book; on an undisturbed one that book is   *)
(* the venue's, or what would make it the venue's is on its way.           *)
InStep ==
  /\ ~connected => wire = <<>> /\ garbled = 0 /\ ~synced
  /\ connected /\ garbled = 0 =>
       \/ wire = <<>> /\ book = Top(venueBook)
       \/ \E msg \in Messages("snapshot", venueBook, Best(venueBook)) : wire = <<msg>>
       \/ \E old \in KrakenBook :
            /\ book = Top(old)
            /\ \E msg \in Messages("update", venueBook, Mentioned(old, venueBook)) :
                 wire = <<msg>>
=============================================================================
