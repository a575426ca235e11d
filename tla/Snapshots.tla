----------------------------- MODULE Snapshots -----------------------------
(***************************************************************************)
(* `parse` of src/exchange/binance.rs and src/exchange/bitstamp.rs: each   *)
(* message that is a book holds a whole one, and nothing is kept from one  *)
(* message to the next.  A message is what serde can see in it.            *)
(***************************************************************************)
EXTENDS Integers, Sequences, SequencesExt

CONSTANTS
  Number,      \* the numbers a level's texts may parse to
  Unreadable,  \* a text that parses to none
  MaxLevels    \* bound: levels a side of a message

ASSUME SnapshotsAssumption == Unreadable \notin Number /\ MaxLevels \in Nat

WireLevel == [price : Number \cup {Unreadable}, amount : Number \cup {Unreadable}]
Levels == BoundedSeq(WireLevel, MaxLevels)

(* Option<..>: None is <<>>, Some(x) is <<x>>. *)
None == <<>>
Some(x) == <<x>>

(* The payload of a message: both sides of a book, nothing, or something   *)
(* else, such as the {} of Bitstamp's control events.                      *)
Payload ==
  [kind : {"sides"}, bids : Levels, asks : Levels]
    \cup [kind : {"missing", "foreign"}, bids : {<<>>}, asks : {<<>>}]

(* Bitstamp's envelope names an event, Binance's payload has no envelope   *)
(* ("depth" stands for it) and cannot be missing.                          *)
Control == {"bts:subscription_succeeded", "bts:request_reconnect", "bts:error"}
Event == Control \cup {"data", "bts:heartbeat", "depth"}
Message == {m \in [event : Event, payload : Payload] :
              m.event = "depth" => m.payload.kind # "missing"}

VARIABLES
  message,  \* the message `parse` was last called with
  book,     \* what it returned
  noted     \* the level of what it logged: "info", "warn", "debug", "nothing"

vars == <<message, book, noted>>

Init == message = None /\ book = None /\ noted = "nothing"

(* parse_levels' closure on one level. *)
ToLevel(l) == IF Unreadable \in {l.price, l.amount} THEN None ELSE Some(l)

(* Faulty variant of ParseLevels: a level that does not parse is left out. *)
SkippingBadLevels(levels) == Some(SelectSeq(levels, LAMBDA l : ToLevel(l) # None))

(* parse_levels: collecting into an Option, None as soon as one level is. *)
ParseLevels(levels) ==
  IF \E i \in DOMAIN levels : ToLevel(levels[i]) = None THEN None ELSE Some(levels)

(* parse_levels(..)? for both sides. *)
ToBook(payload) ==
  LET bids == ParseLevels(payload.bids)
      asks == ParseLevels(payload.asks)
  IN  IF None \in {bids, asks} THEN None ELSE Some([bids |-> bids[1], asks |-> asks[1]])

(* serde_json::from_str into Depth20 or Envelope: `default` makes a missing *)
(* `data` a None, but a `data` of another shape fails the whole envelope.   *)
Deserializes(m) == m.payload.kind # "foreign"

Skip(m) ==
  /\ ~Deserializes(m)
  /\ book' = None
  /\ noted' = "debug"

ParseBook(m) ==
  /\ Deserializes(m)
  /\ m.event \in {"depth", "data"}
  /\ book' = IF m.payload.kind = "missing" THEN None ELSE ToBook(m.payload)
  /\ noted' = "nothing"

(* The other arms of Bitstamp's match on the event. *)
ParseOther(m) ==
  /\ Deserializes(m)
  /\ m.event \notin {"depth", "data"}
  /\ book' = None
  /\ noted' = CASE m.event \in {"bts:subscription_succeeded", "bts:request_reconnect"} -> "info"
                [] m.event = "bts:error" -> "warn"
                [] OTHER -> "debug"

Parse(m) ==
  /\ message' = Some(m)
  /\ Skip(m) \/ ParseBook(m) \/ ParseOther(m)

Next == \E m \in Message : Parse(m)

Spec == Init /\ [][Next]_vars
----------------------------------------------------------------------------
Legible(levels) == levels \in Seq([price : Number, amount : Number])

(* "One bad level rejects the whole message, rather than publishing a book *)
(* with a hole in it" and "An empty side is legal": a book comes out of    *)
(* exactly the legible book messages, level for level, whatever came       *)
(* before; nothing of a control event ever looks like one.                 *)
WholeBooksOnly ==
  \A i \in DOMAIN message :
    LET p == message[i].payload
        isBook == /\ message[i].event \in {"depth", "data"}
                  /\ p.kind = "sides"
                  /\ Legible(p.bids) /\ Legible(p.asks)
    IN  book = IF isBook THEN Some([bids |-> p.bids, asks |-> p.asks]) ELSE None

(* "bts:request_reconnect must be recognized, not fall into unknown" and,  *)
(* of specs/006, `"bts:error"` -> None, log at **warn**: a control event   *)
(* is noted as what it is, whatever its data.                              *)
ControlEventsAreRecognized ==
  \A i \in DOMAIN message :
    message[i].event \in Control =>
      noted = IF message[i].event = "bts:error" THEN "warn" ELSE "info"
============================================================================
