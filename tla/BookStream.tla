----------------------------- MODULE BookStream -----------------------------
(***************************************************************************)
(* The BookSummary streams of src/server.rs: each call clones the watch    *)
(* receiver into a WatchStream and drops the None items.  The publisher is *)
(* the aggregator's tx.send; tokio's watch channel and the WatchStream are *)
(* modelled from how server.rs uses them: the first poll yields the value  *)
(* that is current, every later one waits for a version it has not seen,   *)
(* and the sender's end is noticed only when there is none.                *)
(*                                                                         *)
(* A client polls when it is ready (HTTP/2 flow control), so any number of *)
(* publications may pass between two polls.                                *)
(***************************************************************************)
EXTENDS Integers, Sequences

CONSTANTS
  Client,      \* the BookSummary callers
  Summary,     \* what may be published
  NoSummary,   \* the watch's initial None
  MaxVersion   \* bound: publications

ASSUME BookStreamAssumption == NoSummary \notin Summary /\ MaxVersion \in Nat

VARIABLES
  watch,        \* the watch channel: value and version
  senderAlive,  \* the aggregator still holds the sending half
  stream,       \* per client: "none", "first", "changed", "ended"
  seen,         \* per client: the version its receiver has seen
  log,          \* history: the summaries published
  pos,          \* history: the newest version a client was given
  shown         \* history: the last summary a client was given, <<>> before

channel == <<watch, senderAlive, log>>
given == <<pos, shown>>
vars == <<channel, stream, seen, given>>

Init ==
  /\ watch = [value |-> NoSummary, version |-> 0]
  /\ senderAlive = TRUE
  /\ stream = [c \in Client |-> "none"]
  /\ seen = [c \in Client |-> 0]
  /\ log = <<>>
  /\ pos = [c \in Client |-> 0]
  /\ shown = [c \in Client |-> <<>>]

(* tx.send(Some(summary)), for a summary that differs from the last. *)
Publish(summary) ==
  /\ senderAlive
  /\ watch.version < MaxVersion
  /\ summary # watch.value
  /\ watch' = [value |-> summary, version |-> watch.version + 1]
  /\ log' = Append(log, summary)
  /\ UNCHANGED <<senderAlive, stream, seen, given>>

(* aggregator::run returns and drops tx. *)
SenderDropped ==
  /\ senderAlive
  /\ senderAlive' = FALSE
  /\ UNCHANGED <<watch, log, stream, seen, given>>

(* Faulty variant of Subscribe: a stream of changes only, which starts     *)
(* with what is published after the call.                                  *)
SubscribeToChanges(c) ==
  /\ stream[c] = "none"
  /\ stream' = [stream EXCEPT ![c] = "changed"]
  /\ seen' = [seen EXCEPT ![c] = watch.version]
  /\ UNCHANGED <<channel, given>>

(* book_summary: WatchStream::new(self.rx.clone()). *)
Subscribe(c) ==
  /\ stream[c] = "none"
  /\ stream' = [stream EXCEPT ![c] = "first"]
  /\ seen' = [seen EXCEPT ![c] = 0]
  /\ UNCHANGED <<channel, given>>

Disconnect(c) ==
  /\ stream[c] # "none"
  /\ stream' = [stream EXCEPT ![c] = "none"]
  /\ UNCHANGED <<channel, seen, given>>

(* Faulty variant of Deliver: no filter_map, the None goes out too. *)
DeliverAnything(c) ==
  /\ pos' = [pos EXCEPT ![c] = watch.version]
  /\ shown' = [shown EXCEPT ![c] = watch.value]

(* filter_map: Some(arc) becomes an item, None is dropped. *)
Deliver(c) ==
  IF watch.value = NoSummary
  THEN UNCHANGED given
  ELSE /\ pos' = [pos EXCEPT ![c] = watch.version]
       /\ shown' = [shown EXCEPT ![c] = watch.value]

(* Faulty variant of Unseen: the receiver does not mark what it returned. *)
NeverMarked(c) == stream[c] \in {"first", "changed"}

(* The receiver holds a value its stream has not returned. *)
Unseen(c) ==
  \/ stream[c] = "first"
  \/ stream[c] = "changed" /\ seen[c] < watch.version

(* A poll that finds a value: the current one at once, later only news. *)
Poll(c) ==
  /\ Unseen(c)
  /\ stream' = [stream EXCEPT ![c] = "changed"]
  /\ seen' = [seen EXCEPT ![c] = watch.version]
  /\ Deliver(c)
  /\ UNCHANGED channel

(* Faulty variant of StreamEnds: the closed channel is noticed first. *)
StreamEndsEagerly(c) ==
  /\ stream[c] = "changed"
  /\ ~senderAlive
  /\ stream' = [stream EXCEPT ![c] = "ended"]
  /\ UNCHANGED <<channel, seen, given>>

(* rx.changed() fails: the sender is gone and its last value was seen. *)
StreamEnds(c) ==
  /\ stream[c] = "changed"
  /\ ~Unseen(c)
  /\ ~senderAlive
  /\ stream' = [stream EXCEPT ![c] = "ended"]
  /\ UNCHANGED <<channel, seen, given>>

Next ==
  \/ \E summary \in Summary : Publish(summary)
  \/ SenderDropped
  \/ \E c \in Client : Subscribe(c) \/ Disconnect(c) \/ Poll(c) \/ StreamEnds(c)

Spec == Init /\ [][Next]_vars

(* tonic polls the stream of a client that keeps reading. *)
FairSpec == Spec /\ \A c \in Client : WF_vars(Poll(c)) /\ WF_vars(StreamEnds(c))
----------------------------------------------------------------------------
TypeOK ==
  /\ watch \in [value : Summary \cup {NoSummary}, version : 0..MaxVersion]
  /\ senderAlive \in BOOLEAN
  /\ stream \in [Client -> {"none", "first", "changed", "ended"}]
  /\ seen \in [Client -> 0..MaxVersion]
  /\ pos \in [Client -> 0..MaxVersion]
  /\ shown \in [Client -> Summary \cup {<<>>}]
  /\ log \in Seq(Summary)

(* A stream that has been polled has been given everything it has seen: a  *)
(* client connected before the first publication waits without an item, a  *)
(* client connected after it starts with the summary that is current, and  *)
(* the slowest client is only ever behind by what it has not polled yet.   *)
NothingWithheld ==
  \A c \in Client :
    stream[c] \in {"changed", "ended"} => pos[c] = seen[c] /\ pos[c] <= Len(log)

(* A stream never ends before its client has the last summary ever         *)
(* published, even if the sender goes in the same instant as it publishes. *)
LastSummaryReachesEveryone ==
  \A c \in Client :
    stream[c] = "ended" /\ log # <<>> => shown[c] = log[Len(log)]

(* A client's stream as LatestSummary sees it: one that was polled when    *)
(* nothing was published is still new.                                     *)
View ==
  [c \in Client |->
     CASE stream[c] = "first" -> "new"
       [] stream[c] = "changed" -> IF seen[c] = 0 THEN "new" ELSE "live"
       [] OTHER -> stream[c]]

Abstract == INSTANCE LatestSummary WITH open <- senderAlive, stream <- View

(* Every client's view is the promise of LatestSummary: published          *)
(* summaries only, none older than one already shown (not even across a    *)
(* reconnect), and always the newest again, however slowly it polls.       *)
ImplementsLatestSummary == Abstract!FairSpec
----------------------------------------------------------------------------
(* What the properties above need to be inductive: the watch holds the     *)
(* newest summary of the log; no client is ahead of it; what a client was  *)
(* shown is the summary at its position; an ended stream has seen it all.  *)
WatchInv ==
  /\ watch.version = Len(log)
  /\ watch.value = IF log = <<>> THEN NoSummary ELSE log[Len(log)]

ClientInv(c) ==
  /\ seen[c] <= Len(log)
  /\ pos[c] <= Len(log)
  /\ shown[c] = IF pos[c] = 0 THEN <<>> ELSE log[pos[c]]
  /\ stream[c] \in {"changed", "ended"} => pos[c] = seen[c]
  /\ stream[c] = "ended" => ~senderAlive /\ seen[c] = Len(log)

StreamInv == WatchInv /\ \A c \in Client : ClientInv(c)
=============================================================================
