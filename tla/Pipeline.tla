------------------------------ MODULE Pipeline ------------------------------
(***************************************************************************)
(* The service end to end: the feeds' messages, the aggregator task and    *)
(* the gRPC streams around one watch channel.  The aggregator is the only  *)
(* publisher and the streams (BookStream) are the only subscribers; the    *)
(* sending half of the watch is dropped when `run` returns.                *)
(***************************************************************************)
EXTENDS Aggregator

CONSTANTS
  Client,      \* the BookSummary callers
  MaxVersion,  \* bound: publications
  Published    \* what can be published

(* Every book sent may lead to a publication. *)
ASSUME PipelineAssumption ==
  Published = Summary /\ MaxVersion \in Nat /\ MaxSends <= MaxVersion

VARIABLES
  stream,  \* BookStream's variables, per client
  seen,
  log,
  pos,
  shown

clients == <<stream, seen, pos, shown>>
allVars == <<vars, log, clients>>

Streams == INSTANCE BookStream WITH
  senderAlive <- status = "running",
  Summary <- Published

PipelineInit ==
  /\ Init
  /\ Streams!Init

(* A step of the aggregator or the feeds; a publication goes on the log. *)
ServerStep ==
  /\ Next
  /\ log' = IF watch'.version = watch.version THEN log ELSE Append(log, watch'.value)
  /\ UNCHANGED clients

(* A step of a client's stream. *)
ClientStep(c) ==
  /\ UNCHANGED vars
  /\ \/ Streams!Subscribe(c) \/ Streams!Disconnect(c)
     \/ Streams!Poll(c) \/ Streams!StreamEnds(c)

PipelineNext == ServerStep \/ \E c \in Client : ClientStep(c)

PipelineSpec == PipelineInit /\ [][PipelineNext]_allVars

(* No task has ended.  The first that does makes `main` return, which      *)
(* aborts the server wherever it is.                                       *)
Alive == status = "running" /\ senders = Venue
----------------------------------------------------------------------------
(* What the aggregator does to the watch is what BookStream takes its      *)
(* publisher to do: values that differ from the last, one version at a     *)
(* time, nothing after the end.                                            *)
FeedsTheStreams == Streams!Spec

(* As long as the process lives, every client that stays catches up with   *)
(* the last merge the aggregator made: neither the duplicate test nor the  *)
(* collapsing watch between them loses the state of the market.  Nothing   *)
(* is claimed of what was published just before a task ended.              *)
NewsReachesClients ==
  \A c \in Client :
    []<>(\/ ~Alive
         \/ lastPublished = NoSummary
         \/ shown[c] = lastPublished
         \/ stream[c] = "none")
============================================================================
