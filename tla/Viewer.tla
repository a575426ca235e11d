------------------------------- MODULE Viewer -------------------------------
(***************************************************************************)
(* The reconnect loop of the terminal viewer (src/bin/client.rs) against a *)
(* server that ends and is started again: BookStream's channel is that of  *)
(* one server process, and a new process begins with an empty one.         *)
(*                                                                         *)
(* `pos` is what the screen shows of the present process: 0 while it shows *)
(* nothing of it.  An item that is lost on the way is one that was not     *)
(* polled; painting the one that was is ClientScreen's.                    *)
(***************************************************************************)
EXTENDS BookStream

VARIABLES
  phase,  \* the loop: "connecting", "streaming", "sleeping"
  faulty  \* the server may end and connections may break

viewerVars == <<vars, phase, faulty>>

Me == CHOOSE c \in Client : TRUE

ViewerInit == Init /\ phase = "connecting" /\ faulty = TRUE

(* connect and book_summary, both answered. *)
Connect ==
  /\ phase = "connecting"
  /\ senderAlive
  /\ Subscribe(Me)
  /\ phase' = "streaming"
  /\ UNCHANGED faulty

ConnectFails ==
  /\ phase = "connecting"
  /\ ~senderAlive \/ faulty
  /\ phase' = "sleeping"
  /\ UNCHANGED <<vars, faulty>>

(* stream.next() yields a summary: it is recorded and drawn. *)
Draw ==
  /\ phase = "streaming"
  /\ Poll(Me)
  /\ UNCHANGED <<phase, faulty>>

(* Faulty variant of Ends: a stream that ends without error ends the loop. *)
EndsForGood ==
  /\ phase = "streaming"
  /\ stream[Me] = "ended"
  /\ stream' = [stream EXCEPT ![Me] = "none"]
  /\ phase' = "done"
  /\ UNCHANGED <<channel, seen, given, faulty>>

(* connect_and_stream returns, Ok or Err: the loop logs it and sleeps. *)
Ends ==
  /\ phase = "streaming"
  /\ stream[Me] = "ended"
  /\ stream' = [stream EXCEPT ![Me] = "none"]
  /\ phase' = "sleeping"
  /\ UNCHANGED <<channel, seen, given, faulty>>

(* sleep(1 s) *)
Wake ==
  /\ phase = "sleeping"
  /\ phase' = "connecting"
  /\ UNCHANGED <<vars, faulty>>
----------------------------------------------------------------------------
(* The server and the network. *)
PublishNext == (\E s \in Summary : Publish(s)) /\ UNCHANGED <<phase, faulty>>

(* The aggregator returns; its streams drain and end ... *)
ServerEnds == faulty /\ SenderDropped /\ UNCHANGED <<phase, faulty>>
Drained == StreamEnds(Me) /\ UNCHANGED <<phase, faulty>>

Open == stream[Me] \in {"first", "changed"}

(* ... unless the process is gone before; a new one takes its place. *)
ServerStarts ==
  /\ ~senderAlive
  /\ senderAlive' = TRUE
  /\ watch' = [value |-> NoSummary, version |-> 0]
  /\ log' = <<>>
  /\ seen' = [seen EXCEPT ![Me] = 0]
  /\ pos' = [pos EXCEPT ![Me] = 0]
  /\ shown' = [shown EXCEPT ![Me] = <<>>]
  /\ stream' = [stream EXCEPT ![Me] = IF Open THEN "ended" ELSE @]
  /\ UNCHANGED <<phase, faulty>>

(* The connection is reset, or goes dead without a sign: the client has    *)
(* neither a keepalive nor a timeout.                                      *)
Breaks ==
  /\ faulty
  /\ Open
  /\ \E end \in {"ended", "dead"} : stream' = [stream EXCEPT ![Me] = end]
  /\ UNCHANGED <<channel, seen, given, phase, faulty>>

Heal == faulty /\ faulty' = FALSE /\ UNCHANGED <<vars, phase>>
==============================================================================
