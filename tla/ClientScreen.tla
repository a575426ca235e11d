---------------------------- MODULE ClientScreen ----------------------------
(***************************************************************************)
(* The terminal viewer as a whole (src/bin/client.rs): the reconnect loop  *)
(* of Viewer, in which every summary that is polled is painted before the  *)
(* next is asked for.  One row of the table, a bid's cell and an ask's     *)
(* (LevelCell), stands for all of a frame; the server goes on meanwhile.   *)
(***************************************************************************)
EXTENDS Viewer, LevelCell

VARIABLE painting  \* `render` and the write are under way

screenVars == <<viewerVars, cellVars, painting>>

ScreenInit ==
  /\ ViewerInit
  /\ CellInit /\ side = "left" /\ fill = 0
  /\ painting = FALSE

(* stream.next() yields a summary: the bid's cell is begun. *)
StartsFrame ==
  /\ ~painting
  /\ Draw
  /\ IF watch.value = NoSummary
     THEN UNCHANGED <<cellVars, painting>>
     ELSE StartCell("right") /\ painting' = TRUE

PaintsWindow ==
  /\ painting
  /\ \E end \in Boundaries : Window(end)
  /\ UNCHANGED <<viewerVars, painting>>

(* The next cell of the row. *)
NextCell ==
  /\ painting
  /\ at = Width /\ side = "right"
  /\ StartCell("left")
  /\ UNCHANGED <<viewerVars, painting>>

(* write_all and flush; an error leaves connect_and_stream. *)
Writes ==
  /\ painting
  /\ at = Width /\ side = "left"
  /\ painting' = FALSE
  /\ UNCHANGED <<viewerVars, cellVars>>

WriteFails ==
  /\ faulty
  /\ painting
  /\ at = Width /\ side = "left"
  /\ painting' = FALSE
  /\ stream' = [stream EXCEPT ![Me] = "none"]
  /\ phase' = "sleeping"
  /\ UNCHANGED <<channel, seen, given, faulty, cellVars>>

Paints == PaintsWindow \/ NextCell \/ Writes

(* The loop of `main`, which is not reached while a frame is painted. *)
Loops(A) == ~painting /\ A /\ UNCHANGED <<cellVars, painting>>

Reconnects == Loops(Connect \/ ConnectFails \/ Ends \/ Wake)

(* The server and the network do not wait for the client. *)
Elsewhere ==
  /\ PublishNext \/ ServerEnds \/ Drained \/ ServerStarts \/ Breaks \/ Heal
  /\ UNCHANGED <<cellVars, painting>>

ScreenNext == StartsFrame \/ Paints \/ WriteFails \/ Reconnects \/ Elsewhere

(* The viewer is polled, painting is plain computation and comes to its    *)
(* end, a server that is there answers and streams, and whoever runs the   *)
(* server starts it again.                                                 *)
ScreenSpec ==
  /\ ScreenInit /\ [][ScreenNext]_screenVars
  /\ WF_screenVars(StartsFrame) /\ WF_screenVars(Paints)
  /\ WF_screenVars(Loops(Connect)) /\ WF_screenVars(Loops(ConnectFails))
  /\ WF_screenVars(Loops(Ends)) /\ WF_screenVars(Loops(Wake))
  /\ WF_screenVars(Drained /\ UNCHANGED <<cellVars, painting>>)
  /\ WF_screenVars(ServerStarts /\ UNCHANGED <<cellVars, painting>>)
----------------------------------------------------------------------------
(* "Covers both server not up yet and server restarted": through any       *)
(* sequence of failed connects, restarts, failed writes and streams that   *)
(* end with or without an error, the screen shows the whole of the newest  *)
(* summary of the process that runs again and again, once the faults stop  *)
(* - except on a connection that died without a sign, which the client     *)
(* never leaves.                                                           *)
CatchesUp ==
  <>[]~faulty => []<>(\/ pos[Me] = Len(log) /\ ~painting
                      \/ stream[Me] = "dead")
============================================================================
