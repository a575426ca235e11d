---------------------------- MODULE LatestSummary ----------------------------
(***************************************************************************)
(* What the gRPC service promises a client of BookSummary, with no channel *)
(* in sight: summaries are published one after another; a client is shown  *)
(* some of them, never an older one than it has already seen, and keeps    *)
(* catching up with the newest.                                            *)
(***************************************************************************)
EXTENDS Integers, Sequences

CONSTANTS Client, Summary

VARIABLES
  log,      \* the summaries published so far
  open,     \* may publishing go on?
  stream,   \* per client: "none", "new" (shown nothing yet), "live", "ended"
  pos,      \* per client: the newest summary it has been shown
  shown     \* per client: that summary, <<>> before the first

vars == <<log, open, stream, pos, shown>>

Init ==
  /\ log = <<>>
  /\ open = TRUE
  /\ stream = [c \in Client |-> "none"]
  /\ pos = [c \in Client |-> 0]
  /\ shown = [c \in Client |-> <<>>]

Publish ==
  /\ open
  /\ \E s \in Summary : log' = Append(log, s)
  /\ UNCHANGED <<open, stream, pos, shown>>

Close ==
  /\ open
  /\ open' = FALSE
  /\ UNCHANGED <<log, stream, pos, shown>>

Join(c) ==
  /\ stream[c] = "none"
  /\ stream' = [stream EXCEPT ![c] = "new"]
  /\ UNCHANGED <<log, open, pos, shown>>

Leave(c) ==
  /\ stream[c] # "none"
  /\ stream' = [stream EXCEPT ![c] = "none"]
  /\ UNCHANGED <<log, open, pos, shown>>

(* A new stream may start with the summary its client saw last; after that *)
(* every summary is newer than the one before.                             *)
Show(c, i) ==
  /\ \/ stream[c] = "new" /\ i >= pos[c]
     \/ stream[c] = "live" /\ i > pos[c]
  /\ stream' = [stream EXCEPT ![c] = "live"]
  /\ pos' = [pos EXCEPT ![c] = i]
  /\ shown' = [shown EXCEPT ![c] = log[i]]
  /\ UNCHANGED <<log, open>>

(* A stream ends only when nothing more can come and nothing was withheld. *)
End(c) ==
  /\ ~open
  /\ \/ stream[c] = "live" /\ pos[c] = Len(log)
     \/ stream[c] = "new" /\ log = <<>>
  /\ stream' = [stream EXCEPT ![c] = "ended"]
  /\ UNCHANGED <<log, open, pos, shown>>

Next ==
  \/ Publish
  \/ Close
  \/ \E c \in Client :
       \/ Join(c) \/ Leave(c) \/ End(c)
       \/ \E i \in 1..Len(log) : Show(c, i)

(* A client that stays is shown the newest summary again and again. *)
ShowNewest(c) == log # <<>> /\ Show(c, Len(log))

Spec == Init /\ [][Next]_vars
FairSpec == Spec /\ \A c \in Client : WF_vars(ShowNewest(c)) /\ WF_vars(End(c))
=============================================================================
