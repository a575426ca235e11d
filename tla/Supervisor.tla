----------------------------- MODULE Supervisor -----------------------------
(***************************************************************************)
(* The second half of `main` (src/main.rs): the feeds, the aggregator and  *)
(* the server in one JoinSet, of which `main` awaits the first to end.     *)
(*                                                                         *)
(* A task that ends is dropped first, and with it its ends of the          *)
(* channels, and only then is the JoinSet told: what its end does to the   *)
(* other tasks may overtake the news of it.                                *)
(***************************************************************************)
EXTENDS Sequences

CONSTANTS Feed, Aggregator, Server

ASSUME SupervisorAssumption ==
  Aggregator \notin Feed /\ Server \notin Feed /\ Aggregator # Server

Task == Feed \cup {Aggregator, Server}

VARIABLES
  task,      \* "running", "dropped", "joinable", "aborted"
  result,    \* what it ended with: "none", "ok", "err", "panic"
  heard,     \* the aggregator has had a book
  joinable,  \* the JoinSet's ended tasks, first to end first
  exit       \* the task `main` returned for, <<>> before

vars == <<task, result, heard, joinable, exit>>

Init ==
  /\ task = [t \in Task |-> "running"]
  /\ result = [t \in Task |-> "none"]
  /\ heard = FALSE
  /\ joinable = <<>>
  /\ exit = <<>>

HearBook ==
  /\ task[Aggregator] = "running"
  /\ \E f \in Feed : task[f] = "running"
  /\ heard' = TRUE
  /\ UNCHANGED <<task, result, joinable, exit>>

(* The task's future is done and dropped. *)
Ends(t, outcome) ==
  /\ task[t] = "running"
  /\ task' = [task EXCEPT ![t] = "dropped"]
  /\ result' = [result EXCEPT ![t] = outcome]
  /\ UNCHANGED <<heard, joinable, exit>>

Panics(t) == Ends(t, "panic")

(* server::router(rx).serve(addr): the port is taken, or accepting fails. *)
ServeFails == Ends(Server, "err")

(* aggregator::run returns: nothing heard within the grace period ... *)
GivesUp == ~heard /\ Ends(Aggregator, "ok")

(* Faulty variant of ChannelCloses: only one feed holds a sender. *)
ChannelClosesEarly ==
  /\ \E f \in Feed : task[f] # "running"
  /\ Ends(Aggregator, "ok")

(* ... or rx.recv() is None because every feed has dropped its sender.     *)
(* `main` keeps none: feed_tx itself moves into the last feed.             *)
ChannelCloses ==
  /\ \A f \in Feed : task[f] # "running"
  /\ Ends(Aggregator, "ok")

Notify(t) ==
  /\ task[t] = "dropped"
  /\ task' = [task EXCEPT ![t] = "joinable"]
  /\ joinable' = Append(joinable, t)
  /\ UNCHANGED <<result, heard, exit>>

(* Faulty variant of JoinNext: the tasks are awaited one after the other. *)
AwaitInTurn ==
  /\ exit = <<>>
  /\ \A f \in Feed : task[f] = "joinable"
  /\ exit' = <<Head(joinable)>>
  /\ task' = [t \in Task |-> IF task[t] = "running" THEN "aborted" ELSE task[t]]
  /\ UNCHANGED <<result, heard, joinable>>

(* tasks.join_next(), the match on its outcome, and the return from main,  *)
(* which drops the JoinSet and aborts the rest.                            *)
JoinNext ==
  /\ exit = <<>>
  /\ joinable # <<>>
  /\ exit' = <<Head(joinable)>>
  /\ task' = [t \in Task |-> IF task[t] = "running" THEN "aborted" ELSE task[t]]
  /\ UNCHANGED <<result, heard, joinable>>

Next ==
  \/ HearBook \/ ServeFails \/ GivesUp \/ ChannelCloses \/ JoinNext
  \/ \E t \in Task : Panics(t) \/ Notify(t)

Spec == Init /\ [][Next]_vars

(* The runtime runs what is ready. *)
FairSpec == Spec /\ WF_vars(JoinNext) /\ \A t \in Task : WF_vars(Notify(t))
----------------------------------------------------------------------------
(* The process ends with code 0 if the task it ended for returned Ok. *)
CleanExit == exit # <<>> /\ result[exit[1]] = "ok"

(* "The moment any one task ends, the whole process ends": no task's end   *)
(* leaves the others serving without it, whichever comes first and         *)
(* whatever the others wait for.                                           *)
AnyEndEndsProcess == \A t \in Task : (task[t] = "dropped") ~> (exit # <<>>)

(* Code 0 is the aggregator having nothing to do, never a failure of a     *)
(* running service: no book was ever heard, or no feed is left to send     *)
(* one.  (Then every feed has panicked, and the aggregator's end overtook  *)
(* the news of it.)                                                        *)
CleanExitMeansNoData ==
  CleanExit => ~heard \/ \A f \in Feed : result[f] = "panic"
----------------------------------------------------------------------------
(* What CleanExitMeansNoData needs to be inductive. *)
EndTypeOK ==
  /\ task \in [Task -> {"running", "dropped", "joinable", "aborted"}]
  /\ result \in [Task -> {"none", "ok", "err", "panic"}]
  /\ joinable \in Seq(Task)

EndInv ==
  /\ EndTypeOK
  /\ \A t \in Task : task[t] = "running" <=> result[t] = "none" /\ task[t] # "aborted"
  /\ \A f \in Feed : result[f] \in {"none", "panic"}
  /\ result[Server] # "ok"
  /\ result[Aggregator] = "ok" => ~heard \/ \A f \in Feed : result[f] = "panic"
  /\ \A t \in Task : IF exit = <<>> THEN task[t] # "aborted" ELSE task[t] # "running"
  /\ exit = <<>> \/ \E t \in Task : exit = <<t>>
============================================================================
