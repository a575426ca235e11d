-------------------------------- MODULE Main --------------------------------
(***************************************************************************)
(* `main` of src/main.rs from its first line to its last: the settings are *)
(* read (Startup), then the tasks are spawned and the first to end is      *)
(* awaited (Supervisor).                                                   *)
(***************************************************************************)
EXTENDS Supervisor

CONSTANTS Default, FromEnv, FromFlag

VARIABLES flag, env, config, step  \* Startup's

settings == <<flag, env, config, step>>

Settings == INSTANCE Startup

(* The usable values are none of the others. *)
ASSUME MainAssumption ==
  {Default, FromEnv, FromFlag} \cap {Settings!Absent, Settings!Garbage, Settings!NotUnicode} = {}

MainInit == Settings!Init /\ Init

Starting == Settings!Next /\ UNCHANGED vars

(* Spawned once the bind address has parsed. *)
Serving == step = "serving" /\ Next /\ UNCHANGED settings

MainNext == Starting \/ Serving

(* `main` runs, and the runtime runs what is ready. *)
MainSpec ==
  /\ MainInit /\ [][MainNext]_<<settings, vars>>
  /\ WF_settings(Starting)
  /\ WF_vars(Serving /\ JoinNext)
  /\ \A t \in Task : WF_vars(Serving /\ Notify(t))
----------------------------------------------------------------------------
(* Startup ends, serving what was asked for or refusing what is no value,  *)
(* but for the two cases Startup names.                                    *)
StartsAsAsked == Settings!StartsAsAsked
============================================================================
