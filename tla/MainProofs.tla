----------------------------- MODULE MainProofs -----------------------------
(***************************************************************************)
(* `main` from its arguments to its exit code: what it starts, and what a  *)
(* clean exit means, for any number of feeds.                              *)
(***************************************************************************)
EXTENDS Main, TLAPS

(* Every End that is allowed keeps the invariant. *)
LEMMA EndsKeepsInv ==
  ASSUME EndInv,
         NEW t \in Task, NEW outcome \in {"ok", "err", "panic"}, Ends(t, outcome),
         t \in Feed => outcome = "panic",
         t = Server => outcome # "ok",
         t = Aggregator /\ outcome = "ok" =>
           ~heard \/ \A f \in Feed : result[f] = "panic"
  PROVE  EndInv'
  <1>1. /\ task' = [task EXCEPT ![t] = "dropped"]
        /\ result' = [result EXCEPT ![t] = outcome]
        /\ UNCHANGED <<heard, joinable, exit>>
        /\ task[t] = "running"
    BY DEF Ends
  <1>2. task \in [Task -> {"running", "dropped", "joinable", "aborted"}]
        /\ result \in [Task -> {"none", "ok", "err", "panic"}]
    BY DEF EndInv, EndTypeOK
  <1>3. EndTypeOK'
    BY <1>1, <1>2 DEF EndInv, EndTypeOK
  <1>4. \A u \in Task : task'[u] = "running" <=> result'[u] = "none" /\ task'[u] # "aborted"
    BY <1>1, <1>2 DEF EndInv
  <1>5. \A f \in Feed : result'[f] \in {"none", "panic"}
    BY <1>1, <1>2 DEF EndInv, Task
  <1>6. result'[Server] # "ok"
    BY <1>1, <1>2 DEF EndInv, Task
  <1>7. result'[Aggregator] = "ok" => ~heard' \/ \A f \in Feed : result'[f] = "panic"
    <2>1. CASE t = Aggregator
      BY <1>1, <1>2, <2>1, SupervisorAssumption DEF Task
    <2>2. CASE t # Aggregator
      BY <1>1, <1>2, <2>2, SupervisorAssumption DEF EndInv, Task
    <2> QED BY <2>1, <2>2
  <1>8. \A u \in Task : IF exit' = <<>> THEN task'[u] # "aborted" ELSE task'[u] # "running"
    BY <1>1, <1>2 DEF EndInv
  <1> QED BY <1>1, <1>3, <1>4, <1>5, <1>6, <1>7, <1>8 DEF EndInv

(* The invariant behind CleanExitMeansNoData: who may end how, and that    *)
(* nothing is running once main has returned.                              *)
LEMMA EndInvariant == Spec => []EndInv
  <1>a. Aggregator \in Task /\ Server \in Task /\ Feed \subseteq Task
    BY DEF Task
  <1>1. Init => EndInv
    BY <1>a DEF Init, EndInv, EndTypeOK
  <1>2. EndInv /\ [Next]_vars => EndInv'
    <2> SUFFICES ASSUME EndInv, [Next]_vars
                 PROVE  EndInv'
      OBVIOUS
    <2>1. CASE HearBook
      <3>1. result[Aggregator] # "ok"
        BY <1>a, <2>1 DEF HearBook, EndInv
      <3> QED BY <2>1, <3>1 DEF HearBook, EndInv, EndTypeOK
    <2>2. CASE ServeFails
      BY <1>a, <2>2, EndsKeepsInv, SupervisorAssumption DEF ServeFails
    <2>3. CASE GivesUp
      BY <1>a, <2>3, EndsKeepsInv, SupervisorAssumption DEF GivesUp
    <2>4. CASE ChannelCloses
      <3>1. task[Aggregator] = "running"
        BY <2>4 DEF ChannelCloses, Ends
      <3>2. exit = <<>>
        BY <1>a, <3>1 DEF EndInv
      <3>3. \A f \in Feed : result[f] = "panic"
        BY <1>a, <2>4, <3>2 DEF ChannelCloses, EndInv
      <3> QED BY <1>a, <2>4, <3>3, EndsKeepsInv, SupervisorAssumption DEF ChannelCloses
    <2>5. CASE JoinNext
      <3>1. Head(joinable) \in Task
        BY <2>5 DEF JoinNext, EndInv, EndTypeOK
      <3>2. /\ exit' = <<Head(joinable)>>
            /\ task' = [t \in Task |-> IF task[t] = "running" THEN "aborted" ELSE task[t]]
            /\ UNCHANGED <<result, heard, joinable>>
        BY <2>5 DEF JoinNext
      <3>3. EndTypeOK' /\ \A t \in Task : task'[t] # "running"
        BY <3>2 DEF EndInv, EndTypeOK
      <3>4. \A t \in Task : task'[t] = "running" <=> result'[t] = "none" /\ task'[t] # "aborted"
        BY <3>2 DEF EndInv, EndTypeOK
      <3> QED BY <3>1, <3>2, <3>3, <3>4 DEF EndInv
    <2>6. ASSUME NEW t \in Task, Panics(t)
          PROVE  EndInv'
      BY <2>6, EndsKeepsInv DEF Panics
    <2>7. ASSUME NEW t \in Task, Notify(t)
          PROVE  EndInv'
      <3>1. /\ task' = [task EXCEPT ![t] = "joinable"]
            /\ joinable' = Append(joinable, t)
            /\ UNCHANGED <<result, heard, exit>>
            /\ task[t] = "dropped"
        BY <2>7 DEF Notify
      <3>2. EndTypeOK'
        BY <3>1 DEF EndInv, EndTypeOK
      <3> QED BY <3>1, <3>2 DEF EndInv, EndTypeOK
    <2>8. CASE UNCHANGED vars
      BY <2>8 DEF vars, EndInv, EndTypeOK
    <2> QED BY <2>1, <2>2, <2>3, <2>4, <2>5, <2>6, <2>7, <2>8 DEF Next
  <1> QED BY <1>1, <1>2, PTL DEF Spec

(* What is spawned once the settings are read is a supervisor from its     *)
(* beginning: nothing of it has happened before.                           *)
LEMMA MainIsSupervisor == MainSpec => Spec
  <1>1. MainInit => Init
    BY DEF MainInit
  <1>2. [MainNext]_<<settings, vars>> => [Next]_vars
    BY DEF MainNext, Starting, Serving, vars
  <1> QED BY <1>1, <1>2, PTL DEF MainSpec, Spec

(* With any number of feeds, the process never reports success for a       *)
(* service that had data and lost it to a failure, save when every feed    *)
(* has panicked.                                                           *)
THEOREM CleanExitIsHonest == MainSpec => []CleanExitMeansNoData
  <1>1. EndInv => CleanExitMeansNoData
    <2> SUFFICES ASSUME EndInv, CleanExit
                 PROVE  ~heard \/ \A f \in Feed : result[f] = "panic"
      BY DEF CleanExitMeansNoData
    <2>1. exit[1] \in Task /\ result[exit[1]] = "ok"
      BY DEF CleanExit, EndInv
    <2>2. exit[1] = Aggregator
      BY <2>1 DEF EndInv, Task
    <2> QED BY <2>1, <2>2 DEF EndInv
  <1> QED BY <1>1, EndInvariant, MainIsSupervisor, PTL
----------------------------------------------------------------------------
Name == {"port", "pair", "host"}

Origins ==
  /\ flag \in [port : {"absent", "garbage", "not unicode", FromFlag},
               pair : {"absent", "not unicode", FromFlag},
               host : {"absent"}]
  /\ env \in [port : {"absent", "garbage", "not unicode", FromEnv},
              pair : {"absent", "not unicode", FromEnv},
              host : {"absent", "garbage", "not unicode", FromEnv}]
  /\ DOMAIN config = Name

(* A setting as the code arrives at it. *)
Arrived(name) == IF flag[name] # "absent" THEN flag[name] ELSE Settings!VarOr(name)

ExitReason == Settings!Overruled \/ \E name \in Name : Settings!Refusable(name)

(* What AsAsked needs to be inductive: how far the settings are at each    *)
(* step of startup, and that what would have ended it did not occur.       *)
StartupInv ==
  /\ Origins
  /\ step \in {"args", "env", "flags", "bind", "serving", "exited"}
  /\ step = "exited" => ExitReason
  /\ step \in {"env", "flags", "bind", "serving"} =>
       \A name \in Name : flag[name] \in {"absent", FromFlag}
  /\ step \in {"flags", "bind", "serving"} => env.port # "garbage"
  /\ step = "flags" => \A name \in Name : config[name] = Settings!VarOr(name)
  /\ step \in {"bind", "serving"} => \A name \in Name : config[name] = Arrived(name)
  /\ step = "serving" => env.host # "garbage"

(* `main` and Config::from_env: tasks are spawned with the settings that   *)
(* were asked for, or nothing is spawned and there was a reason, save for  *)
(* the two deviations AsAsked names.                                       *)
THEOREM ServesAsAsked == MainSpec => []Settings!AsAsked
  <1> USE DEF Settings!Absent, Settings!Garbage, Settings!NotUnicode, Settings!Setting, Name
  <1>1. MainInit => StartupInv
    BY DEF MainInit, Settings!Init, StartupInv, Origins
  <1>2. ASSUME StartupInv, Settings!Next
        PROVE  StartupInv'
    <2>1. UNCHANGED <<flag, env>>
      BY <1>2 DEF Settings!Next, Settings!ParseArgs, Settings!ReadEnv, Settings!ApplyFlags,
                  Settings!ParseAddr, Settings!Continue
    <2>2. /\ ExitReason' = ExitReason
          /\ \A name \in Name : /\ Settings!VarOr(name)' = Settings!VarOr(name)
                               /\ Arrived(name)' = Arrived(name)
      BY <2>1 DEF ExitReason, Settings!Overruled, Settings!Refusable, Settings!Asked,
                  Settings!Unusable, Settings!VarOr, Arrived
    <2>3. CASE Settings!ParseArgs
      <3>1. step = "args" /\ UNCHANGED config
        BY <2>3 DEF Settings!ParseArgs
      <3>2. CASE \E name \in Name : Settings!Unusable(flag[name])
        <4>1. ExitReason
          BY <3>2 DEF ExitReason, Settings!Refusable, Settings!Asked, Settings!Unusable
        <4>2. step' = "exited"
          BY <2>3, <3>2 DEF Settings!ParseArgs, Settings!Continue
        <4> QED BY <1>2, <2>1, <2>2, <3>1, <4>1, <4>2 DEF StartupInv, Origins
      <3>3. CASE ~\E name \in Name : Settings!Unusable(flag[name])
        <4>1. step' = "env"
          BY <2>3, <3>3 DEF Settings!ParseArgs, Settings!Continue
        <4>2. \A name \in Name : flag[name] \in {"absent", FromFlag}
          BY <1>2, <3>3 DEF StartupInv, Origins, Settings!Unusable
        <4> QED BY <1>2, <2>1, <3>1, <4>1, <4>2 DEF StartupInv, Origins
      <3> QED BY <3>2, <3>3
    <2>4. CASE Settings!ReadEnv
      <3>1. step = "env" /\ \A name \in Name : flag[name] \in {"absent", FromFlag}
        BY <1>2, <2>4 DEF Settings!ReadEnv, StartupInv
      <3>2. CASE env.port = "garbage"
        <4>1. step' = "exited" /\ UNCHANGED config
          BY <2>4, <3>2 DEF Settings!ReadEnv, Settings!Continue
        <4>2. ExitReason
          BY <3>2 DEF ExitReason, Settings!Overruled
        <4> QED BY <1>2, <2>1, <2>2, <4>1, <4>2 DEF StartupInv, Origins
      <3>3. CASE env.port # "garbage"
        <4>1. step' = "flags" /\ config' = [name \in Name |-> Settings!VarOr(name)]
          BY <2>4, <3>3 DEF Settings!ReadEnv, Settings!Continue
        <4> QED BY <1>2, <2>1, <2>2, <3>1, <3>3, <4>1 DEF StartupInv, Origins
      <3> QED BY <3>2, <3>3
    <2>5. CASE Settings!ApplyFlags
      <3>1. /\ step = "flags" /\ step' = "bind"
            /\ config' = [name \in Name |-> IF flag[name] # "absent" THEN flag[name]
                                           ELSE config[name]]
        BY <2>5 DEF Settings!ApplyFlags, Settings!Continue
      <3>2. \A name \in Name : config'[name] = Arrived(name)'
        BY <1>2, <2>2, <3>1 DEF StartupInv, Arrived
      <3> QED BY <1>2, <2>1, <3>1, <3>2 DEF StartupInv, Origins
    <2>6. CASE Settings!ParseAddr
      <3>1. config.host = Arrived("host") /\ step = "bind"
        BY <1>2, <2>6 DEF Settings!ParseAddr, StartupInv
      <3>2. config.host = "garbage" <=> env.host = "garbage"
        BY <1>2, <3>1, MainAssumption DEF Arrived, Settings!VarOr, StartupInv, Origins
      <3>3. UNCHANGED config /\ step' = IF config.host = "garbage" THEN "exited" ELSE "serving"
        BY <2>6 DEF Settings!ParseAddr, Settings!Continue
      <3>4. env.host = "garbage" => ExitReason
        BY <1>2 DEF StartupInv, Origins, ExitReason, Settings!Refusable, Settings!Asked,
                    Settings!Unusable
      <3> QED BY <1>2, <2>1, <2>2, <3>1, <3>2, <3>3, <3>4 DEF StartupInv, Origins
    <2> QED BY <1>2, <2>3, <2>4, <2>5, <2>6 DEF Settings!Next
  <1>3. ASSUME StartupInv, [MainNext]_<<settings, vars>>
        PROVE  StartupInv'
    <2>1. CASE UNCHANGED settings
      <3>1. UNCHANGED <<flag, env, config, step>>
        BY <2>1 DEF settings
      <3>2. /\ Origins' /\ ExitReason' = ExitReason
            /\ \A name \in Name : /\ Settings!VarOr(name)' = Settings!VarOr(name)
                                 /\ Arrived(name)' = Arrived(name)
        BY <1>3, <3>1 DEF StartupInv, Origins, ExitReason, Settings!Overruled, Settings!Refusable,
                          Settings!Asked, Settings!Unusable, Settings!VarOr, Arrived
      <3> QED BY <1>3, <3>1, <3>2 DEF StartupInv
    <2> QED BY <1>2, <1>3, <2>1 DEF MainNext, Starting, Serving
  <1>4. StartupInv => Settings!AsAsked
    <2> SUFFICES ASSUME StartupInv PROVE Settings!AsAsked
      OBVIOUS
    <2>1. step = "exited" => Settings!Overruled \/ \E name \in Name : Settings!Refusable(name)
      BY DEF StartupInv, ExitReason
    <2>2. ASSUME step = "serving", NEW name \in Name, ~Settings!FallsBack(name)
          PROVE  /\ ~Settings!Refusable(name)
                 /\ config[name] = IF Settings!Asked(name) = "absent" THEN Default
                                   ELSE Settings!Asked(name)
      <3>1. flag[name] \in {"absent", FromFlag} /\ config[name] = Arrived(name)
        BY <2>2 DEF StartupInv
      <3>2. CASE flag[name] # "absent"
        BY <3>1, <3>2, MainAssumption
           DEF Arrived, Settings!Refusable, Settings!Unusable, Settings!Asked
      <3>3. CASE flag[name] = "absent"
        <4>1. env[name] \in {"absent", FromEnv}
          BY <2>2, <3>3 DEF StartupInv, Origins, Settings!FallsBack
        <4> QED BY <3>1, <3>3, <4>1, MainAssumption
               DEF Arrived, Settings!VarOr, Settings!Refusable, Settings!Unusable, Settings!Asked
      <3> QED BY <3>2, <3>3
    <2> QED BY <2>1, <2>2 DEF Settings!AsAsked
  <1> QED BY <1>1, <1>3, <1>4, PTL DEF MainSpec
============================================================================
