------------------------------ MODULE Startup ------------------------------
(***************************************************************************)
(* The first half of `main` (src/main.rs): arguments, then environment     *)
(* (Config::from_env of src/config.rs), then flags over environment, then  *)
(* the bind address; only then are tasks spawned.  One step per statement  *)
(* that may leave the process.                                             *)
(***************************************************************************)
CONSTANTS
  Default, FromEnv, FromFlag   \* a usable value from each origin

(* A setting the user may give: left out, a text that is no value of its   *)
(* type, bytes that are no text, or a usable value.  Any text is a pair.   *)
Absent == "absent"
Garbage == "garbage"
NotUnicode == "not unicode"

Setting == {"port", "pair", "host"}

VARIABLES
  flag,    \* Cli: --port, --pair; there is none for the host
  env,     \* ORDERBOOK_PORT, ORDERBOOK_PAIR, ORDERBOOK_HOST
  config,  \* Config; a host of FromEnv or Default is an IP address
  step     \* "args", "env", "flags", "bind", "serving", "exited"

vars == <<flag, env, config, step>>

Init ==
  /\ flag \in [port : {Absent, Garbage, NotUnicode, FromFlag},
               pair : {Absent, NotUnicode, FromFlag},
               host : {Absent}]
  /\ env \in [port : {Absent, Garbage, NotUnicode, FromEnv},
              pair : {Absent, NotUnicode, FromEnv},
              host : {Absent, Garbage, NotUnicode, FromEnv}]
  /\ config = [name \in Setting |-> Default]
  /\ step = "args"

Continue(next) == step' = next /\ UNCHANGED <<flag, env>>

Unusable(value) == value \in {Garbage, NotUnicode}

(* Cli::parse: clap leaves the process with code 2 on a flag it cannot     *)
(* read as its type.                                                       *)
ParseArgs ==
  /\ step = "args"
  /\ Continue(IF \E name \in Setting : Unusable(flag[name]) THEN "exited" ELSE "env")
  /\ UNCHANGED config

(* env::var(..) with a default: Err covers absent and not Unicode. *)
VarOr(name) == IF env[name] \in {Absent, NotUnicode} THEN Default ELSE env[name]

(* Config::from_env()?: a port that is text but no u16 is InvalidPort. *)
ReadEnv ==
  /\ step = "env"
  /\ IF env.port = Garbage
     THEN Continue("exited") /\ UNCHANGED config
     ELSE Continue("flags") /\ config' = [name \in Setting |-> VarOr(name)]

(* Faulty variant of ApplyFlags: a flag fills in what the environment left. *)
FlagsFillIn ==
  /\ step = "flags"
  /\ config' = [name \in Setting |->
                  IF flag[name] # Absent /\ config[name] = Default
                  THEN flag[name] ELSE config[name]]
  /\ Continue("bind")

(* if let Some(pair) = cli.pair { .. }, and the same for the port. *)
ApplyFlags ==
  /\ step = "flags"
  /\ config' = [name \in Setting |-> IF flag[name] # Absent THEN flag[name] ELSE config[name]]
  /\ Continue("bind")

(* The bind address must parse, and the host must be an IP address. *)
ParseAddr ==
  /\ step = "bind"
  /\ Continue(IF config.host = Garbage THEN "exited" ELSE "serving")
  /\ UNCHANGED config

Next == ParseArgs \/ ReadEnv \/ ApplyFlags \/ ParseAddr

Spec == Init /\ [][Next]_vars /\ WF_vars(Next)
----------------------------------------------------------------------------
(* What was asked for, as the documents have it: a flag wins over a        *)
(* variable, and what is given must be a value.  Absent asks for Default.  *)
Asked(name) == IF flag[name] # Absent THEN flag[name] ELSE env[name]
Refusable(name) == Unusable(Asked(name))

(* Where the code does otherwise than its comments say, and which the      *)
(* property below leaves out.  "CLI flags win over env-sourced values when *)
(* both are given" (main.rs:62), but from_env leaves the process for a     *)
(* port variable that is no port before a usable --port is looked at.      *)
Overruled == env.port = Garbage /\ ~Refusable("port")

(* "An unparseable port is a hard error rather than a silent fallback"     *)
(* (config.rs:39), but env::var takes one that is not Unicode, and any     *)
(* such variable, for absent.                                              *)
FallsBack(name) == flag[name] = Absent /\ env[name] = NotUnicode

(* The process serves with every setting as it was asked for, but for a    *)
(* variable that is not Unicode, and it refuses to start only for a value  *)
(* that counts, but for a port variable that a flag overrules.             *)
AsAsked ==
  /\ step = "exited" => Overruled \/ \E name \in Setting : Refusable(name)
  /\ step = "serving" =>
       \A name \in Setting :
         \/ FallsBack(name)
         \/ /\ ~Refusable(name)
            /\ config[name] = IF Asked(name) = Absent THEN Default ELSE Asked(name)

(* Startup ends, serving what was asked for or refusing what is no value,  *)
(* though main and from_env read the settings at three places that may     *)
(* each leave the process; but for the two cases above.                    *)
StartsAsAsked == <>[](step \in {"serving", "exited"} /\ AsAsked)
============================================================================
