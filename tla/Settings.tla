------------------------------ MODULE Settings ------------------------------
(***************************************************************************)
(* The settings of proc_box (main.go): init parses the command line, then  *)
(* takes the flags that were not on it from PBOX_<FLAG>, in the order in   *)
(* which Go happens to iterate a map; main acts on what it finds.          *)
(***************************************************************************)
EXTENDS Naturals, FiniteSets

CONSTANTS
  Strings,    \* flags of type string, where every text is a value
  Parsed,     \* flags of type duration, int64 and bool
  OnlyValid   \* are all texts in the environment well-formed

SettingsAssumption == {"version", "debug", "nowarn"} \subseteq Parsed /\ OnlyValid \in BOOLEAN

Flags == Strings \cup Parsed
Absent == "absent"    \* not on the command line; unset or empty in the environment
Garbled == "garbled"  \* a text the type of the flag does not parse: "10" for a duration

VARIABLES
  cli,    \* flag -> what the command line has for it
  env,    \* flag -> what PBOX_<FLAG> is
  args,   \* are there arguments left: the command to run
  value,  \* flag -> whose value it holds: default, cli, env, or the zero of its type
  flags,  \* init's map: flags still to be looked up
  level,  \* of the log
  pc

vars == <<cli, env, args, value, flags, level, pc>>

Texts(f, good) == {Absent, good} \cup (IF f \in Parsed THEN {Garbled} ELSE {})
EnvTexts(f) == Texts(f, "env") \ (IF OnlyValid THEN {Garbled} ELSE {})

Init ==
  /\ cli \in [Flags -> {Absent, "cli", Garbled}] /\ \A f \in Flags : cli[f] \in Texts(f, "cli")
  /\ env \in [Flags -> {Absent, "env", Garbled}] /\ \A f \in Flags : env[f] \in EnvTexts(f)
  /\ args \in BOOLEAN
  /\ value = [f \in Flags |-> "default"]
  /\ flags = {} /\ level = "info" /\ pc = "parse"

-----------------------------------------------------------------------------
(* flag.Parse: the first flag that does not parse ends the program.        *)
Exit(status) == pc' = status

ParseFails ==
  /\ pc = "parse" /\ \E f \in Flags : cli[f] = Garbled
  /\ Exit("exit 2")
  /\ UNCHANGED <<cli, env, args, value, flags, level>>

AllFlags == Flags
Unset == {f \in Flags : cli[f] = Absent}

Parse ==
  /\ pc = "parse" /\ \A f \in Flags : cli[f] # Garbled
  /\ value' = [f \in Flags |-> IF cli[f] = Absent THEN "default" ELSE "cli"]
  /\ flags' = Unset
  /\ pc' = "env"
  /\ UNCHANGED <<cli, env, args, level>>

(* Value.Set stores what the parser returned, an error or not, and init    *)
(* does not look at the error.                                             *)
Set(f) == IF env[f] = Garbled THEN "zero" ELSE "env"

Lookup(f) ==
  /\ pc = "env" /\ f \in flags
  /\ value' = [value EXCEPT ![f] = IF env[f] = Absent THEN @ ELSE Set(f)]
  /\ flags' = flags \ {f}
  /\ UNCHANGED <<cli, env, args, level, pc>>

(* The texts given for a switch turn it on; its default and zero are off.  *)
On(f) == value[f] \in {"cli", "env"}

Main ==
  /\ pc = "env" /\ flags = {}
  /\ IF On("version") THEN Exit("exit 0") /\ level' = level
     ELSE /\ level' = IF On("debug") THEN "debug" ELSE IF On("nowarn") THEN "error" ELSE level
          /\ Exit(IF args THEN "running" ELSE "exit 1")
  /\ UNCHANGED <<cli, env, args, value, flags>>

Next == ParseFails \/ Parse \/ Main \/ \E f \in Flags : Lookup(f)

Spec == Init /\ [][Next]_vars

-----------------------------------------------------------------------------
Source(f) == IF cli[f] # Absent THEN "cli" ELSE IF env[f] # Absent THEN "env" ELSE "default"

(* README.md:29-30: arguments come from the command line or from the       *)
(* environment, and "Command line overrides environment variables":        *)
(* whatever the order of the map, no lookup replaces what the command line *)
(* set, none is skipped, and a job only runs with settings so chosen.      *)
CommandLineOverrides ==
  pc = "running" => \A f \in Flags : /\ value[f] = Source(f)
                                     /\ cli[f] # Garbled
=============================================================================
