------------------------------ MODULE Logging ------------------------------
(***************************************************************************)
(* logrus, the logger that all goroutines of proc_box share.  A call goes  *)
(* through three checks of the level (Logger, then Entry twice), the       *)
(* hooks, the formatter, and writes one line while it holds the logger's   *)
(* mutex.  Fatal ends the process, Panic panics (and the caller may        *)
(* recover, as monitor does).  A line is written in two parts, so that two *)
(* lines written without the mutex would mix.                              *)
(***************************************************************************)
EXTENDS Naturals, Sequences, SequencesExt

CONSTANTS
  Routines,     \* goroutines that log
  Levels,       \* levels they log at
  Settings,     \* arguments of SetLevel
  Entries,      \* subset of {"plain", "unfit"}: without and with a field that JSON
                \* cannot express
  MaxCalls,     \* bound: calls of each goroutine
  MaxSettings   \* bound: calls of SetLevel, SetFormatter and AddHook

PanicLevel == 0
FatalLevel == 1
InfoLevel  == 4

(* proc_box sets DebugLevel or ErrorLevel; at PanicLevel a Fatal would end *)
(* the process without its line, as logrus.go:62 says.                     *)
NoOne == "no one"
LoggingAssumption ==
  /\ NoOne \notin Routines
  /\ Levels \subseteq Nat /\ Settings \subseteq Nat \ {PanicLevel}
  /\ Entries \subseteq {"plain", "unfit"}

VARIABLES
  level,       \* std.Level
  formatter,   \* "text" or "json"
  hooked,      \* a hook is installed
  mu,          \* holder of the mutex
  call,        \* goroutine -> its call
  out,         \* parts of lines written
  settings,    \* calls of SetLevel, SetFormatter and AddHook so far
  exited       \* the call whose Fatal ended the process, <<>> if none

vars == <<level, formatter, hooked, mu, call, out, settings, exited>>

(* pc, the level of the call, its entry, its number; the highest setting   *)
(* during the call; what is to be written, and what is done after that.    *)
Idle == [pc |-> "idle", lv |-> 0, entry |-> "plain", n |-> 0, allowed |-> 0,
         text |-> "none", then |-> "none"]

Init ==
  /\ level = InfoLevel /\ formatter = "text" /\ hooked = FALSE
  /\ mu = NoOne
  /\ call = [g \in Routines |-> Idle]
  /\ out = <<>>
  /\ settings = 0 /\ exited = <<>>

Runs == exited = <<>>
At(g, pc) == Runs /\ call[g].pc = pc
Go(g, pc) == call' = [call EXCEPT ![g].pc = pc]

-----------------------------------------------------------------------------
(* The checks. *)

EnabledBelow(lv) == level + 1 >= lv
Enabled(lv) == level >= lv

(* log.Debugf, log.Warnln ... on the standard logger, or the methods of an *)
(* Entry.                                                                  *)
Call(g, lv, entry) ==
  /\ At(g, "idle") /\ call[g].n < MaxCalls
  /\ call' = [call EXCEPT ![g] = [pc |-> IF entry = "plain" THEN "logger" ELSE "entryf", lv |-> lv,
                                  entry |-> entry, n |-> @.n + 1, allowed |-> level,
                                  text |-> "none", then |-> "none"]]
  /\ UNCHANGED <<level, formatter, hooked, mu, out, settings, exited>>

(* What follows Entry.log, or a level that is off: Fatal exits.            *)
After(g) ==
  /\ exited' = IF call[g].lv = FatalLevel THEN <<g, call[g].n>> ELSE exited
  /\ Go(g, "idle")

Check(g, pc, next) ==
  /\ At(g, pc)
  /\ IF Enabled(call[g].lv) THEN Go(g, next) /\ UNCHANGED exited ELSE After(g)
  /\ UNCHANGED <<level, formatter, hooked, mu, out, settings>>

LoggerCheck(g) == Check(g, "logger", "entryf")
EntryfCheck(g) == Check(g, "entryf", "entry")
EntryCheck(g)  == Check(g, "entry", "fire")

-----------------------------------------------------------------------------
(* Entry.log *)

Writes(g, text, then) == call' = [call EXCEPT ![g].pc = "lock", ![g].text = text, ![g].then = then]

FireEnds(g) ==
  /\ At(g, "fire")
  /\ \/ Go(g, "format")
     \/ hooked /\ Writes(g, "Failed to fire hook", "after")
  /\ UNCHANGED <<level, formatter, hooked, mu, out, settings, exited>>

Fire(g) ==
  /\ At(g, "fire")
  /\ \/ Go(g, "format")
     \/ hooked /\ Writes(g, "Failed to fire hook", "format")
  /\ UNCHANGED <<level, formatter, hooked, mu, out, settings, exited>>

(* TextFormatter or JSONFormatter; json.Marshal may refuse the values.     *)
Format(g) ==
  /\ At(g, "format")
  /\ \/ (formatter = "text" \/ call[g].entry = "plain") /\ Writes(g, "line", "after")
     \/ /\ formatter = "json" /\ call[g].entry = "unfit"
        /\ Writes(g, "Failed to obtain reader", "after")
  /\ UNCHANGED <<level, formatter, hooked, mu, out, settings, exited>>

LockNothing(g) ==
  /\ At(g, "lock")
  /\ mu' = IF call[g].text = "Failed to fire hook" THEN mu ELSE g
  /\ mu = NoOne \/ call[g].text = "Failed to fire hook"
  /\ Go(g, "write")
  /\ UNCHANGED <<level, formatter, hooked, out, settings, exited>>

Lock(g) ==
  /\ At(g, "lock") /\ mu = NoOne
  /\ mu' = g
  /\ Go(g, "write")
  /\ UNCHANGED <<level, formatter, hooked, out, settings, exited>>

Part(g, k) == Append(out, [by |-> g, n |-> call[g].n, text |-> call[g].text, part |-> k, lv |-> call[g].lv])

Write(g) ==
  /\ At(g, "write")
  /\ out' = Part(g, 1)
  /\ Go(g, "written")
  /\ UNCHANGED <<level, formatter, hooked, mu, settings, exited>>

(* The rest of the line, and the mutex is released; by a defer when the    *)
(* entry was at PanicLevel.  After a failed format the lock is taken once  *)
(* more, to write nothing: left out.                                       *)
UnlockUnlessPanic(g) == mu' = IF call[g].lv = PanicLevel THEN mu ELSE NoOne
Unlock(g) == mu' = NoOne

Written(g) ==
  /\ At(g, "written")
  /\ out' = Part(g, 2)
  /\ Unlock(g)
  /\ Go(g, call[g].then)
  /\ UNCHANGED <<level, formatter, hooked, settings, exited>>

(* Others may log between the unlock and the exit.                         *)
Leave(g) ==
  /\ At(g, "after")
  /\ After(g)
  /\ UNCHANGED <<level, formatter, hooked, mu, out, settings>>

-----------------------------------------------------------------------------
(* Settings, all under the mutex. *)

Set ==
  /\ Runs /\ mu = NoOne /\ settings < MaxSettings
  /\ settings' = settings + 1
  /\ UNCHANGED <<mu, out, exited>>

SetLevel(l) ==
  /\ Set
  /\ level' = l
  /\ call' = [g \in Routines |-> [call[g] EXCEPT !.allowed = IF l > @ THEN l ELSE @]]
  /\ UNCHANGED <<formatter, hooked>>

SetFormatter == Set /\ formatter' = "json" /\ UNCHANGED <<level, hooked, call>>
AddHook == Set /\ hooked' = TRUE /\ UNCHANGED <<level, formatter, call>>

-----------------------------------------------------------------------------
Step(g) ==
  \/ LoggerCheck(g) \/ EntryfCheck(g) \/ EntryCheck(g) \/ Fire(g) \/ Format(g)
  \/ Lock(g) \/ Write(g) \/ Written(g) \/ Leave(g)

Next ==
  \/ \E g \in Routines : Step(g) \/ \E lv \in Levels, e \in Entries : Call(g, lv, e)
  \/ \E l \in Settings : SetLevel(l)
  \/ SetFormatter \/ AddHook

Spec == Init /\ [][Next]_vars
FairSpec == Spec /\ \A g \in Routines : WF_vars(Step(g))

-----------------------------------------------------------------------------
SameLine(a, b) == a.by = b.by /\ a.n = b.n /\ a.text = b.text

(* Lines are never mixed, neither with each other nor with the logger's    *)
(* own complaints about hooks and formatters.                              *)
LinesWhole ==
  \A i \in DOMAIN out :
    /\ out[i].part = 1 /\ i < Len(out) => out[i + 1].part = 2 /\ SameLine(out[i], out[i + 1])
    /\ out[i].part = 2 => i > 1 /\ SameLine(out[i - 1], out[i])

(* log.Fatalf is how monitor reports that it could not stop the job:       *)
(* whatever others, hooks and settings do meanwhile, the line is out before *)
(* the process ends (an entry with fields JSON cannot express excepted).   *)
FatalIsLogged ==
  exited # <<>> /\ call[exited[1]].entry = "plain" =>
    \E i \in DOMAIN out : out[i].by = exited[1] /\ out[i].n = exited[2]
                          /\ out[i].part = 2 /\ out[i].text = "line"

(* No line is written at a level that was switched off during all of its   *)
(* call (-nowarn).                                                         *)
LevelRespected ==
  \A i \in DOMAIN out : LET c == call[out[i].by] IN
    c.n = out[i].n /\ c.pc \in {"write", "written"} => out[i].lv <= c.allowed

(* Every call comes to its end, after a panic that was recovered, too.     *)
CallsEnd == \A g \in Routines : call[g].pc # "idle" ~> call[g].pc = "idle" \/ ~Runs

(* What the log shows: whole lines, of levels that were on, and the last.  *)
LogHolds == LinesWhole /\ FatalIsLogged /\ LevelRespected
=============================================================================
