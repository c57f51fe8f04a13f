------------------------------ MODULE MCService ------------------------------
(* The goroutines of proc_box beside the job and what they share: the      *)
(* connection loop, the statistics, the logger and the mock clock, each on *)
(* an instance of its own.  They share no variable: `part` names the one   *)
(* that moves.                                                             *)
EXTENDS Naturals, Sequences

CONSTANTS
  Commands, MaxConns, ExchangeExists, Shutdowns,                       \* of Redial
  StatsInterval, Rates, MsgTimeout, MaxChanges,                        \* of Statistics
  Routines, Levels, Settings, Entries, MaxCalls, MaxSettings,          \* of Logging
  Ids, Durations, Horizon                                              \* of MockClock

Parts == {"redial", "statistics", "logging", "clock"}

VARIABLES
  part,
  redial, monitor, conn, up, exchange, queue, declared, bound, unacked, acked, buffer, handle,
  current, rcChan, executed, stats, published, shutdown,                              \* redial
  ready, gen, tick, listens, caller, late, stalled, panicked, changes,                \* statistics
  level, formatter, hooked, mu, call, out, settings, exited,                          \* logging
  now, timers, timer, c, run                                                 \* clock

redialVars == <<redial, monitor, conn, up, exchange, queue, declared, bound, unacked, acked, buffer, handle,
                current, rcChan, executed, stats, published, shutdown>>
statisticsVars == <<ready, gen, tick, listens, caller, late, stalled, panicked, changes>>
loggingVars == <<level, formatter, hooked, mu, call, out, settings, exited>>
clockVars == <<now, timers, timer, c, run>>
vars == <<part, redialVars, statisticsVars, loggingVars, clockVars>>

Loop == INSTANCE Redial
Router == INSTANCE Statistics
Log == INSTANCE Logging
Clock == INSTANCE MockClock WITH Late <- FALSE

ASSUME LoopAssumption == Loop!RedialAssumption
ASSUME LogAssumption == Log!LoggingAssumption
ASSUME ClockAssumption == Clock!MockClockAssumption

Init == part \in Parts /\ Loop!Init /\ Router!Init /\ Log!Init /\ Clock!Init

Next ==
  /\ \/ /\ part = "redial" /\ Loop!Next
        /\ UNCHANGED <<statisticsVars, loggingVars, clockVars>>
     \/ /\ part = "statistics" /\ Router!Next
        /\ UNCHANGED <<redialVars, loggingVars, clockVars>>
     \/ /\ part = "logging" /\ Log!Next
        /\ UNCHANGED <<redialVars, statisticsVars, clockVars>>
     \/ /\ part = "clock" /\ Clock!Next
        /\ UNCHANGED <<redialVars, statisticsVars, loggingVars>>
  /\ UNCHANGED part

(* No connection is left to make, all calls are made, or the clock has     *)
(* reached its horizon.                                                    *)
Ends == part \in {"redial", "logging", "clock"} /\ UNCHANGED vars

Spec == Init /\ [][Next \/ Ends]_vars

(* The fairness of the parts, for the one that moves.                      *)
Fairness ==
  /\ WF_redialVars(part = "redial" /\ Loop!Loop) /\ SF_redialVars(part = "redial" /\ Loop!Dial)
  /\ \A n \in Loop!Conns : /\ WF_redialVars(part = "redial" /\ Loop!Handling(n))
                           /\ WF_redialVars(part = "redial" /\ Loop!Broking(n))
  /\ \A g \in Router!Gens : /\ WF_statisticsVars(part = "statistics" /\ Router!Fire(g))
                            /\ WF_statisticsVars(part = "statistics" /\ Router!OnTick(g))
  /\ \A k \in Router!Callers : /\ WF_statisticsVars(part = "statistics" /\ Router!SampleTimesOut(k))
                               /\ WF_statisticsVars(part = "statistics" /\ Router!SampleDone(k))
  /\ \A g \in Routines : WF_loggingVars(part = "logging" /\ Log!Step(g))
  /\ WF_clockVars(part = "clock" /\ Clock!Adder)
  /\ \A i \in Ids : WF_clockVars(part = "clock" /\ Clock!AfterFuncReturns(i))

FairSpec == Spec /\ Fairness

-----------------------------------------------------------------------------
(* Remote commands and lost connections (main.go, remote_control.go).      *)
CommandsOnce == Loop!CommandsOnce

(* Connections come back and are set up, unless a call of the set-up hangs *)
(* (main.go, redial).                                                      *)
LoopGoesOn == Loop!LoopGoesOn

(* Samples and changes of their rate (process_stats.go).                   *)
StatisticsGoOn == Router!StatisticsGoOn

(* The log shows whole lines, of levels that were on, and the last.        *)
LogHolds == Log!LogHolds

(* No timer is overdue after the mock clock moved (clock.go).              *)
NothingOverdue == Clock!NothingOverdue

(* The mock clock is not set back on its way to a later time (clock.go,    *)
(* runNextTimer).                                                          *)
ForwardOnTheWay == Clock!ForwardOnTheWay

(* Calls of the logger and moves of the clock come to their end, although  *)
(* hooks fail, Panic panics while it holds the mutex and nobody receives.  *)
EveryCallEnds == Log!CallsEnd /\ Clock!AddReturns
=============================================================================
