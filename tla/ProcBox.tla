-------------------------------- MODULE ProcBox --------------------------------
(***************************************************************************)
(* src/main.go: the functions main and monitor with the timer and the job  *)
(* they drive.  The goroutines of WallclockTimer and JobControl run beside *)
(* the goroutine of main and the goroutine of monitor; os.Exit, from main  *)
(* or from log.Fatalf, ends them all.                                      *)
(*                                                                         *)
(* The requests for statistics that monitor sends without blocking on      *)
(* psChan change nothing here, and commands that only do that are left     *)
(* out.  Remote commands arrive in any order from the channel that redial  *)
(* hands over.                                                             *)
(***************************************************************************)
EXTENDS Integers, Sequences, FiniteSets

CONSTANTS
    Timeout, MaxTime,                                  \* see WallclockTimer
    Procs, Leader, Escapees, Stubborn, ExitCodes,      \* see JobControl
    KillNumbers, MaxBytes,
    RemoteCommands,   \* remote commands that may arrive
    OsSignals,        \* signals proc_box may receive
    StdoutLimit,      \* *stdoutByteLimit
    IntMax            \* largest value of the integer type of the limit

AllRemoteCommands ==
    {"suspend", "resume", "kill", "stop",
     "timer_reset", "timer_start", "timer_stop", "timer_resume"}

Deadly == {"SIGTERM", "SIGKILL"}

AllOsSignals == {"SIGINT", "SIGTERM", "SIGHUP", "SIGQUIT"}

ASSUME BoxAssumption ==
    /\ RemoteCommands \subseteq AllRemoteCommands
    /\ OsSignals \subseteq AllOsSignals
    /\ IntMax \in Nat
    /\ StdoutLimit \in 0..IntMax

VARIABLES
    now, elapsedTime, previousTime, tick, command, tickC, tpc, ran,
    pstate, away, sigs, fds, written, copied, copier, waiter, result,
    main,             \* where the goroutine of main is
    exitCode,         \* status with which proc_box ended
    monitor,          \* where the goroutine of monitor is
    signals,          \* contents of the channel `signals`
    rcChan,           \* has redial handed over a channel of commands?
    sent              \* history: which of the Deadly signals the group was sent

Timer == INSTANCE WallclockTimer
Job   == INSTANCE JobControl

\* What the two parts ask of their constants.
ASSUME PartsAssumption == Timer!TimerAssumption /\ Job!JobAssumption

tvars == <<now, elapsedTime, previousTime, tick, command, tickC, tpc, ran>>
jvars == <<pstate, away, sigs, fds, written, copied, copier, waiter, result>>
bvars == <<main, exitCode, monitor, signals, rcChan, sent>>
vars  == <<tvars, jvars, bvars>>

\* start: before NewControlledProcess; timer: NewTimer done, before Start(); recv:
\* in <-done; report: after it; exited: ended by main; fatal: ended by log.Fatalf.
MainLocations == {"start", "timer", "recv", "report", "exited", "fatal"}

\* select: at the select; forward: blocked sending on `done`; the name of a
\* timer command: blocked sending it to the timer.
MonitorLocations == {"off", "select", "forward"} \cup Timer!TimerCommands

NoExitCode == -1

\* make(chan os.Signal, 1)
SignalsCap == 1

TypeOK ==
    /\ Timer!TypeOK
    /\ Job!TypeOK
    /\ main \in MainLocations
    /\ exitCode \in 0..255 \cup {NoExitCode}
    /\ monitor \in MonitorLocations
    /\ signals \in Seq(AllOsSignals) /\ Len(signals) <= SignalsCap
    /\ rcChan \in BOOLEAN
    /\ sent \subseteq Deadly

Gone == main \in {"exited", "fatal"}

\* The monitor exists and proc_box has not ended.
Running == main \in {"recv", "report"}

\* The timer exists and signals are caught.
Started == main = "timer" \/ Running

Init ==
    /\ Timer!Init
    /\ Job!Init
    /\ main = "start"
    /\ exitCode = NoExitCode
    /\ monitor = "off"
    /\ signals = <<>>
    /\ rcChan = FALSE
    /\ sent = {}

-------------------------------------------------------------------------------
\* main

\* log.Fatalf: os.Exit(1).
Fatal == main' = "fatal" /\ exitCode' = 1

StartJob ==
    /\ main = "start"
    /\ \/ /\ Job!NewControlledProcess
          /\ main' = "timer"
          /\ UNCHANGED exitCode
       \/ /\ Job!StartFails \/ Job!StartFailsLate
          /\ Fatal
    /\ UNCHANGED <<tvars, monitor, signals, rcChan, sent>>

\* timer.Start() and the start of the goroutines.
StartTimer ==
    /\ main = "timer"
    /\ Timer!Start
    /\ main' = "recv"
    /\ monitor' = "select"
    /\ UNCHANGED <<jvars, exitCode, signals, rcChan, sent>>

\* main receives the result from the waiting goroutine of the job itself.
MainReceivesFromJob ==
    /\ main = "recv"
    /\ Job!Done
    /\ main' = "report"
    /\ UNCHANGED <<tvars, exitCode, monitor, signals, rcChan, sent>>

\* main receives the result that monitor took from the same channel.
MainReceivesFromMonitor ==
    /\ main = "recv"
    /\ monitor = "forward"
    /\ main' = "report"
    /\ monitor' = "select"
    /\ UNCHANGED <<tvars, jvars, exitCode, signals, rcChan, sent>>

\* os.Exit with the status of the job; the system keeps its low byte.  Any error
\* is an ExitError: proc_box reads the job's pipes itself, so that Cmd.Wait has
\* nothing to copy that could fail (another error, main.go:162, ends with 0).
MainExits ==
    /\ main = "report"
    /\ main' = "exited"
    /\ exitCode' = result % 256
    /\ UNCHANGED <<tvars, jvars, monitor, signals, rcChan, sent>>

MainReceives == MainReceivesFromJob \/ MainReceivesFromMonitor

-------------------------------------------------------------------------------
\* monitor: one action per case of the select and of the switches in it

\* A call of a method of the job whose error is ignored.
Try(sig) ==
    \/ /\ Job!KillGroup(sig)
       /\ sent' = sent \cup (Deadly \cap {sig})
    \/ /\ Job!KillFails
       /\ UNCHANGED <<jvars, sent>>

\* The same for job.Kill with a number.
TryKill(n) ==
    \/ Job!SignalOf(n) # "invalid" /\ Try(Job!SignalOf(n))
    \/ Job!SignalOf(n) = "invalid" /\ UNCHANGED <<jvars, sent>>

\* job.Stop() whose error is fatal.
StopOrDie ==
    \/ /\ Job!Stop
       /\ sent' = sent \cup {"SIGTERM"}
       /\ UNCHANGED <<main, exitCode>>
    \/ /\ Job!KillFails
       /\ Fatal
       /\ UNCHANGED <<jvars, sent>>

AtSelect == Running /\ monitor = "select"

CaseRcChan ==
    /\ AtSelect
    /\ ~rcChan
    /\ rcChan' = TRUE
    /\ UNCHANGED <<tvars, jvars, main, exitCode, monitor, signals, sent>>

CaseSignal ==
    /\ AtSelect
    /\ signals # <<>>
    /\ signals' = Tail(signals)
    /\ \/ Head(signals) \in {"SIGINT", "SIGQUIT"} /\ Try("SIGTERM")
       \/ Head(signals) = "SIGTERM" /\ TryKill(-9)
       \/ Head(signals) = "SIGHUP" /\ UNCHANGED <<jvars, sent>>
    /\ UNCHANGED <<tvars, main, exitCode, monitor, rcChan>>

\* The select takes a command from the channel that redial handed over.
Receives(cmd) == AtSelect /\ rcChan /\ cmd \in RemoteCommands

CommandSuspend ==
    /\ Receives("suspend")
    /\ Try("SIGSTOP")
    /\ UNCHANGED <<tvars, main, exitCode, monitor, signals, rcChan>>

CommandResume ==
    /\ Receives("resume")
    /\ Try("SIGCONT")
    /\ UNCHANGED <<tvars, main, exitCode, monitor, signals, rcChan>>

CommandKill ==
    /\ Receives("kill")
    /\ \E n \in Job!KillArguments : TryKill(n)
    /\ UNCHANGED <<tvars, main, exitCode, monitor, signals, rcChan>>

CommandStop ==
    /\ Receives("stop")
    /\ StopOrDie
    /\ UNCHANGED <<tvars, monitor, signals, rcChan>>

TimerCommandOf ==
    [timer_reset |-> "reset", timer_start |-> "start",
     timer_stop  |-> "stop",  timer_resume |-> "resume"]

\* The monitor calls a method of the timer ...
CommandTimer ==
    /\ \E cmd \in DOMAIN TimerCommandOf :
          Receives(cmd) /\ monitor' = TimerCommandOf[cmd]
    /\ UNCHANGED <<tvars, jvars, main, exitCode, signals, rcChan, sent>>

\* ... and comes back when the timer's channel has taken the command.
TimerTakesCommand ==
    /\ Running
    /\ monitor \in Timer!TimerCommands
    /\ Timer!Send(monitor)
    /\ monitor' = "select"
    /\ UNCHANGED <<jvars, main, exitCode, signals, rcChan, sent>>

CaseTimerOnlyLogs ==
    /\ AtSelect
    /\ Timer!Done
    /\ UNCHANGED <<jvars, bvars>>

CaseTimer ==
    /\ AtSelect
    /\ Timer!Done
    /\ StopOrDie
    /\ UNCHANGED <<monitor, signals, rcChan>>

CaseJobDoneDropped ==
    /\ AtSelect
    /\ Job!Done
    /\ UNCHANGED <<tvars, bvars>>

\* monitor competes with main for the one message of the job.
CaseJobDone ==
    /\ AtSelect
    /\ Job!Done
    /\ monitor' = "forward"
    /\ UNCHANGED <<tvars, main, exitCode, signals, rcChan, sent>>

Once(n) == n

\* 2*(*stdoutByteLimit) in two's complement.
Twice(n) == IF 2 * n > IntMax THEN 2 * n - 2 * (IntMax + 1) ELSE 2 * n

CaseLogSamplingSwapped ==
    /\ AtSelect
    /\ StdoutLimit > 0
    /\ \/ copied > StdoutLimit /\ Try("SIGTERM")
       \/ /\ ~(copied > StdoutLimit)
          /\ copied > Twice(StdoutLimit)
          /\ TryKill(-9)
    /\ UNCHANGED <<tvars, main, exitCode, monitor, signals, rcChan>>

\* A tick of logSampling, which exists when the limit is positive.
CaseLogSampling ==
    /\ AtSelect
    /\ StdoutLimit > 0
    /\ \/ copied > Twice(StdoutLimit) /\ TryKill(-9)
       \/ /\ ~(copied > Twice(StdoutLimit))
          /\ copied > StdoutLimit
          /\ Try("SIGTERM")
    /\ UNCHANGED <<tvars, main, exitCode, monitor, signals, rcChan>>

Monitor ==
    \/ CaseRcChan \/ CaseSignal \/ CaseTimer \/ CaseJobDone \/ CaseLogSampling
    \/ CommandSuspend \/ CommandResume \/ CommandKill \/ CommandStop
    \/ CommandTimer \/ TimerTakesCommand

-------------------------------------------------------------------------------
\* The other goroutines and the environment

OsSignalUnbounded ==
    /\ Started
    /\ Len(signals) <= SignalsCap
    /\ \E s \in OsSignals : signals' = Append(signals, s)
    /\ UNCHANGED <<tvars, jvars, main, exitCode, monitor, rcChan, sent>>

\* signal.Notify does not block: a signal that finds the channel full is lost.
OsSignal ==
    /\ Started
    /\ Len(signals) < SignalsCap
    /\ \E s \in OsSignals : signals' = Append(signals, s)
    /\ UNCHANGED <<tvars, jvars, main, exitCode, monitor, rcChan, sent>>

TimerGoroutine == Started /\ Timer!timerTicker /\ UNCHANGED <<jvars, bvars>>

TimeTicks == Started /\ Timer!TickerFires /\ UNCHANGED <<jvars, bvars>>

TimePasses == Started /\ Timer!Advance /\ UNCHANGED <<jvars, bvars>>

JobGoroutines == ~Gone /\ Job!Goroutines /\ UNCHANGED <<tvars, bvars>>

JobProcesses == ~Gone /\ Job!Processes /\ UNCHANGED <<tvars, bvars>>

Kernel(p) == ~Gone /\ Job!Kernel(p) /\ UNCHANGED <<tvars, bvars>>

Ended == Gone /\ UNCHANGED vars

Next ==
    \/ StartJob \/ StartTimer \/ MainReceives \/ MainExits
    \/ Monitor
    \/ TimerGoroutine \/ TimeTicks \/ TimePasses
    \/ JobGoroutines \/ JobProcesses
    \/ OsSignal
    \/ Ended

Spec == Init /\ [][Next]_vars

\* Goroutines that can run are scheduled, package time keeps ticking and the
\* kernel delivers signals.  Go's select picks at random among the cases that
\* are ready, so a case that is ready again and again is picked: strong
\* fairness.  Users, the clock and the processes owe nothing.
Fairness ==
    /\ WF_vars(StartTimer)
    /\ WF_vars(MainReceives)
    /\ WF_vars(MainExits)
    /\ WF_vars(TimerTakesCommand)
    /\ WF_vars(TimerGoroutine)
    /\ WF_vars(TimeTicks)
    /\ WF_vars(JobGoroutines)
    /\ \A p \in Procs : WF_vars(Kernel(p))
    /\ SF_vars(CaseTimer)
    /\ SF_vars(CaseLogSampling)

FairSpec == Spec /\ Fairness

-------------------------------------------------------------------------------
\* main and monitor receive from the same channel (main.go:148 and 395), and the
\* job sends on it once: the message is neither lost nor seen twice.  Until
\* proc_box ends, whoever took it has it, and monitor only ever holds it for a
\* main that still waits.
ResultDeliveredOnce ==
    /\ waiter = "sent" => monitor = "forward" \/ main \in {"report", "exited", "fatal"}
    /\ monitor = "forward" => main = "recv" /\ waiter = "sent"
    /\ main \in {"report", "exited"} => waiter = "sent"

\* When proc_box ends by itself (main.go:150-166) its status is that of the job,
\* all output of the job went through it, and no process of the group is left
\* that could write to it.
ExitsAfterJob ==
    main = "exited" =>
        /\ pstate[Leader] = "gone"
        /\ exitCode = IF result = Job!Signaled THEN 255 ELSE result
        /\ copied = written
        /\ \A p \in Procs : fds[p] = {}

\* Without a remote command to the job and without a signal to proc_box, the job
\* gets SIGTERM only because the timer really ran out or because it wrote more
\* than the limit, and SIGKILL only because it wrote more than twice the limit.
SignalHasCause ==
    /\ "SIGTERM" \in sent' \ sent =>
          \/ ran > Timeout
          \/ StdoutLimit > 0 /\ copied > StdoutLimit
    /\ "SIGKILL" \in sent' \ sent =>
          StdoutLimit > 0 /\ copied > 2 * StdoutLimit

UnprovokedSignalHasCause == [][SignalHasCause]_vars

\* Once the leader has ended and nobody holds its streams, proc_box ends, even
\* when monitor is stuck in a call of the timer (main.go:148 receives itself).
EndOfJobEndsBox ==
    (/\ main = "recv"
     /\ pstate[Leader] \in {"zombie", "gone"}
     /\ \A p \in Procs : fds[p] = {}) ~> Gone

\* SIGKILL to the group ends the job and proc_box if nobody left the group: a
\* suspended job, stubborn processes and descendants included.
KillEndsBox == ("SIGKILL" \in sent /\ away = {}) ~> Gone

\* A job that has written more than twice the limit is killed (main.go:399)
\* unless it ends or has no process left that can be signalled.
LoudJobIsKilled ==
    (Running /\ StdoutLimit > 0 /\ copied > 2 * StdoutLimit)
        ~> ("SIGKILL" \in sent \/ Gone \/ Job!Members = {})

\* A timeout that the timer reports leads to SIGTERM (main.go:388-390).
TimeoutStopsJob == (tpc = "done") ~> ("SIGTERM" \in sent \/ Gone)

\* README.md:23, "Controllable wall-clock timer to end runaway processes": a
\* timeout ends a job that is not stubborn.
TimeoutEndsJob == (tpc = "done" /\ Stubborn = {}) ~> Gone

\* README.md:20, "Gracefully exits with either a simple remote control JSON or
\* the process naturally existing": a job whose end is already known to the
\* waiting goroutine does not make proc_box die of log.Fatalf.
FinishedJobIsNoError == waiter \in {"send", "sent"} => main # "fatal"
===============================================================================
