----------------------------- MODULE ProcBoxProofs -----------------------------
(***************************************************************************)
(* Proofs about ProcBox.  proc_box uses the timer and the job only as the  *)
(* specifications of the two allow, so what is proved of each part alone   *)
(* holds in the composition; main and monitor add the hand-over of the one *)
(* result of the job and the exit code.                                    *)
(***************************************************************************)
EXTENDS ProcBox, TLAPS

TimerProofs == INSTANCE WallclockTimerProofs
JobProofs   == INSTANCE JobControlProofs

\* Every step of proc_box is a step of the job or leaves it alone: monitor only
\* calls its methods, and signals sent with any number are those of Job!Kill.
LEMMA JobStep == [Next]_vars => [Job!Next]_(Job!jvars)
<1> SUFFICES ASSUME [Next]_vars
             PROVE  Job!Next \/ UNCHANGED jvars
  BY DEF jvars, Job!jvars
<1>1. ASSUME NEW sig \in {"SIGTERM", "SIGSTOP", "SIGCONT"}, Try(sig)
      PROVE  Job!Next \/ UNCHANGED jvars
  BY <1>1 DEF Try, Job!Next, Job!Client, Job!Stop, Job!Suspend, Job!Resume
<1>2. ASSUME NEW n \in Job!KillArguments, TryKill(n)
      PROVE  Job!Next \/ UNCHANGED jvars
  BY <1>2 DEF TryKill, Try, Job!Next, Job!Client, Job!Kill
<1>3. -9 \in Job!KillArguments
  BY DEF Job!KillArguments
<1>4. ASSUME StopOrDie
      PROVE  Job!Next \/ UNCHANGED jvars
  BY <1>4 DEF StopOrDie, Job!Next, Job!Client
<1>5. CASE StartJob
  BY <1>5 DEF StartJob, Job!StartFails, Job!Next, Job!Client, jvars
<1>6. CASE StartTimer \/ MainExits \/ CaseRcChan \/ CommandTimer \/ TimerTakesCommand
  BY <1>6 DEF StartTimer, MainExits, CaseRcChan, CommandTimer, TimerTakesCommand
<1>7. CASE MainReceives
  BY <1>7 DEF MainReceives, MainReceivesFromJob, MainReceivesFromMonitor,
              Job!Next, Job!Client
<1>8. CASE CaseSignal
  BY <1>1, <1>2, <1>3, <1>8 DEF CaseSignal
<1>9. CASE CaseTimer
  BY <1>4, <1>9 DEF CaseTimer
<1>10. CASE CaseJobDone
  BY <1>10 DEF CaseJobDone, Job!Next, Job!Client
<1>11. CASE CaseLogSampling
  BY <1>1, <1>2, <1>3, <1>11 DEF CaseLogSampling
<1>12. CASE CommandSuspend \/ CommandResume
  BY <1>1, <1>12 DEF CommandSuspend, CommandResume
<1>13. CASE CommandKill
  BY <1>2, <1>13 DEF CommandKill
<1>14. CASE CommandStop
  BY <1>4, <1>14 DEF CommandStop
<1>15. CASE TimerGoroutine \/ TimeTicks \/ TimePasses \/ OsSignal
  BY <1>15 DEF TimerGoroutine, TimeTicks, TimePasses, OsSignal
<1>16. CASE JobGoroutines \/ JobProcesses
  BY <1>16 DEF JobGoroutines, JobProcesses, Job!Next
<1>17. CASE Ended \/ UNCHANGED vars
  BY <1>17 DEF Ended, vars
<1>18. QED
  BY <1>5, <1>6, <1>7, <1>8, <1>9, <1>10, <1>11, <1>12, <1>13, <1>14, <1>15,
     <1>16, <1>17 DEF Next, Monitor

\* Every step of proc_box is a step of the timer or leaves it alone.
LEMMA TimerStep == [Next]_vars => [Timer!Next]_(Timer!tvars)
<1> SUFFICES ASSUME [Next]_vars
             PROVE  Timer!Next \/ UNCHANGED tvars
  BY DEF tvars, Timer!tvars
<1>1. CASE StartJob \/ MainReceives \/ MainExits
  BY <1>1 DEF StartJob, MainReceives, MainReceivesFromJob, MainReceivesFromMonitor,
              MainExits
<1>2. CASE StartTimer
  BY <1>2 DEF StartTimer, Timer!Next, Timer!Client
<1>3. CASE TimerTakesCommand
  BY <1>3 DEF TimerTakesCommand, Timer!TimerCommands, Timer!Next, Timer!Client,
              Timer!Reset, Timer!Start, Timer!Stop, Timer!Resume
<1>4. CASE CaseTimer
  BY <1>4 DEF CaseTimer, Timer!Next, Timer!Client
<1>5. CASE CaseRcChan \/ CaseSignal \/ CaseJobDone \/ CaseLogSampling
  BY <1>5 DEF CaseRcChan, CaseSignal, CaseJobDone, CaseLogSampling
<1>6. CASE CommandSuspend \/ CommandResume \/ CommandKill \/ CommandStop \/ CommandTimer
  BY <1>6 DEF CommandSuspend, CommandResume, CommandKill, CommandStop, CommandTimer
<1>7. CASE TimerGoroutine \/ TimeTicks \/ TimePasses
  BY <1>7 DEF TimerGoroutine, TimeTicks, TimePasses, Timer!Next
<1>8. CASE JobGoroutines \/ JobProcesses \/ OsSignal
  BY <1>8 DEF JobGoroutines, JobProcesses, OsSignal
<1>9. CASE Ended \/ UNCHANGED vars
  BY <1>9 DEF Ended, vars
<1>10. QED
  BY <1>1, <1>2, <1>3, <1>4, <1>5, <1>6, <1>7, <1>8, <1>9 DEF Next, Monitor

\* main and monitor use the timer and the job as the specifications of the two
\* allow (main.go:120-163 and 265-405): each part behaves in proc_box as it does
\* with a user who calls its methods in any order.
THEOREM PartsAsSpecified == Spec => Timer!Spec /\ Job!Spec
<1>1. Init => Timer!Init /\ Job!Init
  BY DEF Init
<1>2. QED
  BY <1>1, JobStep, TimerStep, PTL DEF Spec, Timer!Spec, Job!Spec

-------------------------------------------------------------------------------
\* The job of the composition is the one the proofs about the part speak of.
LEMMA SameJob == Job!Spec => JobProofs!Spec
BY DEF
     Job!Spec, JobProofs!Spec, Job!Init, JobProofs!Init, Job!jvars,
     JobProofs!jvars, Job!Next, JobProofs!Next, Job!Client, JobProofs!Client,
     Job!NewControlledProcess, JobProofs!NewControlledProcess, Job!CmdStart,
     JobProofs!CmdStart, Job!Stop, JobProofs!Stop, Job!Suspend,
     JobProofs!Suspend, Job!Resume, JobProofs!Resume, Job!KillGroup,
     JobProofs!KillGroup, Job!Done, JobProofs!Done, Job!KillArguments,
     JobProofs!KillArguments, Job!Kill, JobProofs!Kill, Job!SignalOf,
     JobProofs!SignalOf, Job!KillFails, JobProofs!KillFails, Job!Members,
     JobProofs!Members, Job!Live, JobProofs!Live, Job!Goroutines,
     JobProofs!Goroutines, Job!CopyStdout, JobProofs!CopyStdout, Job!StreamEnds,
     JobProofs!StreamEnds, Job!Holders, JobProofs!Holders, Job!WaitGroup,
     JobProofs!WaitGroup, Job!CmdWait, JobProofs!CmdWait, Job!Processes,
     JobProofs!Processes, Job!Exits, JobProofs!Exits, Job!TakesKill,
     JobProofs!TakesKill, Job!TakesTerm, JobProofs!TakesTerm, Job!Forks,
     JobProofs!Forks, Job!LeavesGroup, JobProofs!LeavesGroup, Job!Writes,
     JobProofs!Writes, Job!Closes, JobProofs!Closes, Job!Runs, JobProofs!Runs,
     Job!Dies, JobProofs!Dies, Job!Streams, JobProofs!Streams,
     Job!StartFailsLate, JobProofs!StartFailsLate, Job!Signaled,
     JobProofs!Signaled, Job!NoResult, JobProofs!NoResult

LEMMA SameTimer == Timer!Spec => TimerProofs!Spec
BY DEF
     Timer!Spec, TimerProofs!Spec, Timer!Init, TimerProofs!Init, Timer!NewTimer,
     TimerProofs!NewTimer, Timer!tvars, TimerProofs!tvars, Timer!Next,
     TimerProofs!Next, Timer!Advance, TimerProofs!Advance, Timer!TickerFires,
     TimerProofs!TickerFires, Timer!Client, TimerProofs!Client, Timer!Reset,
     TimerProofs!Reset, Timer!Start, TimerProofs!Start, Timer!Stop,
     TimerProofs!Stop, Timer!Resume, TimerProofs!Resume, Timer!Send,
     TimerProofs!Send, Timer!Done, TimerProofs!Done, Timer!CommandCap,
     TimerProofs!CommandCap, Timer!timerTicker, TimerProofs!timerTicker,
     Timer!Range, TimerProofs!Range, Timer!incrementTimer,
     TimerProofs!incrementTimer, Timer!Stamp, TimerProofs!Stamp,
     Timer!SelectCommand, TimerProofs!SelectCommand, Timer!Apply,
     TimerProofs!Apply, Timer!SelectDefault, TimerProofs!SelectDefault,
     Timer!Check, TimerProofs!Check, Timer!Clamp, TimerProofs!Clamp

\* What is proved of the parts (WallclockTimerProofs, JobControlProofs) holds in
\* proc_box.
LEMMA PartsInvariants ==
    Spec => [](/\ Timer!TypeOK /\ Timer!NeverEarly
               /\ Job!TypeOK /\ Job!OutputDrained /\ Job!ReportedJobIsOver)
<1>1. JobProofs!JobAssumption /\ TimerProofs!TimerAssumption
  BY PartsAssumption DEF Timer!TimerAssumption, Job!JobAssumption,
     TimerProofs!TimerAssumption, JobProofs!JobAssumption
<1>2. TimerProofs!Spec => []TimerProofs!TypeOK
  BY <1>1, TimerProofs!TypeCorrect DEF TimerProofs!TypeCorrect
<1>3. TimerProofs!Spec => []TimerProofs!NeverEarly
  BY <1>1, TimerProofs!TimerNeverEarly DEF TimerProofs!TimerNeverEarly
<1>4. JobProofs!Spec => []JobProofs!TypeOK
  BY <1>1, JobProofs!JobTypeCorrect DEF JobProofs!JobTypeCorrect
<1>5. JobProofs!Spec => []JobProofs!OutputDrained
  BY <1>1, JobProofs!OutputAlwaysDrained DEF JobProofs!OutputAlwaysDrained
<1>6. JobProofs!Spec => []JobProofs!ReportedJobIsOver
  BY <1>1, JobProofs!ReportMeansOver DEF JobProofs!ReportMeansOver
<1>7. /\ TimerProofs!TypeOK => Timer!TypeOK
      /\ TimerProofs!NeverEarly => Timer!NeverEarly
  BY DEF Timer!TypeOK, TimerProofs!TypeOK, Timer!TimerCommands,
     TimerProofs!TimerCommands, Timer!CommandCap, TimerProofs!CommandCap,
     Timer!TickerLocations, TimerProofs!TickerLocations,
     Timer!NeverEarly, TimerProofs!NeverEarly
<1>8. /\ JobProofs!TypeOK => Job!TypeOK
      /\ JobProofs!OutputDrained => Job!OutputDrained
      /\ JobProofs!ReportedJobIsOver => Job!ReportedJobIsOver
  BY DEF Job!TypeOK, JobProofs!TypeOK, Job!Streams, JobProofs!Streams,
     Job!CopierLocations, JobProofs!CopierLocations, Job!WaiterLocations,
     JobProofs!WaiterLocations, Job!Signaled, JobProofs!Signaled, Job!NoResult,
     JobProofs!NoResult, Job!OutputDrained, JobProofs!OutputDrained,
     Job!ReportedJobIsOver, JobProofs!ReportedJobIsOver, Job!Members,
     JobProofs!Members, Job!Live, JobProofs!Live, Job!Holders, JobProofs!Holders
<1>9. QED
  BY <1>2, <1>3, <1>4, <1>5, <1>6, <1>7, <1>8, PartsAsSpecified, SameJob,
     SameTimer, PTL

\* A signal to the group leaves the goroutine that waits and the job's result
\* alone.
LEMMA TryWaiter ==
    ASSUME NEW sig, Try(sig)
    PROVE  UNCHANGED <<waiter, result, fds>>
BY DEF Try, Job!KillGroup, jvars

LEMMA TryKillWaiter ==
    ASSUME NEW n, TryKill(n)
    PROVE  UNCHANGED <<waiter, result, fds>>
BY TryWaiter DEF TryKill, jvars

\* The inductive invariant of main and monitor: before main receives there is no
\* monitor to compete with and nothing has been received; afterwards the result
\* is with exactly one of them (main.go:148, 395-397), and when proc_box ended by
\* itself its exit code is made of the result it received.
HandOver ==
    /\ main = "start" => waiter = "idle"
    /\ main = "timer" => waiter # "sent"
    /\ main \in {"start", "timer"} => monitor = "off"
    /\ main = "exited" => exitCode = result % 256
    /\ ResultDeliveredOnce

\* Steps of the processes, the kernel and the goroutines of the job do not report
\* its end by themselves and never change a result that has been reported.
LEMMA JobKeepsResult ==
    ASSUME Job!TypeOK, Job!ReportedJobIsOver, Job!Goroutines \/ Job!Processes
    PROVE  /\ waiter = "sent" <=> waiter' = "sent"
           /\ waiter = "idle" => waiter' = "idle"
           /\ waiter = "sent" => result' = result
<1> USE PartsAssumption DEF Job!JobAssumption
<1>1. CASE Job!Goroutines
  BY <1>1 DEF Job!Goroutines, Job!CopyStdout, Job!StreamEnds, Job!WaitGroup, Job!CmdWait
<1>2. ASSUME NEW p \in Procs, NEW code, Job!Live(p), Job!Dies(p, code)
      PROVE  waiter' = waiter /\ (waiter = "sent" => result' = result)
  BY <1>2 DEF Job!Dies, Job!ReportedJobIsOver, Job!Live
<1>3. CASE Job!Processes
  BY <1>2, <1>3 DEF Job!Processes, Job!Exits, Job!TakesKill, Job!TakesTerm, Job!Runs,
     Job!Live, Job!Forks, Job!LeavesGroup, Job!Writes, Job!Closes
<1>4. QED
  BY <1>1, <1>3

LEMMA HandOverStep ==
    ASSUME Job!TypeOK, Job!ReportedJobIsOver, HandOver, [Next]_vars
    PROVE  HandOver'
<1> USE DEF HandOver, ResultDeliveredOnce
<1>1. CASE StartJob
  BY <1>1 DEF StartJob, Job!NewControlledProcess, Job!StartFails, Job!StartFailsLate, Fatal
<1>2. CASE StartTimer
  BY <1>2 DEF StartTimer, jvars
<1>3. CASE MainReceives
  BY <1>3 DEF MainReceives, MainReceivesFromJob, MainReceivesFromMonitor, Job!Done, jvars
<1>4. CASE MainExits
  BY <1>4 DEF MainExits, jvars
<1>5. ASSUME AtSelect, UNCHANGED <<main, exitCode, monitor, waiter, result>>
      PROVE  HandOver'
  BY <1>5 DEF AtSelect, Running
<1>6. CASE CaseRcChan
  BY <1>5, <1>6 DEF CaseRcChan, jvars
<1>7. CASE CaseSignal
  BY <1>5, <1>7, TryWaiter, TryKillWaiter DEF CaseSignal, jvars
<1>8. ASSUME AtSelect, StopOrDie, UNCHANGED monitor
      PROVE  HandOver'
  BY <1>8 DEF StopOrDie, Job!Stop, Job!KillGroup, Fatal, AtSelect, Running, jvars
<1>9. CASE CaseTimer \/ CommandStop
  BY <1>8, <1>9 DEF CaseTimer, CommandStop, Receives
<1>10. CASE CaseJobDone
  BY <1>10 DEF CaseJobDone, Job!Done, AtSelect, Running
<1>11. CASE CaseLogSampling
  BY <1>5, <1>11, TryWaiter, TryKillWaiter DEF CaseLogSampling
<1>12. CASE CommandSuspend \/ CommandResume
  BY <1>5, <1>12, TryWaiter DEF CommandSuspend, CommandResume, Receives
<1>13. CASE CommandKill
  BY <1>5, <1>13, TryKillWaiter DEF CommandKill, Receives
<1>14. CASE CommandTimer
  BY <1>14 DEF CommandTimer, Receives, AtSelect, Running, TimerCommandOf, jvars
<1>15. CASE TimerTakesCommand
  BY <1>15 DEF TimerTakesCommand, Timer!TimerCommands, Running, jvars
<1>16. CASE TimerGoroutine \/ TimeTicks \/ TimePasses \/ OsSignal
  BY <1>16 DEF TimerGoroutine, TimeTicks, TimePasses, OsSignal, jvars, bvars
<1>17. CASE JobGoroutines \/ JobProcesses
  BY <1>17, JobKeepsResult DEF JobGoroutines, JobProcesses, bvars, Gone
<1>18. CASE Ended \/ UNCHANGED vars
  BY <1>18 DEF Ended, vars, jvars, bvars
<1>19. QED
  BY <1>1, <1>2, <1>3, <1>4, <1>6, <1>7, <1>9, <1>10, <1>11, <1>12, <1>13, <1>14,
     <1>15, <1>16, <1>17, <1>18 DEF Next, Monitor

LEMMA HandOverInvariant == Spec => []HandOver
<1>1. Init => HandOver
  BY DEF Init, Job!Init, HandOver, ResultDeliveredOnce
<1>2. QED
  BY <1>1, HandOverStep, PartsInvariants, PTL DEF Spec

\* For every job and every order of signals and commands, the one message of the
\* job is received once, by main or by a monitor that holds it for main.
THEOREM ResultReceivedOnce == Spec => []ResultDeliveredOnce
<1>1. HandOver => ResultDeliveredOnce
  BY DEF HandOver
<1>2. QED
  BY <1>1, HandOverInvariant, PTL

\* For every job and every order of events: when proc_box ends by itself its exit
\* code is that of the job and nothing of the job's output is missing.
THEOREM ExitIsThatOfJob == Spec => []ExitsAfterJob
<1>1. ASSUME Job!TypeOK, Job!OutputDrained, Job!ReportedJobIsOver, HandOver
      PROVE  ExitsAfterJob
  <2> SUFFICES ASSUME main = "exited"
               PROVE  /\ pstate[Leader] = "gone"
                      /\ exitCode = IF result = Job!Signaled THEN 255 ELSE result
                      /\ copied = written
                      /\ \A p \in Procs : fds[p] = {}
    BY DEF ExitsAfterJob
  <2>1. waiter = "sent" /\ exitCode = result % 256
    BY <1>1 DEF HandOver, ResultDeliveredOnce
  <2>2. pstate[Leader] = "gone" /\ result # Job!NoResult
    BY <1>1, <2>1 DEF Job!ReportedJobIsOver
  <2>3. result \in 0..255 \/ result = -1
    BY <1>1, <2>2, PartsAssumption DEF Job!TypeOK, Job!JobAssumption, Job!Signaled
  <2>4. exitCode = IF result = Job!Signaled THEN 255 ELSE result
    BY <2>1, <2>3 DEF Job!Signaled
  <2>5. copied = written /\ \A s \in Job!Streams : Job!Holders(s) = {}
    BY <1>1, <2>1 DEF Job!OutputDrained
  <2>6. \A p \in Procs : fds[p] = {}
    BY <1>1, <2>5 DEF Job!TypeOK, Job!Holders
  <2>7. QED
    BY <2>2, <2>4, <2>5, <2>6
<1>2. QED
  BY <1>1, PartsInvariants, HandOverInvariant, PTL

-------------------------------------------------------------------------------
\* Types of the variables that main and monitor add.
BoxTypeOK ==
    /\ main \in MainLocations
    /\ exitCode \in 0..255 \cup {NoExitCode}
    /\ monitor \in MonitorLocations
    /\ signals \in Seq(AllOsSignals) /\ Len(signals) <= SignalsCap
    /\ rcChan \in BOOLEAN
    /\ sent \subseteq Deadly

LEMMA TrySent ==
    ASSUME BoxTypeOK, NEW sig, Try(sig)
    PROVE  sent' \subseteq Deadly
BY DEF BoxTypeOK, Try

LEMMA TryKillSent ==
    ASSUME BoxTypeOK, NEW n, TryKill(n)
    PROVE  sent' \subseteq Deadly
BY TrySent DEF TryKill, BoxTypeOK

LEMMA BoxTypeStep ==
    ASSUME BoxTypeOK, Job!TypeOK, main = "report" => result # Job!NoResult, [Next]_vars
    PROVE  BoxTypeOK'
<1> USE DEF BoxTypeOK
<1>0. exitCode \in 0..255 \cup {NoExitCode} /\ 1 \in 0..255
  OBVIOUS
<1>1. CASE StartJob
  <2>1. exitCode' = exitCode \/ exitCode' = 1
    BY <1>1 DEF StartJob, Fatal
  <2>2. main' \in MainLocations /\ UNCHANGED <<monitor, signals, rcChan, sent>>
    BY <1>1 DEF StartJob, Fatal, MainLocations
  <2>3. QED
    BY <1>0, <2>1, <2>2
<1>2. CASE StartTimer
  BY <1>2 DEF StartTimer, MainLocations, MonitorLocations
<1>3. CASE MainReceives
  BY <1>3 DEF MainReceives, MainReceivesFromJob, MainReceivesFromMonitor, MainLocations,
              MonitorLocations
<1>4. CASE MainExits
  <2>1. result \in Int
    BY PartsAssumption DEF Job!TypeOK, Job!JobAssumption, Job!Signaled, Job!NoResult
  <2>2. result % 256 \in 0..255
    BY <2>1
  <2>3. QED
    BY <1>4, <2>2 DEF MainExits, MainLocations
<1>5. CASE CaseRcChan
  BY <1>5 DEF CaseRcChan
<1>6. CASE CaseSignal
  <2>1. signals' \in Seq(AllOsSignals) /\ Len(signals') <= SignalsCap
    BY <1>6 DEF CaseSignal, SignalsCap
  <2>2. sent' \subseteq Deadly
    BY <1>6, TrySent, TryKillSent DEF CaseSignal
  <2>3. QED
    BY <1>6, <2>1, <2>2 DEF CaseSignal
<1>7. ASSUME StopOrDie, UNCHANGED <<monitor, signals, rcChan>>
      PROVE  BoxTypeOK'
  <2>1. exitCode' = exitCode \/ exitCode' = 1
    BY <1>7 DEF StopOrDie, Fatal
  <2>2. main' \in MainLocations /\ sent' \subseteq Deadly
    BY <1>7 DEF StopOrDie, Fatal, MainLocations, Deadly
  <2>3. QED
    BY <1>0, <1>7, <2>1, <2>2
<1>8. CASE CaseTimer \/ CommandStop
  BY <1>7, <1>8 DEF CaseTimer, CommandStop
<1>9. CASE CaseJobDone
  BY <1>9 DEF CaseJobDone, MonitorLocations
<1>10. CASE CaseLogSampling
  BY <1>10, TrySent, TryKillSent DEF CaseLogSampling
<1>11. CASE CommandSuspend \/ CommandResume \/ CommandKill
  <2>1. sent' \subseteq Deadly
    BY <1>11, TrySent, TryKillSent DEF CommandSuspend, CommandResume, CommandKill
  <2>2. UNCHANGED <<main, exitCode, monitor, signals, rcChan>>
    BY <1>11 DEF CommandSuspend, CommandResume, CommandKill
  <2>3. QED
    BY <2>1, <2>2
<1>12. CASE CommandTimer
  BY <1>12 DEF CommandTimer, TimerCommandOf, MonitorLocations, Timer!TimerCommands
<1>13. CASE TimerTakesCommand
  BY <1>13 DEF TimerTakesCommand, MonitorLocations
<1>14. CASE OsSignal
  BY <1>14, BoxAssumption DEF OsSignal, SignalsCap
<1>15. CASE TimerGoroutine \/ TimeTicks \/ TimePasses \/ JobGoroutines \/ JobProcesses
  BY <1>15 DEF TimerGoroutine, TimeTicks, TimePasses, JobGoroutines, JobProcesses, bvars
<1>16. CASE Ended \/ UNCHANGED vars
  BY <1>16 DEF Ended, vars, bvars
<1>17. QED
  BY <1>1, <1>2, <1>3, <1>4, <1>5, <1>6, <1>8, <1>9, <1>10, <1>11, <1>12, <1>13,
     <1>14, <1>15, <1>16 DEF Next, Monitor

\* Every reachable state of proc_box is well typed; a negative status of the job
\* becomes an exit code between 0 and 255 (main.go:160).
THEOREM BoxTypeCorrect == Spec => []TypeOK
<1>1. Init => BoxTypeOK
  <2>1. <<>> \in Seq(AllOsSignals) /\ Len(<<>>) = 0
    OBVIOUS
  <2>2. ASSUME Init
        PROVE  exitCode \in 0..255 \cup {NoExitCode}
    BY <2>2 DEF Init
  <2>3. ASSUME Init
        PROVE  main \in MainLocations /\ monitor \in MonitorLocations
    BY <2>3 DEF Init, MainLocations, MonitorLocations
  <2>4. ASSUME Init
        PROVE  signals \in Seq(AllOsSignals) /\ Len(signals) <= SignalsCap
    BY <2>1, <2>4 DEF Init, SignalsCap
  <2>5. ASSUME Init
        PROVE  rcChan \in BOOLEAN /\ sent \subseteq Deadly
    BY <2>5 DEF Init
  <2>6. QED
    BY <2>2, <2>3, <2>4, <2>5 DEF BoxTypeOK
<1>2. Job!ReportedJobIsOver /\ HandOver => (main = "report" => result # Job!NoResult)
  BY DEF Job!ReportedJobIsOver, HandOver, ResultDeliveredOnce
<1>3. Timer!TypeOK /\ Job!TypeOK /\ BoxTypeOK => TypeOK
  BY DEF TypeOK, BoxTypeOK
<1>4. Spec => []BoxTypeOK
  BY <1>1, <1>2, BoxTypeStep, PartsInvariants, HandOverInvariant, PTL DEF Spec
<1>5. QED
  BY <1>3, <1>4, PartsInvariants, PTL

-------------------------------------------------------------------------------
\* SIGTERM or SIGKILL that nobody asked for has a cause, for every timeout, every
\* limit whose double is representable and every job (main.go:388-404).
THEOREM UnprovokedSignal ==
    ASSUME OsSignals = {}, RemoteCommands \cap {"kill", "stop"} = {},
           2 * StdoutLimit <= IntMax
    PROVE  Spec => UnprovokedSignalHasCause
<1>1. Spec => [](signals = <<>>)
  <2>1. Init => signals = <<>>
    BY DEF Init
  <2>2. signals = <<>> /\ [Next]_vars => (signals = <<>>)'
    BY DEF Next, StartJob, StartTimer, MainReceives, MainReceivesFromJob,
           MainReceivesFromMonitor, MainExits, Monitor, CaseRcChan, CaseSignal,
           CaseTimer, CaseJobDone, CaseLogSampling, CommandSuspend, CommandResume,
           CommandKill, CommandStop, CommandTimer, TimerTakesCommand, TimerGoroutine,
           TimeTicks, TimePasses, JobGoroutines, JobProcesses, OsSignal, Ended,
           bvars, vars
  <2>3. QED
    BY <2>1, <2>2, PTL DEF Spec
<1>2. ASSUME signals = <<>>, Timer!NeverEarly, [Next]_vars
      PROVE  [SignalHasCause]_vars
  <2>1. CASE sent' = sent
    BY <2>1 DEF SignalHasCause
  <2>2. CASE CaseTimer
    <3>1. ran > Timeout
      BY <1>2, <2>2 DEF CaseTimer, Timer!Done, Timer!NeverEarly
    <3>2. "SIGKILL" \notin sent' \ sent
      BY <2>2 DEF CaseTimer, StopOrDie
    <3>3. QED
      BY <3>1, <3>2 DEF SignalHasCause
  <2>3. CASE CaseLogSampling
    <3>1. StdoutLimit > 0 /\ Twice(StdoutLimit) = 2 * StdoutLimit
      BY <2>3, BoxAssumption DEF CaseLogSampling, Twice
    <3>2. CASE copied > 2 * StdoutLimit /\ TryKill(-9)
      <4>1. "SIGTERM" \notin sent' \ sent
        BY <3>2 DEF TryKill, Try, Job!SignalOf
      <4>2. QED
        BY <3>1, <3>2, <4>1 DEF SignalHasCause
    <3>3. CASE copied > StdoutLimit /\ Try("SIGTERM")
      <4>1. "SIGKILL" \notin sent' \ sent
        BY <3>3 DEF Try
      <4>2. QED
        BY <3>1, <3>3, <4>1 DEF SignalHasCause
    <3>4. QED
      BY <2>3, <3>1, <3>2, <3>3 DEF CaseLogSampling
  <2>4. CASE CommandSuspend \/ CommandResume
    <3>1. sent' = sent
      BY <2>4 DEF CommandSuspend, CommandResume, Try, Deadly
    <3>2. QED
      BY <2>1, <3>1
  <2>5. CASE CaseSignal \/ CommandKill \/ CommandStop
    BY <1>2, <2>5 DEF CaseSignal, CommandKill, CommandStop, Receives
  <2>6. QED
    BY <1>2, <2>1, <2>2, <2>3, <2>4, <2>5
       DEF Next, StartJob, StartTimer, MainReceives, MainReceivesFromJob,
           MainReceivesFromMonitor, MainExits, Monitor, CaseRcChan, CaseJobDone,
           CommandTimer, TimerTakesCommand, TimerGoroutine, TimeTicks, TimePasses,
           JobGoroutines, JobProcesses, OsSignal, Ended, bvars, vars
<1>3. QED
  BY <1>1, <1>2, PartsInvariants, PTL DEF Spec, UnprovokedSignalHasCause

===============================================================================
