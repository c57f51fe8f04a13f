------------------------------ MODULE JobControl ------------------------------
(***************************************************************************)
(* The contained job of src/agents/job_control.go: the process group that  *)
(* NewControlledProcess starts, the goroutines that copy its output and    *)
(* wait for it, and the signals that the methods of JobControl send.       *)
(*                                                                         *)
(* The kernel and the processes of the job are external: they are modelled *)
(* by what the code relies on (process groups, pending signals, pipes that *)
(* reach end of file when no process holds them, zombies until Wait).      *)
(***************************************************************************)
EXTENDS Integers, FiniteSets

CONSTANTS
    Procs,        \* processes the job may consist of
    Leader,       \* the process started by Cmd.Start, whose pid is the Pgid
    Escapees,     \* descendants that may leave the process group (setsid)
    Stubborn,     \* processes that ignore SIGTERM
    ExitCodes,    \* codes with which the leader may exit by itself
    KillNumbers,  \* arguments with which Kill is called
    MaxBytes      \* bound on the output written to stdout

ASSUME JobAssumption ==
    /\ Leader \in Procs
    /\ Escapees \subseteq Procs \ {Leader}
    /\ Stubborn \subseteq Procs
    /\ ExitCodes \subseteq 0..255
    /\ KillNumbers \subseteq Int
    /\ KillNumbers \cap 1..64 \subseteq {9, 15, 18, 19}
    /\ MaxBytes \in Nat

VARIABLES
    pstate,       \* state of every process
    away,         \* processes that have left the group
    sigs,         \* signals pending for every process
    fds,          \* output streams every process holds open
    written,      \* bytes written to stdout by the job
    copied,       \* bytes read from the pipe: stdoutReader.Total()
    copier,       \* the two io.Copy goroutines
    waiter,       \* the goroutine that waits for the job
    result        \* exit status of the leader

jvars == <<pstate, away, sigs, fds, written, copied, copier, waiter, result>>

Streams == {"stdout", "stderr"}

\* WaitStatus.ExitStatus() is -1 for a process ended by a signal.
Signaled == -1
NoResult == -2

CopierLocations == {"idle", "copying", "closed"}

\* wg: in wg.Wait(); wait: in Cmd.Wait(); send: blocked sending on j.done.
WaiterLocations == {"idle", "wg", "wait", "send", "sent"}

TypeOK ==
    /\ pstate \in [Procs -> {"unborn", "running", "stopped", "zombie", "gone"}]
    /\ away \subseteq Escapees
    /\ sigs \in [Procs -> SUBSET {"SIGTERM", "SIGKILL"}]
    /\ fds \in [Procs -> SUBSET Streams]
    /\ written \in 0..MaxBytes
    /\ copied \in 0..MaxBytes
    /\ copier \in [Streams -> CopierLocations]
    /\ waiter \in WaiterLocations
    /\ result \in ExitCodes \cup {Signaled, NoResult}

Live(p) == pstate[p] \in {"running", "stopped"}

\* Processes a signal to -Pgid can be sent to; a zombie still counts.
Members == {p \in Procs \ away : Live(p) \/ pstate[p] = "zombie"}

Holders(s) == {p \in Procs : s \in fds[p]}

Init ==
    /\ pstate = [p \in Procs |-> "unborn"]
    /\ away = {}
    /\ sigs = [p \in Procs |-> {}]
    /\ fds = [p \in Procs |-> {}]
    /\ written = 0
    /\ copied = 0
    /\ copier = [s \in Streams |-> "idle"]
    /\ waiter = "idle"
    /\ result = NoResult

-------------------------------------------------------------------------------
\* NewControlledProcess

\* A pipe cannot be had or Cmd.Start fails: there is no child.
StartFails ==
    /\ pstate[Leader] = "unborn"
    /\ UNCHANGED <<pstate, away, sigs, fds, written, copied, copier, waiter, result>>

\* Cmd.Start: the child leads a new process group (Setpgid).
CmdStart ==
    /\ pstate[Leader] = "unborn"
    /\ pstate' = [pstate EXCEPT ![Leader] = "running"]
    /\ fds' = [fds EXCEPT ![Leader] = Streams]

\* Getpgid or process.NewProcess fails: the error is returned, the child runs.
StartFailsLate ==
    /\ CmdStart
    /\ UNCHANGED <<away, sigs, written, copied, copier, waiter, result>>

NewControlledProcess ==
    /\ CmdStart
    /\ copier' = [s \in Streams |-> "copying"]
    /\ waiter' = "wg"
    /\ UNCHANGED <<away, sigs, written, copied, result>>

-------------------------------------------------------------------------------
\* The goroutines

\* io.Copy of stdout moves a byte through the MeasuredReader.
CopyStdout ==
    /\ copier["stdout"] = "copying"
    /\ copied < written
    /\ copied' = copied + 1
    /\ UNCHANGED <<pstate, away, sigs, fds, written, copier, waiter, result>>

StreamEndsEarly(s) ==
    /\ copier[s] = "copying"
    /\ Holders(s) = {}
    /\ copier' = [copier EXCEPT ![s] = "closed"]
    /\ UNCHANGED <<pstate, away, sigs, fds, written, copied, waiter, result>>

StreamEndsWithoutDone(s) ==
    /\ s = "stdout"
    /\ copier[s] = "copying"
    /\ Holders(s) = {}
    /\ copied = written
    /\ copier' = [copier EXCEPT ![s] = "closed"]
    /\ UNCHANGED <<pstate, away, sigs, fds, written, copied, waiter, result>>

\* io.Copy returns at end of file: the pipe is empty and nobody can write.
StreamEnds(s) ==
    /\ copier[s] = "copying"
    /\ Holders(s) = {}
    /\ s = "stdout" => copied = written
    /\ copier' = [copier EXCEPT ![s] = "closed"]
    /\ UNCHANGED <<pstate, away, sigs, fds, written, copied, waiter, result>>

NoWaitGroup ==
    /\ waiter = "wg"
    /\ waiter' = "wait"
    /\ UNCHANGED <<pstate, away, sigs, fds, written, copied, copier, result>>

\* wg.Wait() returns when both copies have ended.
WaitGroup ==
    /\ waiter = "wg"
    /\ \A s \in Streams : copier[s] = "closed"
    /\ waiter' = "wait"
    /\ UNCHANGED <<pstate, away, sigs, fds, written, copied, copier, result>>

\* Cmd.Wait() reaps the leader; the goroutine goes on to send on j.done.
CmdWait ==
    /\ waiter = "wait"
    /\ pstate[Leader] = "zombie"
    /\ pstate' = [pstate EXCEPT ![Leader] = "gone"]
    /\ waiter' = "send"
    /\ UNCHANGED <<away, sigs, fds, written, copied, copier, result>>

\* A receive on Done() completes the send.
Done ==
    /\ waiter = "send"
    /\ waiter' = "sent"
    /\ UNCHANGED <<pstate, away, sigs, fds, written, copied, copier, result>>

Goroutines == CopyStdout \/ (\E s \in Streams : StreamEnds(s)) \/ WaitGroup \/ CmdWait

-------------------------------------------------------------------------------
\* The methods that signal the process group.  syscall.Kill(-Pgid, ...) fails
\* (ESRCH) when the group has no process left.

KillFails == Members = {}

KillLeader(sig) ==
    /\ ~KillFails
    /\ pstate' = [pstate EXCEPT ![Leader] =
                    IF sig = "SIGSTOP" /\ Live(Leader) THEN "stopped"
                    ELSE IF sig = "SIGCONT" /\ Live(Leader) THEN "running"
                    ELSE @]
    /\ sigs' = [sigs EXCEPT ![Leader] =
                    IF Live(Leader) /\ sig \in {"SIGTERM", "SIGKILL"}
                    THEN @ \cup {sig} ELSE @]
    /\ UNCHANGED <<away, fds, written, copied, copier, waiter, result>>

\* Stop and continue act at once; the other signals become pending.
KillGroup(sig) ==
    /\ ~KillFails
    /\ pstate' = [p \in Procs |->
                    IF p \notin Members THEN pstate[p]
                    ELSE IF sig = "SIGSTOP" /\ Live(p) THEN "stopped"
                    ELSE IF sig = "SIGCONT" /\ Live(p) THEN "running"
                    ELSE pstate[p]]
    /\ sigs' = [p \in Procs |->
                    IF p \in Members /\ Live(p) /\ sig \in {"SIGTERM", "SIGKILL"}
                    THEN sigs[p] \cup {sig}
                    ELSE sigs[p]]
    /\ UNCHANGED <<away, fds, written, copied, copier, waiter, result>>

Stop    == KillGroup("SIGTERM")
Suspend == KillGroup("SIGSTOP")
Resume  == KillGroup("SIGCONT")

\* The signal that Kill(sig) sends: -9 is the default, any other number is taken
\* as it is; 0 only probes and a number that is no signal fails (EINVAL).
SignalOf(sig) ==
    CASE sig \in {-9, 9} -> "SIGKILL"
      [] sig = 15        -> "SIGTERM"
      [] sig = 18        -> "SIGCONT"
      [] sig = 19        -> "SIGSTOP"
      [] sig = 0         -> "none"
      [] OTHER           -> "invalid"

\* Without an argument, or with one that strconv.ParseInt rejects, monitor kills
\* with -9.
KillArguments == {-9} \cup KillNumbers

Kill(sig) ==
    /\ SignalOf(sig) # "invalid"
    /\ KillGroup(SignalOf(sig))

-------------------------------------------------------------------------------
\* The job itself.  A process with SIGKILL pending executes nothing any more.

Runs(p) == pstate[p] = "running" /\ "SIGKILL" \notin sigs[p]

Dies(p, status) ==
    /\ pstate' = [pstate EXCEPT ![p] = IF p = Leader THEN "zombie" ELSE "gone"]
    /\ fds' = [fds EXCEPT ![p] = {}]
    /\ sigs' = [sigs EXCEPT ![p] = {}]
    /\ result' = IF p = Leader THEN status ELSE result
    /\ UNCHANGED <<away, written, copied, copier, waiter>>

Exits(p) == \E code \in ExitCodes : Runs(p) /\ Dies(p, code)

TakesKill(p) == Live(p) /\ "SIGKILL" \in sigs[p] /\ Dies(p, Signaled)

\* SIGTERM stays pending while the process is stopped.
TakesTerm(p) ==
    /\ Runs(p)
    /\ "SIGTERM" \in sigs[p]
    /\ \/ p \notin Stubborn /\ Dies(p, Signaled)
       \/ /\ p \in Stubborn
          /\ sigs' = [sigs EXCEPT ![p] = @ \ {"SIGTERM"}]
          /\ UNCHANGED <<pstate, away, fds, written, copied, copier, waiter, result>>

\* A child inherits the streams and the group; fork is interrupted by a
\* pending signal.
Forks(p, q) ==
    /\ Runs(p) /\ sigs[p] = {}
    /\ q # Leader /\ pstate[q] = "unborn"
    /\ pstate' = [pstate EXCEPT ![q] = "running"]
    /\ fds' = [fds EXCEPT ![q] = fds[p]]
    /\ p \in away => q \in Escapees
    /\ away' = IF p \in away THEN away \cup {q} ELSE away
    /\ UNCHANGED <<sigs, written, copied, copier, waiter, result>>

LeavesGroup(p) ==
    /\ Runs(p)
    /\ p \in Escapees \ away
    /\ away' = away \cup {p}
    /\ UNCHANGED <<pstate, sigs, fds, written, copied, copier, waiter, result>>

Closes(p, s) ==
    /\ Runs(p)
    /\ s \in fds[p]
    /\ fds' = [fds EXCEPT ![p] = @ \ {s}]
    /\ UNCHANGED <<pstate, away, sigs, written, copied, copier, waiter, result>>

Writes(p) ==
    /\ Runs(p)
    /\ "stdout" \in fds[p]
    /\ written < MaxBytes
    /\ written' = written + 1
    /\ UNCHANGED <<pstate, away, sigs, fds, copied, copier, waiter, result>>

Processes ==
    \E p \in Procs :
        \/ Exits(p) \/ TakesKill(p) \/ TakesTerm(p)
        \/ \E q \in Procs : Forks(p, q)
        \/ LeavesGroup(p) \/ Writes(p)
        \/ \E s \in Streams : Closes(p, s)

\* The part of it the kernel sees to: signals that can be taken are taken.
Kernel(p) == TakesKill(p) \/ TakesTerm(p)

-------------------------------------------------------------------------------
\* The job with a user that calls the methods in any order.

Client ==
    \/ NewControlledProcess
    \/ Stop \/ Suspend \/ Resume \/ Done
    \/ \E n \in KillArguments : Kill(n)

Next == Client \/ Goroutines \/ Processes \/ StartFailsLate

Spec == Init /\ [][Next]_jvars

\* The runtime schedules the goroutines and the kernel delivers signals; what
\* the processes do by themselves is up to them.
Fairness ==
    /\ WF_jvars(Goroutines)
    /\ \A p \in Procs : WF_jvars(Kernel(p))

FairSpec == Spec /\ Fairness

-------------------------------------------------------------------------------
\* When the end of the job is reported (job_control.go:131) everything it wrote
\* has been copied and no process, inside the group or outside, can write more:
\* the WaitGroup makes Cmd.Wait, which closes the pipes, come last.
OutputDrained ==
    waiter \in {"wait", "send", "sent"} =>
        copied = written /\ \A s \in Streams : Holders(s) = {}

\* When the end of the job is reported its leader is reaped and its status is
\* known, and a signal can only reach descendants that gave up their streams.
ReportedJobIsOver ==
    waiter \in {"send", "sent"} =>
        /\ pstate[Leader] = "gone"
        /\ result # NoResult
        /\ \A p \in Members : fds[p] = {}

\* Inductive strengthening of the two: only live processes hold streams; a copy
\* that ended saw its pipe empty and released (job_control.go:105-121), which no
\* later fork or write undoes; and the waiter has gone past what it waits for
\* (job_control.go:125-132), with a leader that is dead for good.
StreamsAccounted ==
    /\ copied <= written
    /\ \A p \in Procs : fds[p] # {} => Live(p)
    /\ \A s \in Streams : copier[s] = "closed" => Holders(s) = {}
    /\ copier["stdout"] = "closed" => copied = written
    /\ waiter \in {"wait", "send", "sent"} => \A s \in Streams : copier[s] = "closed"
    /\ waiter \in {"send", "sent"} => pstate[Leader] = "gone"
    /\ pstate[Leader] \in {"zombie", "gone"} => result # NoResult
    /\ pstate[Leader] = "unborn" =>
         waiter = "idle" /\ \A s \in Streams : copier[s] = "idle"

\* Once every live process of a started job has a SIGKILL pending, suspended
\* ones included, the end of the job is reported.
KilledJobIsReported ==
    (waiter # "idle" /\ \A p \in Procs : Live(p) => "SIGKILL" \in sigs[p])
        ~> (waiter \in {"send", "sent"})
===============================================================================
