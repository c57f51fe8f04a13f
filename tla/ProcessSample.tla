--------------------------- MODULE ProcessSample ---------------------------
(***************************************************************************)
(* What a statistics sample contains: collectSample and the collect        *)
(* functions of process_stats.go over gopsutil's Process for Linux         *)
(* (process.go, process_linux.go).  A sample is collected figure by figure *)
(* while the processes go on: they use CPU and exit.  Sample starts a      *)
(* goroutine for every sample and leaves it behind at its timeout, and the *)
(* router samples beside the ticker, so that several samples are collected *)
(* at once.  All of them use the leader's one Process object, without a    *)
(* lock; the children's objects are made anew for every sample.            *)
(***************************************************************************)
EXTENDS Integers, Sequences, FiniteSets, SequencesExt

CONSTANTS
  Leader,       \* the process proc_box started
  Offspring,    \* its children
  Spaced,       \* processes with a blank in their name
  Samplers,     \* goroutines that collect a sample, each one sample after another
  MaxWork,      \* bound: the CPU time a process uses
  MaxSamples    \* bound: samples taken

ProcessSampleAssumption ==
  Leader \notin Offspring /\ IsFiniteSet(Offspring) /\ MaxWork \in Nat /\ MaxSamples \in Nat

Procs == {Leader} \cup Offspring
Figures == <<"Memory", "CPUTimes", "IOCounters", "OpenFiles", "NumThreads", "CPUPercent">>

VARIABLES
  os,            \* process -> [alive, cpu], as /proc shows it
  lastCPUTimes,  \* in the leader's Process object: its CPU times at the last CPUPercent
  pc,            \* sampler -> "idle", "collect", "check", "first", "compare", "store", "pgrep", "done"
  stat,          \* sampler -> the figures in its sample, each of a process
  pids,          \* sampler -> the processes of the sample: the leader, then ChildPids
  at,            \* sampler -> the process and the figure being collected
  found,         \* sampler -> what pgrep returned and is not yet turned into a Process
  steady,        \* sampler -> the processes that have lived through its whole sample
  cpuTimes,      \* sampler -> what its CPUPercent of the leader has read
  reported,      \* history: the leader's CPU use in all samples together
  crossed,       \* history: two samples have been in CPUPercent of the leader at once
  samples

sampleState == <<pc, stat, pids, at, found, steady, cpuTimes>>
vars == <<os, lastCPUTimes, sampleState, reported, crossed, samples>>

nil == -1          \* no CPU times

-----------------------------------------------------------------------------
(* gopsutil: what reading /proc/<pid> gives. *)

(* stat is split at blanks: a name with a blank shifts every field, and    *)
(* the parent's pid is no number.                                          *)
fillFromStat(p) == IF os[p].alive /\ p \notin Spaced THEN os[p].cpu ELSE nil

(* OpenFiles makes as many nil pointers as there are files, appends the    *)
(* files and indexes an empty slice with the former: it panics.            *)
Fails(f, p) ==
  \/ ~os[p].alive
  \/ f = "OpenFiles"
  \/ f \in {"CPUTimes", "CPUPercent"} /\ fillFromStat(p) = nil

-----------------------------------------------------------------------------
Init ==
  /\ os = [p \in Procs |-> [alive |-> TRUE, cpu |-> 0]]
  /\ lastCPUTimes = nil
  /\ pc = [s \in Samplers |-> "idle"]
  /\ stat = [s \in Samplers |-> {}]
  /\ pids = [s \in Samplers |-> <<>>]
  /\ at = [s \in Samplers |-> <<1, 1>>]
  /\ found = [s \in Samplers |-> {}]
  /\ steady = [s \in Samplers |-> {}]
  /\ cpuTimes = [s \in Samplers |-> nil]
  /\ reported = 0 /\ crossed = FALSE /\ samples = 0

collectSample(s) ==
  /\ pc[s] \in {"idle", "done"} /\ samples < MaxSamples
  /\ pc' = [pc EXCEPT ![s] = "collect"]
  /\ stat' = [stat EXCEPT ![s] = {}]
  /\ pids' = [pids EXCEPT ![s] = <<Leader>>]
  /\ at' = [at EXCEPT ![s] = <<1, 1>>]
  /\ steady' = [steady EXCEPT ![s] = {p \in Procs : os[p].alive}]
  /\ samples' = samples + 1
  /\ UNCHANGED <<os, lastCPUTimes, found, cpuTimes, reported, crossed>>

Step(a) == IF a[2] < Len(Figures) THEN <<a[1], a[2] + 1>> ELSE <<a[1] + 1, 1>>
StepPastPanic(a) == IF a[2] = 4 THEN <<a[1] + 1, 1>> ELSE Step(a)
StepOn(a) == Step(a)

(* The figure being collected is in the sample, or lost; the next one.     *)
Collect(s, failed) ==
  /\ stat' = [stat EXCEPT ![s] = IF failed THEN @ ELSE @ \cup {<<Figures[at[s][2]], pids[s][at[s][1]]>>}]
  /\ at' = [at EXCEPT ![s] = StepOn(@)]
  /\ UNCHANGED <<os, pids, found, steady, samples>>

(* collectMemInfo, collectCPUTimes, ...: an error and a panic lose this    *)
(* figure of this process.  The CPUPercent of a child is the first of its  *)
(* Process object, 0.                                                      *)
aggregateStatForProc(s) ==
  LET p == pids[s][at[s][1]]
      f == Figures[at[s][2]]
  IN
  /\ pc[s] = "collect" /\ at[s][1] <= Len(pids[s])
  /\ p = Leader => f # "CPUPercent"
  /\ Collect(s, Fails(f, p))
  /\ UNCHANGED <<pc, lastCPUTimes, cpuTimes, reported, crossed>>

(* CPUPercent of the leader: its times are read, the difference to those   *)
(* of the last call is reported (the division by the elapsed time is left  *)
(* out), they become the last ones.  Nothing keeps another sample's call   *)
(* from coming in between.                                                 *)
CPUPercent == {"check", "first", "compare", "store"}

CPUPercentReads(s) ==
  /\ pc[s] = "collect" /\ at[s][1] <= Len(pids[s])
  /\ pids[s][at[s][1]] = Leader /\ Figures[at[s][2]] = "CPUPercent"
  /\ cpuTimes' = [cpuTimes EXCEPT ![s] = fillFromStat(Leader)]
  /\ IF fillFromStat(Leader) = nil
     THEN Collect(s, TRUE) /\ UNCHANGED <<pc, crossed>>
     ELSE /\ pc' = [pc EXCEPT ![s] = "check"]
          /\ crossed' = (crossed \/ \E t \in Samplers \ {s} : pc[t] \in CPUPercent)
          /\ UNCHANGED <<os, stat, at, pids, found, steady, samples>>
  /\ UNCHANGED <<lastCPUTimes, reported>>

CPUPercentChecks(s) ==
  /\ pc[s] = "check"
  /\ pc' = [pc EXCEPT ![s] = IF lastCPUTimes = nil THEN "first" ELSE "compare"]
  /\ UNCHANGED <<os, lastCPUTimes, stat, pids, at, found, steady, cpuTimes, reported, crossed, samples>>

(* The first call reads the times once more, and reports 0.                *)
CPUPercentFirst(s) ==
  /\ pc[s] = "first"
  /\ cpuTimes' = [cpuTimes EXCEPT ![s] = fillFromStat(Leader)]
  /\ pc' = [pc EXCEPT ![s] = "store"]
  /\ UNCHANGED <<os, lastCPUTimes, stat, pids, at, found, steady, reported, crossed, samples>>

(* The last times may be gone again since they were checked: a nil         *)
(* pointer, and a panic.                                                   *)
CPUPercentCompares(s) ==
  /\ pc[s] = "compare"
  /\ IF lastCPUTimes = nil
     THEN /\ Collect(s, TRUE) /\ UNCHANGED reported
          /\ pc' = [pc EXCEPT ![s] = "collect"]
     ELSE /\ reported' = reported + (cpuTimes[s] - lastCPUTimes)
          /\ pc' = [pc EXCEPT ![s] = "store"]
          /\ UNCHANGED <<os, stat, at, pids, found, steady, samples>>
  /\ UNCHANGED <<lastCPUTimes, cpuTimes, crossed>>

StoresFirst(s) == IF lastCPUTimes = nil THEN cpuTimes[s] ELSE lastCPUTimes
Stored(s) == cpuTimes[s]

CPUPercentStores(s) ==
  /\ pc[s] = "store"
  /\ lastCPUTimes' = Stored(s)
  /\ pc' = [pc EXCEPT ![s] = "collect"]
  /\ Collect(s, cpuTimes[s] = nil)
  /\ UNCHANGED <<cpuTimes, reported, crossed>>

(* Children: pgrep, then NewProcess for each; one that is gone by then     *)
(* fails the call, and no child is collected.                              *)
CallPgrep(s) ==
  /\ pc[s] = "collect" /\ at[s] = <<2, 1>> /\ pids[s] = <<Leader>>
  /\ found' = [found EXCEPT ![s] = {p \in Offspring : os[p].alive /\ os[Leader].alive}]
  /\ pc' = [pc EXCEPT ![s] = IF found'[s] = {} THEN "done" ELSE "pgrep"]
  /\ UNCHANGED <<os, lastCPUTimes, stat, pids, at, steady, cpuTimes, reported, crossed, samples>>

Children(s) ==
  /\ pc[s] = "pgrep"
  /\ IF \A p \in found[s] : os[p].alive
     THEN /\ pids' = [pids EXCEPT ![s] = <<Leader>> \o SetToSeq(found[s])]
          /\ pc' = [pc EXCEPT ![s] = "collect"]
     ELSE pc' = [pc EXCEPT ![s] = "done"] /\ UNCHANGED pids
  /\ UNCHANGED <<os, lastCPUTimes, stat, at, found, steady, cpuTimes, reported, crossed, samples>>

(* The sample is published. *)
Publish(s) ==
  /\ pc[s] = "collect" /\ at[s][1] > Len(pids[s]) /\ pids[s] # <<Leader>>
  /\ pc' = [pc EXCEPT ![s] = "done"]
  /\ UNCHANGED <<os, lastCPUTimes, stat, pids, at, found, steady, cpuTimes, reported, crossed, samples>>

-----------------------------------------------------------------------------
(* The processes. *)

Work(p) ==
  /\ os[p].alive /\ os[p].cpu < MaxWork
  /\ os' = [os EXCEPT ![p].cpu = @ + 1]
  /\ UNCHANGED <<lastCPUTimes, sampleState, reported, crossed, samples>>

Exit(p) ==
  /\ os[p].alive
  /\ os' = [os EXCEPT ![p].alive = FALSE]
  /\ steady' = [s \in Samplers |-> steady[s] \ {p}]
  /\ UNCHANGED <<lastCPUTimes, pc, stat, pids, at, found, cpuTimes, reported, crossed, samples>>

Next ==
  \/ \E s \in Samplers :
       \/ collectSample(s) \/ aggregateStatForProc(s) \/ CallPgrep(s) \/ Children(s) \/ Publish(s)
       \/ CPUPercentReads(s) \/ CPUPercentChecks(s) \/ CPUPercentFirst(s)
       \/ CPUPercentCompares(s) \/ CPUPercentStores(s)
  \/ \E p \in Procs : Work(p) \/ Exit(p)

Spec == Init /\ [][Next]_vars

-----------------------------------------------------------------------------
(* A figure that fails, or panics, for one process costs that figure of    *)
(* that process and no other, whatever other samples do: every process of  *)
(* the sample that lived through it has its threads and its IO counters in *)
(* the totals.                                                             *)
OthersSurvive ==
  \A s \in Samplers : pc[s] = "done" =>
    \A p \in Range(pids[s]) \cap steady[s] :
      <<"NumThreads", p>> \in stat[s] /\ <<"IOCounters", p>> \in stat[s]

(* "Use 0 interval to get difference since the last call"                  *)
(* (process_stats.go): all samples together show no more of the leader's   *)
(* CPU use than there was.  False: two samples may both take the           *)
(* difference to the same last call.                                       *)
UseReportedOnce == reported <= os[Leader].cpu

(* It holds as long as no two samples have been in CPUPercent at once,     *)
(* wherever else they overlapped.                                          *)
ReportedOnceUncrossed == ~crossed => UseReportedOnce

(* Beside each other samples spoil nothing of each other but the leader's  *)
(* CPU use, and that only when their calls of CPUPercent cross.            *)
SampleStands == OthersSurvive /\ ReportedOnceUncrossed
=============================================================================
