---------------------------- MODULE JobControlProofs ----------------------------
(***************************************************************************)
(* Proofs about JobControl, for every set of processes and every amount of *)
(* output.                                                                 *)
(***************************************************************************)
EXTENDS JobControl, TLAPS

\* A signal to the group leaves every process alive that was, and changes
\* nothing but the states of live members and the pending signals.
LEMMA KillGroupType ==
    ASSUME TypeOK, NEW sig, KillGroup(sig)
    PROVE  /\ TypeOK'
           /\ \A p \in Procs : Live(p) <=> Live(p)'
           /\ \A p \in Procs : ~Live(p) => pstate'[p] = pstate[p]
<1>1. pstate' \in [Procs -> {"unborn", "running", "stopped", "zombie", "gone"}]
  BY DEF TypeOK, KillGroup
<1>2. sigs' \in [Procs -> SUBSET {"SIGTERM", "SIGKILL"}]
  BY DEF TypeOK, KillGroup
<1>3. TypeOK'
  BY <1>1, <1>2 DEF TypeOK, KillGroup
<1>4. \A p \in Procs : Live(p) <=> Live(p)'
  BY DEF TypeOK, KillGroup, Live
<1>5. \A p \in Procs : ~Live(p) => pstate'[p] = pstate[p]
  BY DEF TypeOK, KillGroup, Live
<1>6. QED
  BY <1>3, <1>4, <1>5

\* Every reachable state of the job is well typed.
THEOREM JobTypeCorrect == Spec => []TypeOK
<1>1. Init => TypeOK
  BY JobAssumption DEF Init, TypeOK, CopierLocations, WaiterLocations, NoResult, Signaled
<1>2. TypeOK /\ [Next]_jvars => TypeOK'
  <2> SUFFICES ASSUME TypeOK, [Next]_jvars
               PROVE  TypeOK'
    OBVIOUS
  <2> USE JobAssumption
  <2>1. CASE NewControlledProcess
    BY <2>1 DEF NewControlledProcess, CmdStart, TypeOK, CopierLocations, WaiterLocations
  <2>2. CASE StartFailsLate
    BY <2>2 DEF StartFailsLate, CmdStart, TypeOK
  <2>3. CASE Stop
    BY <2>3, KillGroupType DEF Stop
  <2>4. CASE Suspend
    BY <2>4, KillGroupType DEF Suspend
  <2>5. CASE Resume
    BY <2>5, KillGroupType DEF Resume
  <2>6. ASSUME NEW n \in KillArguments, Kill(n)
        PROVE  TypeOK'
    BY <2>6, KillGroupType DEF Kill
  <2>7. CASE Done
    BY <2>7 DEF Done, TypeOK, WaiterLocations
  <2>8. CASE CopyStdout
    BY <2>8 DEF CopyStdout, TypeOK
  <2>9. ASSUME NEW s \in Streams, StreamEnds(s)
        PROVE  TypeOK'
    BY <2>9 DEF StreamEnds, TypeOK, CopierLocations
  <2>10. CASE WaitGroup
    BY <2>10 DEF WaitGroup, TypeOK, WaiterLocations
  <2>11. CASE CmdWait
    BY <2>11 DEF CmdWait, TypeOK, WaiterLocations
  <2>12. ASSUME NEW p \in Procs, NEW code \in ExitCodes \cup {Signaled}, Dies(p, code)
         PROVE  TypeOK'
    BY <2>12 DEF Dies, TypeOK
  <2>13. ASSUME NEW p \in Procs, Exits(p)
         PROVE  TypeOK'
    BY <2>12, <2>13 DEF Exits
  <2>14. ASSUME NEW p \in Procs, TakesKill(p)
         PROVE  TypeOK'
    BY <2>12, <2>14 DEF TakesKill
  <2>15. ASSUME NEW p \in Procs, TakesTerm(p)
         PROVE  TypeOK'
    <3>1. CASE Dies(p, Signaled)
      BY <2>12, <3>1
    <3>2. CASE ~Dies(p, Signaled)
      BY <2>15, <3>2 DEF TakesTerm, TypeOK
    <3>3. QED
      BY <3>1, <3>2
  <2>16. ASSUME NEW p \in Procs, NEW q \in Procs, Forks(p, q)
         PROVE  TypeOK'
    BY <2>16 DEF Forks, TypeOK
  <2>17. ASSUME NEW p \in Procs, LeavesGroup(p)
         PROVE  TypeOK'
    BY <2>17 DEF LeavesGroup, TypeOK
  <2>18. ASSUME NEW p \in Procs, NEW s \in Streams, Closes(p, s)
         PROVE  TypeOK'
    BY <2>18 DEF Closes, TypeOK
  <2>19. ASSUME NEW p \in Procs, Writes(p)
         PROVE  TypeOK'
    BY <2>19 DEF Writes, TypeOK
  <2>20. CASE UNCHANGED jvars
    BY <2>20 DEF jvars, TypeOK
  <2>21. QED
    BY <2>1, <2>2, <2>3, <2>4, <2>5, <2>6, <2>7, <2>8, <2>9, <2>10, <2>11, <2>13,
       <2>14, <2>15, <2>16, <2>17, <2>18, <2>19, <2>20
       DEF Next, Client, Goroutines, Processes
<1>3. QED
  BY <1>1, <1>2, PTL DEF Spec

\* A process that dies gives up its streams; when it is the leader its status
\* is known from then on (job_control.go:129).
LEMMA DiesStep ==
    ASSUME TypeOK, StreamsAccounted, NEW p \in Procs, Live(p),
           NEW code \in ExitCodes \cup {Signaled}, Dies(p, code)
    PROVE  StreamsAccounted'
<1> USE JobAssumption
<1>1. \A q \in Procs : fds'[q] # {} => Live(q)'
  BY DEF TypeOK, StreamsAccounted, Dies, Live
<1>2. \A s \in Streams : Holders(s)' \subseteq Holders(s)
  BY DEF TypeOK, Dies, Holders
<1>3. \A s \in Streams : copier'[s] = "closed" => Holders(s)' = {}
  BY <1>2 DEF StreamsAccounted, Dies
<1>4. pstate'[Leader] \in {"zombie", "gone"} => result' # NoResult
  BY DEF TypeOK, StreamsAccounted, Dies, NoResult, Signaled
<1>5. waiter' \in {"send", "sent"} => pstate'[Leader] = "gone"
  BY DEF TypeOK, StreamsAccounted, Dies, Live
<1>6. pstate'[Leader] = "unborn" => pstate[Leader] = "unborn"
  BY DEF TypeOK, Dies
<1>7. QED
  BY <1>1, <1>3, <1>4, <1>5, <1>6 DEF StreamsAccounted, Dies

\* A signal to the group makes nobody hold a stream and revives nobody.
LEMMA KillGroupStep ==
    ASSUME TypeOK, StreamsAccounted, NEW sig, KillGroup(sig)
    PROVE  StreamsAccounted'
<1> USE JobAssumption
<1>1. /\ \A p \in Procs : Live(p) <=> Live(p)'
      /\ \A p \in Procs : ~Live(p) => pstate'[p] = pstate[p]
  BY KillGroupType
<1>2. \A s \in Streams : Holders(s)' = Holders(s)
  BY DEF KillGroup, Holders
<1>3. /\ pstate[Leader] = "gone" => pstate'[Leader] = "gone"
      /\ pstate'[Leader] \in {"zombie", "gone", "unborn"} => pstate'[Leader] = pstate[Leader]
  BY <1>1 DEF TypeOK, Live
<1>4. QED
  BY <1>1, <1>2, <1>3 DEF StreamsAccounted, KillGroup

\* StreamsAccounted is inductive: a fork hands on only streams that somebody
\* already holds, so no stream comes back after its copy has ended.
LEMMA StreamsStep ==
    ASSUME TypeOK, StreamsAccounted, [Next]_jvars
    PROVE  StreamsAccounted'
<1> USE JobAssumption
<1>0. ASSUME CmdStart
      PROVE  /\ pstate'[Leader] = "running"
             /\ \A p \in Procs : fds'[p] # {} => Live(p)'
             /\ waiter = "idle"
             /\ \A s \in Streams : copier[s] = "idle"
  BY <1>0 DEF CmdStart, TypeOK, StreamsAccounted, Live
<1>1. CASE NewControlledProcess
  BY <1>0, <1>1 DEF NewControlledProcess, StreamsAccounted, TypeOK, Streams
<1>2. CASE StartFailsLate
  BY <1>0, <1>2 DEF StartFailsLate, StreamsAccounted, Streams
<1>3. ASSUME NEW sig, KillGroup(sig)
      PROVE  StreamsAccounted'
  BY <1>3, KillGroupStep
<1>4. CASE Done
  BY <1>4 DEF Done, StreamsAccounted, Live, Holders
<1>5. CASE CopyStdout
  BY <1>5 DEF CopyStdout, StreamsAccounted, TypeOK, Live, Holders
<1>6. ASSUME NEW s \in Streams, StreamEnds(s)
      PROVE  StreamsAccounted'
  BY <1>6 DEF StreamEnds, StreamsAccounted, TypeOK, Live, Holders, Streams
<1>7. CASE WaitGroup
  BY <1>7 DEF WaitGroup, StreamsAccounted, Live, Holders
<1>8. CASE CmdWait
  <2>1. \A p \in Procs : fds'[p] # {} => Live(p)'
    BY <1>8 DEF CmdWait, TypeOK, StreamsAccounted, Live
  <2>2. pstate'[Leader] = "gone" /\ result' # NoResult
    BY <1>8 DEF CmdWait, TypeOK, StreamsAccounted
  <2>3. QED
    BY <1>8, <2>1, <2>2 DEF CmdWait, StreamsAccounted, Holders
<1>9. ASSUME NEW p \in Procs, Exits(p) \/ TakesKill(p)
      PROVE  StreamsAccounted'
  BY <1>9, DiesStep DEF Exits, TakesKill, Runs, Live
<1>10. ASSUME NEW p \in Procs, TakesTerm(p)
       PROVE  StreamsAccounted'
  <2>1. CASE Dies(p, Signaled)
    BY <1>10, <2>1, DiesStep DEF TakesTerm, Runs, Live
  <2>2. CASE ~Dies(p, Signaled)
    BY <1>10, <2>2 DEF TakesTerm, StreamsAccounted, Live, Holders
  <2>3. QED
    BY <2>1, <2>2
<1>11. ASSUME NEW p \in Procs, NEW q \in Procs, Forks(p, q)
       PROVE  StreamsAccounted'
  <2>1. \A r \in Procs : fds'[r] # {} => Live(r)'
    BY <1>11 DEF Forks, Runs, TypeOK, StreamsAccounted, Live
  <2>2. \A s \in Streams : Holders(s) = {} => Holders(s)' = {}
    BY <1>11 DEF Forks, TypeOK, Holders
  <2>3. pstate'[Leader] = pstate[Leader]
    BY <1>11 DEF Forks, TypeOK
  <2>4. QED
    BY <1>11, <2>1, <2>2, <2>3 DEF Forks, StreamsAccounted
<1>12. ASSUME NEW p \in Procs, LeavesGroup(p)
       PROVE  StreamsAccounted'
  BY <1>12 DEF LeavesGroup, StreamsAccounted, Live, Holders
<1>13. ASSUME NEW p \in Procs, NEW s \in Streams, Closes(p, s)
       PROVE  StreamsAccounted'
  BY <1>13 DEF Closes, Runs, TypeOK, StreamsAccounted, Live, Holders
<1>14. ASSUME NEW p \in Procs, Writes(p)
       PROVE  StreamsAccounted'
  BY <1>14 DEF Writes, TypeOK, StreamsAccounted, Live, Holders, Streams
<1>15. CASE UNCHANGED jvars
  BY <1>15 DEF jvars, StreamsAccounted, Live, Holders
<1>16. QED
  BY <1>1, <1>2, <1>3, <1>4, <1>5, <1>6, <1>7, <1>8, <1>9, <1>10, <1>11, <1>12,
     <1>13, <1>14, <1>15
     DEF Next, Client, Goroutines, Processes, Stop, Suspend, Resume, Kill

\* The inductive invariant holds in every reachable state.
THEOREM StreamsInvariant == Spec => []StreamsAccounted
<1>1. Init => StreamsAccounted
  BY JobAssumption DEF Init, StreamsAccounted, Holders, Live
<1>2. TypeOK /\ StreamsAccounted /\ [Next]_jvars => StreamsAccounted'
  BY StreamsStep
<1>3. QED
  BY <1>1, <1>2, JobTypeCorrect, PTL DEF Spec

\* For every set of processes, stubborn, suspended or escaped, all output of the
\* job has been copied when its end is reported (job_control.go:126-131).
THEOREM OutputAlwaysDrained == Spec => []OutputDrained
<1>1. StreamsAccounted => OutputDrained
  BY DEF StreamsAccounted, OutputDrained, Streams
<1>2. QED
  BY <1>1, StreamsInvariant, PTL

\* The end of the job is reported only after its leader is reaped and its status
\* known, and no process of the group holds a stream then.
THEOREM ReportMeansOver == Spec => []ReportedJobIsOver
<1>1. TypeOK /\ StreamsAccounted => ReportedJobIsOver
  BY DEF TypeOK, StreamsAccounted, ReportedJobIsOver, Members, Holders
<1>2. QED
  BY <1>1, JobTypeCorrect, StreamsInvariant, PTL
===============================================================================
