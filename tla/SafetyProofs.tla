---------------------------- MODULE SafetyProofs ----------------------------
(***************************************************************************)
(* Proofs about the parts of MCSafety, for every value of its constants    *)
(* that meets the assumptions of the modules.  Each part has an inductive  *)
(* invariant of its own, and a step of another part leaves it alone.       *)
(***************************************************************************)
EXTENDS MCSafety, FiniteSetTheorems, SequenceTheorems, TLAPS

-----------------------------------------------------------------------------
(* Heartbeats *)

BeatTypeOK ==
  /\ tickIn \in Nat /\ sentAge \in Nat /\ lastSent \in Nat
  /\ deadline \in Nat /\ deadlines \in {0, 1} /\ silence \in Nat
  /\ server \in {"alive", "dead"} /\ connection \in {"up", "down"}

(* Sending: what the heartbeater was told of is no younger than what was   *)
(* sent, and after every tick less than one interval has passed since the  *)
(* last frame.                                                             *)
BeatSends == sentAge <= lastSent /\ sentAge + tickIn < 2 * Beat!interval

(* Receiving: the deadline and the silence add up to what a frame sets,    *)
(* but for the moment between a frame and the reset it asks for.           *)
BeatReceives ==
  /\ deadlines = 0 => deadline + silence = 3 * Beat!interval
  /\ deadlines = 1 => silence = 0
  /\ server = "alive" => deadline > 0 /\ silence <= MaxGap

BeatInv == BeatTypeOK /\ BeatSends /\ BeatReceives /\ Beat!LiveServerKept

(* The interval is positive when either side asks for one (connection.go,  *)
(* pick).                                                                  *)
LEMMA IntervalPositive == Beat!HeartbeatAssumption => Beat!interval \in Nat \ {0}
  BY DEF Beat!HeartbeatAssumption, Beat!interval, Beat!pick, Beat!Smaller, Beat!Larger

(* The invariant holds when the handshake is over.                         *)
LEMMA BeatInit == Beat!HeartbeatAssumption /\ Beat!Init => BeatInv
  BY IntervalPositive DEF Beat!HeartbeatAssumption, Beat!Init, BeatInv, BeatTypeOK, BeatSends, BeatReceives,
     Beat!LiveServerKept

(* Every step of client, server and time keeps it.                         *)
LEMMA BeatStep == Beat!HeartbeatAssumption /\ BeatInv /\ [Beat!Next]_heartbeatVars => BeatInv'
<1> SUFFICES ASSUME Beat!HeartbeatAssumption, BeatInv, [Beat!Next]_heartbeatVars
             PROVE  BeatInv'
  OBVIOUS
<1>0. Beat!interval \in Nat \ {0} /\ Beat!interval' = Beat!interval
  BY IntervalPositive DEF Beat!interval
<1> USE <1>0 DEF BeatInv, BeatTypeOK, BeatSends, BeatReceives, Beat!LiveServerKept, Beat!HeartbeatAssumption
<1> HIDE DEF Beat!interval
<1>1. CASE Beat!Second
  <2>1. silence + 1 <= 3 * Beat!interval /\ sentAge + 1 < 2 * Beat!interval
    BY <1>1 DEF Beat!Second
  <2>2. silence' = silence + 1 /\ sentAge' = sentAge + 1 /\ lastSent' \in {lastSent + 1, 2 * Beat!interval}
    BY <1>1, <2>1 DEF Beat!Second, Beat!Older, Beat!Smaller
  <2>3. QED
    BY <1>1, <2>1, <2>2 DEF Beat!Second
<1>2. CASE Beat!send
  BY <1>2 DEF Beat!send
<1>3. CASE Beat!Tick
  BY <1>3 DEF Beat!Tick
<1>4. CASE Beat!ReadFrame
  BY <1>4 DEF Beat!ReadFrame
<1>5. CASE Beat!ResetDeadline
  BY <1>5 DEF Beat!ResetDeadline, Beat!maxServerHeartbeatsInFlight
<1>6. CASE Beat!ReadFails
  BY <1>6 DEF Beat!ReadFails
<1>7. CASE Beat!ServerDies
  BY <1>7 DEF Beat!ServerDies
<1>8. CASE UNCHANGED heartbeatVars
  BY <1>8 DEF heartbeatVars
<1>9. QED
  BY <1>1, <1>2, <1>3, <1>4, <1>5, <1>6, <1>7, <1>8 DEF Beat!Next

(* The invariant is what the run checks.                                   *)
LEMMA BeatHolds == Beat!HeartbeatAssumption /\ BeatInv => Beat!HeartbeatHolds
  BY IntervalPositive DEF BeatInv, BeatTypeOK, BeatSends, BeatReceives, Beat!HeartbeatHolds,
     Beat!KeepsTalking, Beat!DeadServerFound, Beat!LiveServerKept, Beat!HeartbeatAssumption

(* For every interval, every first deadline and every server that sends    *)
(* often enough: the client is never silent for two intervals, a dead      *)
(* server is noticed after three, and a live one is kept (connection.go,   *)
(* heartbeater and reader).                                                *)
THEOREM HeartbeatsHold == Spec => []HeartbeatHolds
<1>1. Init => BeatInv
  BY BeatInit, BeatAssumption DEF Init
<1>2. BeatInv /\ [Next \/ Ends]_vars => BeatInv'
  <2>1. [Next \/ Ends]_vars => [Beat!Next]_heartbeatVars
    <3>1. CASE Next
      BY <3>1, Zenon DEF Next
    <3>2. CASE Ends \/ UNCHANGED vars
      BY <3>2, Zenon DEF Ends, vars
    <3>3. QED
      BY <3>1, <3>2
  <2>2. QED
    BY <2>1, BeatStep, BeatAssumption
<1>3. BeatInv => HeartbeatHolds
  BY BeatHolds, BeatAssumption DEF HeartbeatHolds
<1>4. QED
  BY <1>1, <1>2, <1>3, PTL DEF Spec

-----------------------------------------------------------------------------
(* Settings *)

(* What is looked up was not on the command line, and whatever has been    *)
(* decided is what the precedence says.                                    *)
Decided ==
  /\ parsing \in {"parse", "env", "running", "exit 0", "exit 1", "exit 2"}
  /\ \A f \in Flags!Flags : env[f] # Flags!Garbled
  /\ value = [f \in Flags!Flags |-> value[f]] /\ flags \subseteq Flags!Flags
  /\ parsing \in {"env", "running"} =>
       /\ \A f \in Flags!Flags : cli[f] # Flags!Garbled
       /\ \A f \in flags : cli[f] = Flags!Absent /\ value[f] = "default"
       /\ \A f \in Flags!Flags \ flags : value[f] = Flags!Source(f)
  /\ parsing = "running" => flags = {}

SettingsInv == part = "settings" => Decided

(* Before the command line is parsed nothing is decided; the environment   *)
(* is well-formed.                                                         *)
LEMMA SettingsInit == Init => SettingsInv
<1> SUFFICES ASSUME Flags!Init PROVE Decided
  BY DEF Init, SettingsInv
<1>1. \A f \in Flags!Flags : env[f] # Flags!Garbled
  BY DEF Flags!Init, Flags!EnvTexts
<1>2. QED
  BY <1>1 DEF Flags!Init, Decided

(* flag.Parse, each lookup in whatever order, and main keep it.            *)
LEMMA SettingsStep == Decided /\ [Flags!Next]_settingsVars => Decided'
<1> SUFFICES ASSUME Decided, [Flags!Next]_settingsVars PROVE Decided'
  OBVIOUS
<1> USE DEF Decided
<1>1. CASE Flags!ParseFails
  BY <1>1 DEF Flags!ParseFails, Flags!Exit
<1>2. CASE Flags!Parse
  <2>1. /\ parsing' = "env" /\ UNCHANGED <<cli, env>> /\ flags' = {f \in Flags!Flags : cli[f] = Flags!Absent}
        /\ \A f \in Flags!Flags : cli[f] # Flags!Garbled
        /\ value' = [f \in Flags!Flags |-> IF cli[f] = Flags!Absent THEN "default" ELSE "cli"]
    BY <1>2 DEF Flags!Parse, Flags!Unset
  <2>2. QED
    BY <2>1 DEF Flags!Source
<1>3. ASSUME NEW f \in Flags!Flags, Flags!Lookup(f)
      PROVE  Decided'
  <2>1. /\ parsing = "env" /\ f \in flags /\ flags' = flags \ {f} /\ UNCHANGED <<cli, env, parsing>>
        /\ value' = [value EXCEPT ![f] = IF env[f] = Flags!Absent THEN @ ELSE "env"]
    BY <1>3 DEF Flags!Lookup, Flags!Set
  <2>2. value'[f] = Flags!Source(f) /\ \A g \in Flags!Flags \ {f} : value'[g] = value[g]
    BY <2>1 DEF Flags!Source
  <2>3. \A g \in Flags!Flags : Flags!Source(g)' = Flags!Source(g)
    BY <2>1 DEF Flags!Source
  <2>4. QED
    BY <2>1, <2>2, <2>3
<1>4. CASE Flags!Main
  <2>1. /\ parsing = "env" /\ flags = {} /\ parsing' \in {"running", "exit 0", "exit 1"}
        /\ UNCHANGED <<cli, env, value, flags>>
    BY <1>4 DEF Flags!Main, Flags!Exit
  <2>2. \A g \in Flags!Flags : Flags!Source(g)' = Flags!Source(g)
    BY <2>1 DEF Flags!Source
  <2>3. QED
    BY <2>1, <2>2
<1>5. CASE UNCHANGED settingsVars
  BY <1>5 DEF settingsVars, Flags!Source
<1>6. QED
  BY <1>1, <1>2, <1>3, <1>4, <1>5 DEF Flags!Next

(* A job runs with settings of which the command line overrides the        *)
(* environment and the environment the defaults, in whatever order the     *)
(* flags are looked up (main.go, init).                                    *)
THEOREM CommandLineWins == Spec => []CommandLineOverrides
<1>1. SettingsInv /\ [Next \/ Ends]_vars => SettingsInv'
  <2>1. [Next \/ Ends]_vars => part' = part /\ (part = "settings" => [Flags!Next]_settingsVars)
    <3>1. CASE Next
      BY <3>1, Zenon DEF Next
    <3>2. CASE Ends \/ UNCHANGED vars
      BY <3>2, Zenon DEF Ends, vars
    <3>3. QED
      BY <3>1, <3>2
  <2>2. QED
    BY <2>1, SettingsStep DEF SettingsInv
<1>2. SettingsInv => CommandLineOverrides
  BY DEF SettingsInv, Decided, CommandLineOverrides, Flags!CommandLineOverrides
<1>3. QED
  BY SettingsInit, <1>1, <1>2, PTL DEF Spec

-----------------------------------------------------------------------------
(* Samples *)

Fig == {"Memory", "CPUTimes", "IOCounters", "OpenFiles", "NumThreads", "CPUPercent"}
Times == Nat \cup {-1}
SampleStates == {"idle", "collect", "check", "first", "compare", "store", "pgrep", "done"}

SampleTypeOK ==
  /\ os \in [Process!Procs -> [alive : BOOLEAN, cpu : Nat]]
  /\ lastCPUTimes \in Times /\ cpuTimes \in [Samplers -> Times]
  /\ collecting \in [Samplers -> SampleStates]
  /\ stat \in [Samplers -> SUBSET (Fig \X Process!Procs)]
  /\ pids \in [Samplers -> Seq(Process!Procs)]
  /\ at \in [Samplers -> (Nat \ {0}) \X (1..6)]
  /\ found \in [Samplers -> SUBSET Offspring]
  /\ steady \in [Samplers -> SUBSET Process!Procs]
  /\ reported \in Int /\ crossed \in BOOLEAN

(* Until its children are known a sample is of the leader alone, and of    *)
(* those who have lived through it so far every figure that cannot fail    *)
(* has been collected up to where the sample is.                           *)
CollectedBy(s) ==
  /\ collecting[s] = "pgrep" => pids[s] = <<Leader>> /\ at[s] = <<2, 1>>
  /\ collecting[s] = "done" => at[s][1] > Len(pids[s])
  /\ collecting[s] \in Process!CPUPercent => at[s][2] = 6 /\ at[s][1] <= Len(pids[s])
  /\ \A p \in steady[s] : os[p].alive
  /\ \A i \in DOMAIN pids[s] : pids[s][i] \in steady[s] =>
       /\ i < at[s][1] \/ (i = at[s][1] /\ at[s][2] > 3) => <<"IOCounters", pids[s][i]>> \in stat[s]
       /\ i < at[s][1] \/ (i = at[s][1] /\ at[s][2] > 5) => <<"NumThreads", pids[s][i]>> \in stat[s]

Collected == \A s \in Samplers : CollectedBy(s)

(* What was reported of the leader is what it had used at the last call of *)
(* CPUPercent, once that has stored its reading, as long as there has been *)
(* one call at a time.                                                     *)
Uncrossed ==
  ~crossed =>
    /\ \A s, t \in Samplers :
         collecting[s] \in Process!CPUPercent /\ collecting[t] \in Process!CPUPercent => s = t
    /\ \A s \in Samplers :
         /\ collecting[s] \in {"check", "compare"} => lastCPUTimes <= cpuTimes[s] /\ cpuTimes[s] <= os[Leader].cpu
         /\ collecting[s] = "first" => lastCPUTimes = -1
         /\ collecting[s] = "store" =>
              IF cpuTimes[s] = -1 THEN reported = 0
              ELSE reported <= cpuTimes[s] /\ cpuTimes[s] <= os[Leader].cpu
    /\ (\A s \in Samplers : collecting[s] # "store") =>
         IF lastCPUTimes = -1 THEN reported = 0
         ELSE reported <= lastCPUTimes /\ lastCPUTimes <= os[Leader].cpu

SampleInv == SampleTypeOK /\ Collected /\ Uncrossed

(* The figures have six places.                                            *)
LEMMA SixFigures ==
  /\ Len(Process!Figures) = 6
  /\ Process!Figures[1] = "Memory" /\ Process!Figures[2] = "CPUTimes" /\ Process!Figures[3] = "IOCounters"
  /\ Process!Figures[4] = "OpenFiles" /\ Process!Figures[5] = "NumThreads" /\ Process!Figures[6] = "CPUPercent"
BY DEF Process!Figures

(* The library's operators are the same under the instance's name.         *)
LEMMA SameFiniteSets ==
  ASSUME NEW S
  PROVE  (Process!IsFiniteSet(S) <=> IsFiniteSet(S)) /\ Process!Cardinality(S) = Cardinality(S)
<1>1. Process!IsFiniteSet(S) <=> IsFiniteSet(S)
  BY Zenon DEF Process!IsFiniteSet, IsFiniteSet
<1>2. Process!Cardinality(S) = Cardinality(S)
  BY Zenon DEF Process!Cardinality, Cardinality
<1>3. QED
  BY <1>1, <1>2

(* A list of the processes found holds nothing else.                       *)
LEMMA ListOfFound ==
  ASSUME NEW S \in SUBSET Offspring
  PROVE  Process!SetToSeq(S) \in Seq(S)
<1>1. IsFiniteSet(S)
  BY FS_Subset, SameFiniteSets, ProcessAssumption DEF Process!ProcessSampleAssumption
<1> DEFINE n == Cardinality(S)
<1>2. PICK f : ExistsBijection(1..n, S) /\ f \in Bijection(1..n, S)
  BY <1>1, FS_CardinalityType DEF ExistsBijection
<1>3. f \in [1..n -> S] /\ Process!IsInjective(f)
  BY <1>2 DEF Bijection, Injection, Surjection, IsInjective, Process!IsInjective
<1> DEFINE m == Process!Cardinality(S)
<1>4. m = n
  BY SameFiniteSets
<1>5. Process!SetToSeq(S) \in [1..n -> S]
  <2>1. f \in [1..m -> S] /\ Process!IsInjective(f)
    <3> HIDE DEF m, n
    <3>1. QED
      BY <1>3, <1>4
  <2>2. Process!SetToSeq(S) \in [1..m -> S]
    BY <2>1, Zenon DEF Process!SetToSeq
  <2> HIDE DEF m, n
  <2>3. QED
    BY <1>4, <2>2
<1>6. n \in Nat
  BY <1>1, FS_CardinalityType
<1> HIDE DEF n
<1>7. QED
  BY <1>5, <1>6

LEMMA SampleInit == Init => SampleInv
<1> SUFFICES ASSUME Init PROVE SampleInv
  OBVIOUS
<1>1. Process!Init
  BY Zenon DEF Init
<1> USE <1>1 DEF Process!Init, Process!nil
<1>2. SampleTypeOK
  <2>1. os \in [Process!Procs -> [alive : BOOLEAN, cpu : Nat]] /\ reported \in Int
    OBVIOUS
  <2>6. lastCPUTimes \in Times /\ cpuTimes \in [Samplers -> Times]
    BY DEF Times
  <2>7. crossed \in BOOLEAN
    BY Zenon
  <2>2. collecting \in [Samplers -> SampleStates] /\ at \in [Samplers -> (Nat \ {0}) \X (1..6)]
    BY DEF SampleStates
  <2>3. /\ stat \in [Samplers -> SUBSET (Fig \X Process!Procs)]
        /\ found \in [Samplers -> SUBSET Offspring] /\ steady \in [Samplers -> SUBSET Process!Procs]
    OBVIOUS
  <2>4. pids \in [Samplers -> Seq(Process!Procs)]
    OBVIOUS
  <2>5. QED
    BY <2>1, <2>2, <2>3, <2>4, <2>6, <2>7 DEF SampleTypeOK
<1>3. Collected
  BY DEF Collected, CollectedBy, Process!CPUPercent
<1>4. Uncrossed
  BY DEF Uncrossed, Process!CPUPercent
<1>5. QED
  BY <1>2, <1>3, <1>4 DEF SampleInv

(* The CPU times read are those of a living process.                       *)
LEMMA StatTyped ==
  ASSUME SampleTypeOK
  PROVE  /\ Process!fillFromStat(Leader) \in Times
         /\ Process!fillFromStat(Leader) # -1 => Process!fillFromStat(Leader) = os[Leader].cpu
         /\ os[Leader].cpu \in Nat
BY DEF SampleTypeOK, Times, Process!fillFromStat, Process!nil, Process!Procs

(* Who samples beside the one that moves has what it had.                  *)
LEMMA OthersKeep ==
  ASSUME SampleInv, NEW s \in Samplers,
         os' = os,
         \A t \in Samplers \ {s} :
           /\ collecting'[t] = collecting[t] /\ stat'[t] = stat[t] /\ pids'[t] = pids[t]
           /\ at'[t] = at[t] /\ steady'[t] = steady[t],
         CollectedBy(s)'
  PROVE  Collected'
<1> SUFFICES ASSUME NEW t \in Samplers PROVE CollectedBy(t)'
  BY DEF Collected
<1>1. CASE t = s
  BY <1>1
<1>2. CASE t # s
  <2>1. CollectedBy(t)
    BY DEF SampleInv, Collected
  <2>2. QED
    BY <1>2, <2>1 DEF CollectedBy
<1>3. QED
  BY <1>1, <1>2

(* Collecting a figure: of a process that lives on, one that cannot fail   *)
(* is there; what it leaves behind for the next is there too.              *)
LEMMA FigureCollected ==
  ASSUME SampleInv, NEW s \in Samplers, NEW failed \in BOOLEAN, Process!Collect(s, failed),
         at[s][1] <= Len(pids[s]),
         /\ Process!Figures[at[s][2]] \in {"IOCounters", "NumThreads"}
         /\ pids[s][at[s][1]] \in steady[s]
         => ~failed,
         collecting'[s] = "collect",
         \A t \in Samplers \ {s} : collecting'[t] = collecting[t]
  PROVE  /\ stat' \in [Samplers -> SUBSET (Fig \X Process!Procs)]
         /\ at' \in [Samplers -> (Nat \ {0}) \X (1..6)]
         /\ Collected'
<1> DEFINE k == at[s][1]
           j == at[s][2]
           p == pids[s][k]
           f == Process!Figures[j]
<1>1. /\ stat' = [stat EXCEPT ![s] = IF failed THEN @ ELSE @ \cup {<<f, p>>}]
      /\ at' = [at EXCEPT ![s] = Process!Step(@)]
      /\ UNCHANGED <<os, pids, found, steady, samples>>
  BY DEF Process!Collect, Process!StepOn
<1>2. SampleTypeOK /\ CollectedBy(s)
  BY DEF SampleInv, Collected
<1>3. at[s] \in (Nat \ {0}) \X (1..6) /\ pids[s] \in Seq(Process!Procs) /\ stat[s] \in SUBSET (Fig \X Process!Procs)
      /\ steady[s] \in SUBSET Process!Procs
  BY <1>2 DEF SampleTypeOK
<1>4. k \in Nat \ {0} /\ j \in 1..6 /\ at[s] = <<k, j>> /\ k <= Len(pids[s])
  BY <1>3
<1>5. p \in Process!Procs /\ k \in DOMAIN pids[s]
  BY <1>3, <1>4
<1>6. f \in Fig /\ (f = "IOCounters" <=> j = 3) /\ (f = "NumThreads" <=> j = 5)
  BY <1>4, SixFigures DEF Fig
<1>7. Process!Step(at[s]) = IF j < 6 THEN <<k, j + 1>> ELSE <<k + 1, 1>>
  BY SixFigures DEF Process!Step
<1>8. stat' \in [Samplers -> SUBSET (Fig \X Process!Procs)]
      /\ stat[s] \subseteq stat'[s] /\ (~failed => <<f, p>> \in stat'[s])
      /\ \A t \in Samplers \ {s} : stat'[t] = stat[t]
  <2>1. stat \in [Samplers -> SUBSET (Fig \X Process!Procs)]
    BY <1>2 DEF SampleTypeOK
  <2>2. <<f, p>> \in Fig \X Process!Procs
    BY <1>5, <1>6
  <2> DEFINE S == Fig \X Process!Procs
             new == IF failed THEN stat[s] ELSE stat[s] \cup {<<f, p>>}
  <2>3. new \in SUBSET S /\ stat[s] \subseteq new /\ (~failed => <<f, p>> \in new)
    <3> HIDE DEF f, p, Fig
    <3>1. stat[s] \in SUBSET S
      BY <1>3
    <3>2. CASE failed
      BY <3>1, <3>2
    <3>3. CASE ~failed
      BY <2>2, <3>1, <3>3
    <3>4. QED
      BY <3>2, <3>3
  <2>4. stat' = [stat EXCEPT ![s] = new]
    BY <1>1
  <2> HIDE DEF new, S, f, p
  <2>5. stat \in [Samplers -> SUBSET S] /\ stat' \in [Samplers -> SUBSET S]
        /\ stat'[s] = new /\ \A t \in Samplers \ {s} : stat'[t] = stat[t]
    BY <2>1, <2>3, <2>4 DEF S
  <2>6. QED
    BY <2>3, <2>5 DEF S
<1>9. at' \in [Samplers -> (Nat \ {0}) \X (1..6)] /\ at'[s] = Process!Step(at[s])
      /\ \A t \in Samplers \ {s} : at'[t] = at[t]
  <2>1. Process!Step(at[s]) \in (Nat \ {0}) \X (1..6)
    <3> HIDE DEF k, j
    <3>1. QED
      BY <1>4, <1>7
  <2>2. at \in [Samplers -> (Nat \ {0}) \X (1..6)]
    BY <1>2 DEF SampleTypeOK
  <2>3. QED
    BY <1>1, <2>1, <2>2
<1>10. CollectedBy(s)'
  <2>1. collecting'[s] = "collect"
    OBVIOUS
  <2>2. \A q \in steady'[s] : os'[q].alive
    BY <1>1, <1>2 DEF CollectedBy
  <2>3. ASSUME NEW i \in DOMAIN pids[s], pids[s][i] \in steady[s]
        PROVE  /\ i < at'[s][1] \/ (i = at'[s][1] /\ at'[s][2] > 3) => <<"IOCounters", pids[s][i]>> \in stat'[s]
               /\ i < at'[s][1] \/ (i = at'[s][1] /\ at'[s][2] > 5) => <<"NumThreads", pids[s][i]>> \in stat'[s]
    <3> DEFINE q == pids[s][i]
    <3>1. /\ i < k \/ (i = k /\ j > 3) => <<"IOCounters", q>> \in stat[s]
          /\ i < k \/ (i = k /\ j > 5) => <<"NumThreads", q>> \in stat[s]
      BY <1>2, <2>3 DEF CollectedBy
    <3>2. i = k => q = p
      OBVIOUS
    <3>3. i = k /\ f \in {"IOCounters", "NumThreads"} => ~failed
      BY <2>3
    <3>4. i \in Nat /\ i >= 1
      BY <1>3, <2>3
    <3> HIDE DEF k, j, p, f, q
    <3>5. at'[s][1] = (IF j < 6 THEN k ELSE k + 1) /\ at'[s][2] = (IF j < 6 THEN j + 1 ELSE 1)
      BY <1>7, <1>9
    <3>6. i = k /\ j = 3 => <<"IOCounters", q>> \in stat'[s]
      BY <1>6, <1>8, <3>2, <3>3, Zenon
    <3>7. i = k /\ j = 5 => <<"NumThreads", q>> \in stat'[s]
      BY <1>6, <1>8, <3>2, <3>3, Zenon
    <3>8. /\ i < k \/ (i = k /\ j > 3) => <<"IOCounters", q>> \in stat'[s]
          /\ i < k \/ (i = k /\ j > 5) => <<"NumThreads", q>> \in stat'[s]
      BY <1>8, <3>1
    <3>9. /\ i < at'[s][1] \/ (i = at'[s][1] /\ at'[s][2] > 3) => <<"IOCounters", q>> \in stat'[s]
          /\ i < at'[s][1] \/ (i = at'[s][1] /\ at'[s][2] > 5) => <<"NumThreads", q>> \in stat'[s]
      BY <1>4, <3>4, <3>5, <3>6, <3>7, <3>8
    <3>10. QED
      BY <3>9 DEF q
  <2> HIDE DEF k, j, p, f
  <2>4. pids' = pids /\ steady' = steady
    BY <1>1
  <2>5. QED
    BY <2>1, <2>2, <2>3, <2>4 DEF CollectedBy, Process!CPUPercent
<1> HIDE DEF k, j, p, f
<1>11. os' = os /\ pids' = pids /\ steady' = steady
  BY <1>1
<1>12. \A t \in Samplers \ {s} :
         /\ collecting'[t] = collecting[t] /\ stat'[t] = stat[t] /\ pids'[t] = pids[t]
         /\ at'[t] = at[t] /\ steady'[t] = steady[t]
  BY <1>8, <1>9, <1>11
<1>13. Collected'
  BY <1>10, <1>11, <1>12, OthersKeep
<1>14. QED
  BY <1>8, <1>9, <1>13

(* A step that leaves all calls of CPUPercent where they are.              *)
LEMMA CallsKept ==
  ASSUME SampleInv,
         UNCHANGED <<lastCPUTimes, cpuTimes, reported, crossed>>,
         os'[Leader].cpu \in Nat, os'[Leader].cpu >= os[Leader].cpu,
         \A s \in Samplers : collecting'[s] # collecting[s] =>
           collecting[s] \notin Process!CPUPercent /\ collecting'[s] \notin Process!CPUPercent
  PROVE  Uncrossed'
<1>1. lastCPUTimes \in Times /\ cpuTimes \in [Samplers -> Times] /\ os[Leader].cpu \in Nat
  BY DEF SampleInv, SampleTypeOK, Process!Procs
<1>2. \A s \in Samplers : \A c \in Process!CPUPercent : collecting'[s] = c <=> collecting[s] = c
  OBVIOUS
<1>3. \A s \in Samplers : \A c \in {"check", "first", "compare", "store"} : collecting'[s] = c <=> collecting[s] = c
  BY <1>2 DEF Process!CPUPercent
<1> SUFFICES ASSUME ~crossed' PROVE Uncrossed'
  BY DEF Uncrossed
<1>4. ~crossed /\ Uncrossed
  BY DEF SampleInv
<1>5. \A s, t \in Samplers :
        collecting'[s] \in Process!CPUPercent /\ collecting'[t] \in Process!CPUPercent => s = t
  BY <1>2, <1>4 DEF Uncrossed
<1>6. \A s \in Samplers :
        /\ collecting'[s] \in {"check", "compare"} => lastCPUTimes <= cpuTimes[s] /\ cpuTimes[s] <= os'[Leader].cpu
        /\ collecting'[s] = "first" => lastCPUTimes = -1
        /\ collecting'[s] = "store" =>
             IF cpuTimes[s] = -1 THEN reported = 0
             ELSE reported <= cpuTimes[s] /\ cpuTimes[s] <= os'[Leader].cpu
  BY <1>1, <1>3, <1>4 DEF Uncrossed, Times
<1>7. (\A s \in Samplers : collecting'[s] # "store") =>
        IF lastCPUTimes = -1 THEN reported = 0
        ELSE reported <= lastCPUTimes /\ lastCPUTimes <= os'[Leader].cpu
  BY <1>1, <1>3, <1>4 DEF Uncrossed, Times
<1>8. QED
  BY <1>4, <1>5, <1>6, <1>7 DEF Uncrossed

LEMMA SampleStarts ==
  ASSUME SampleInv, NEW s \in Samplers, Process!collectSample(s)
  PROVE  SampleInv'
<1> USE DEF SampleInv
<1>1. /\ collecting[s] \in {"idle", "done"}
      /\ collecting' = [collecting EXCEPT ![s] = "collect"]
      /\ stat' = [stat EXCEPT ![s] = {}]
      /\ pids' = [pids EXCEPT ![s] = <<Leader>>]
      /\ at' = [at EXCEPT ![s] = <<1, 1>>]
      /\ steady' = [steady EXCEPT ![s] = {p \in Process!Procs : os[p].alive}]
      /\ UNCHANGED <<os, lastCPUTimes, found, cpuTimes, reported, crossed>>
  BY DEF Process!collectSample
<1>2. /\ collecting \in [Samplers -> SampleStates]
      /\ stat \in [Samplers -> SUBSET (Fig \X Process!Procs)]
      /\ pids \in [Samplers -> Seq(Process!Procs)]
      /\ at \in [Samplers -> (Nat \ {0}) \X (1..6)]
      /\ steady \in [Samplers -> SUBSET Process!Procs]
  BY DEF SampleTypeOK
<1>3. SampleTypeOK'
  <2>1. collecting' \in [Samplers -> SampleStates]
    BY <1>1, <1>2 DEF SampleStates
  <2>2. stat' \in [Samplers -> SUBSET (Fig \X Process!Procs)]
    BY <1>1, <1>2
  <2>3. <<Leader>> \in Seq(Process!Procs)
    BY DEF Process!Procs
  <2>4. pids' \in [Samplers -> Seq(Process!Procs)]
    BY <1>1, <1>2, <2>3
  <2>5. at' \in [Samplers -> (Nat \ {0}) \X (1..6)]
    BY <1>1, <1>2
  <2>6. steady' \in [Samplers -> SUBSET Process!Procs]
    BY <1>1, <1>2
  <2>7. QED
    BY <1>1, <2>1, <2>2, <2>4, <2>5, <2>6 DEF SampleTypeOK
<1>4. Collected'
  <2>1. collecting'[s] = "collect" /\ stat'[s] = {} /\ pids'[s] = <<Leader>> /\ at'[s] = <<1, 1>>
        /\ steady'[s] = {p \in Process!Procs : os[p].alive}
    BY <1>1, <1>2
  <2>2. DOMAIN pids'[s] = {1}
    BY <2>1
  <2>3. CollectedBy(s)'
    BY <1>1, <2>1, <2>2 DEF CollectedBy, Process!CPUPercent
  <2>4. \A t \in Samplers \ {s} :
          /\ collecting'[t] = collecting[t] /\ stat'[t] = stat[t] /\ pids'[t] = pids[t]
          /\ at'[t] = at[t] /\ steady'[t] = steady[t]
    BY <1>1, <1>2
  <2>5. QED
    BY <1>1, <2>3, <2>4, OthersKeep
<1>5. Uncrossed'
  <2>1. \A t \in Samplers : collecting'[t] # collecting[t] =>
          collecting[t] \notin Process!CPUPercent /\ collecting'[t] \notin Process!CPUPercent
    <3>1. \A t \in Samplers \ {s} : collecting'[t] = collecting[t]
      BY <1>1, <1>2
    <3>2. collecting[s] \notin Process!CPUPercent /\ collecting'[s] \notin Process!CPUPercent
      BY <1>1, <1>2 DEF Process!CPUPercent
    <3>3. QED
      BY <3>1, <3>2
  <2>2. os'[Leader].cpu \in Nat /\ os'[Leader].cpu >= os[Leader].cpu
    BY <1>1 DEF SampleTypeOK, Process!Procs
  <2>3. QED
    BY <1>1, <2>1, <2>2, CallsKept, Zenon
<1>6. QED
  BY <1>3, <1>4, <1>5

LEMMA FigureAdded ==
  ASSUME SampleInv, NEW s \in Samplers, Process!aggregateStatForProc(s)
  PROVE  SampleInv'
<1> USE DEF SampleInv
<1> DEFINE p == pids[s][at[s][1]]
           f == Process!Figures[at[s][2]]
           failed == Process!Fails(f, p)
<1>1. /\ collecting[s] = "collect" /\ at[s][1] <= Len(pids[s])
      /\ Process!Collect(s, failed)
      /\ UNCHANGED <<collecting, lastCPUTimes, cpuTimes, reported, crossed>>
  BY DEF Process!aggregateStatForProc
<1>2. failed \in BOOLEAN
  BY DEF Process!Fails
<1>3. f \in {"IOCounters", "NumThreads"} /\ p \in steady[s] => ~failed
  BY DEF Process!Fails, Collected, CollectedBy
<1>4. UNCHANGED <<os, pids, found, steady>>
  BY <1>1 DEF Process!Collect
<1> HIDE DEF failed
<1>5. /\ stat' \in [Samplers -> SUBSET (Fig \X Process!Procs)]
      /\ at' \in [Samplers -> (Nat \ {0}) \X (1..6)]
      /\ Collected'
  BY <1>1, <1>2, <1>3, FigureCollected
<1>6. SampleTypeOK'
  BY <1>1, <1>4, <1>5 DEF SampleTypeOK
<1>7. Uncrossed'
  <2>1. os'[Leader].cpu \in Nat /\ os'[Leader].cpu >= os[Leader].cpu
    BY <1>4 DEF SampleTypeOK, Process!Procs
  <2>2. \A t \in Samplers : collecting'[t] = collecting[t]
    BY <1>1
  <2>3. QED
    BY <1>1, <2>1, <2>2, CallsKept, Zenon
<1>8. QED
  BY <1>5, <1>6, <1>7

(* The children are looked for, and the sample is published.               *)
LEMMA ChildrenFound ==
  ASSUME SampleInv, NEW s \in Samplers,
         Process!CallPgrep(s) \/ Process!Children(s) \/ Process!Publish(s)
  PROVE  SampleInv'
<1> USE DEF SampleInv
<1>1. /\ collecting \in [Samplers -> SampleStates]
      /\ pids \in [Samplers -> Seq(Process!Procs)]
      /\ at \in [Samplers -> (Nat \ {0}) \X (1..6)]
      /\ found \in [Samplers -> SUBSET Offspring]
      /\ os[Leader].cpu \in Nat
  BY DEF SampleTypeOK, Process!Procs
<1>2. CollectedBy(s)
  BY DEF Collected
<1>3. UNCHANGED <<os, lastCPUTimes, stat, at, steady, cpuTimes, reported, crossed>>
  BY DEF Process!CallPgrep, Process!Children, Process!Publish
<1>4. /\ collecting' \in [Samplers -> SampleStates]
      /\ pids' \in [Samplers -> Seq(Process!Procs)]
      /\ found' \in [Samplers -> SUBSET Offspring]
      /\ CollectedBy(s)'
      /\ \A t \in Samplers \ {s} : collecting'[t] = collecting[t] /\ pids'[t] = pids[t]
      /\ collecting[s] \notin Process!CPUPercent /\ collecting'[s] \notin Process!CPUPercent
  <2>1. CASE Process!CallPgrep(s)
    <3>1. /\ collecting[s] = "collect" /\ at[s] = <<2, 1>> /\ pids[s] = <<Leader>>
          /\ found' = [found EXCEPT ![s] = {p \in Offspring : os[p].alive /\ os[Leader].alive}]
          /\ collecting' = [collecting EXCEPT ![s] = IF found'[s] = {} THEN "done" ELSE "pgrep"]
          /\ pids' = pids
      BY <2>1 DEF Process!CallPgrep
    <3>2. collecting' \in [Samplers -> SampleStates] /\ collecting'[s] \in {"done", "pgrep"}
          /\ \A t \in Samplers \ {s} : collecting'[t] = collecting[t]
      BY <1>1, <3>1 DEF SampleStates
    <3>3. found' \in [Samplers -> SUBSET Offspring]
      BY <1>1, <3>1
    <3>4. at[s][1] > Len(pids[s])
      BY <3>1
    <3>5. CollectedBy(s)'
      BY <1>2, <1>3, <3>1, <3>2, <3>4 DEF CollectedBy, Process!CPUPercent
    <3>6. QED
      BY <1>1, <3>1, <3>2, <3>3, <3>5 DEF Process!CPUPercent
  <2>2. CASE Process!Children(s)
    <3> DEFINE new == Process!SetToSeq(found[s])
    <3>1. /\ collecting[s] = "pgrep" /\ found' = found
          /\ \/ /\ pids' = [pids EXCEPT ![s] = <<Leader>> \o new]
                /\ collecting' = [collecting EXCEPT ![s] = "collect"]
             \/ collecting' = [collecting EXCEPT ![s] = "done"] /\ pids' = pids
      BY <2>2 DEF Process!Children
    <3>2. pids[s] = <<Leader>> /\ at[s] = <<2, 1>>
      BY <1>2, <3>1 DEF CollectedBy
    <3>3. CASE collecting' = [collecting EXCEPT ![s] = "done"] /\ pids' = pids
      <4>1. collecting' \in [Samplers -> SampleStates] /\ collecting'[s] = "done"
            /\ \A t \in Samplers \ {s} : collecting'[t] = collecting[t]
        BY <1>1, <3>3 DEF SampleStates
      <4>2. at[s][1] > Len(pids[s])
        BY <3>2
      <4>3. CollectedBy(s)'
        BY <1>2, <1>3, <3>3, <4>1, <4>2 DEF CollectedBy, Process!CPUPercent
      <4>4. QED
        BY <1>1, <3>1, <3>3, <4>1, <4>3 DEF Process!CPUPercent
    <3>4. CASE /\ pids' = [pids EXCEPT ![s] = <<Leader>> \o new]
               /\ collecting' = [collecting EXCEPT ![s] = "collect"]
      <4>1. new \in Seq(found[s]) /\ found[s] \subseteq Offspring
        BY <1>1, ListOfFound
      <4> HIDE DEF new
      <4>2. <<Leader>> \o new \in Seq(Process!Procs)
        BY <4>1 DEF Process!Procs
      <4>3. (<<Leader>> \o new)[1] = Leader
        BY <4>1
      <4>4. /\ pids' \in [Samplers -> Seq(Process!Procs)] /\ pids'[s] = <<Leader>> \o new
            /\ collecting' \in [Samplers -> SampleStates] /\ collecting'[s] = "collect"
            /\ \A t \in Samplers \ {s} : collecting'[t] = collecting[t] /\ pids'[t] = pids[t]
        BY <1>1, <3>4, <4>2 DEF SampleStates
      <4>5. Leader \in steady[s] => <<"IOCounters", Leader>> \in stat[s] /\ <<"NumThreads", Leader>> \in stat[s]
        <5>1. 1 \in DOMAIN pids[s] /\ pids[s][1] = Leader /\ 1 < at[s][1]
          BY <3>2
        <5>2. QED
          BY <1>2, <5>1 DEF CollectedBy
      <4>6. ASSUME NEW i \in DOMAIN pids'[s], pids'[s][i] \in steady[s]
            PROVE  /\ i < at[s][1] \/ (i = at[s][1] /\ at[s][2] > 3) => <<"IOCounters", pids'[s][i]>> \in stat[s]
                   /\ i < at[s][1] \/ (i = at[s][1] /\ at[s][2] > 5) => <<"NumThreads", pids'[s][i]>> \in stat[s]
        <5>1. at[s][1] = 2 /\ at[s][2] = 1
          BY <3>2
        <5>2. i \in Nat /\ i >= 1
          BY <4>4
        <5>3. CASE i = 1
          BY <4>3, <4>4, <4>5, <4>6, <5>3
        <5>4. CASE i # 1
          BY <5>1, <5>2, <5>4
        <5>5. QED
          BY <5>3, <5>4
      <4>7. CollectedBy(s)'
        <5>1. \A p \in steady[s] : os[p].alive
          BY <1>2 DEF CollectedBy
        <5>2. QED
          BY <1>3, <4>4, <4>6, <5>1 DEF CollectedBy, Process!CPUPercent
      <4>8. QED
        BY <1>1, <3>1, <4>4, <4>7 DEF Process!CPUPercent
    <3>5. QED
      BY <3>1, <3>3, <3>4
  <2>3. CASE Process!Publish(s)
    <3>1. /\ collecting[s] = "collect" /\ at[s][1] > Len(pids[s])
          /\ collecting' = [collecting EXCEPT ![s] = "done"] /\ pids' = pids /\ found' = found
      BY <2>3 DEF Process!Publish
    <3>2. collecting' \in [Samplers -> SampleStates] /\ collecting'[s] = "done"
          /\ \A t \in Samplers \ {s} : collecting'[t] = collecting[t]
      BY <1>1, <3>1 DEF SampleStates
    <3>3. CollectedBy(s)'
      BY <1>2, <1>3, <3>1, <3>2 DEF CollectedBy, Process!CPUPercent
    <3>4. QED
      BY <1>1, <3>1, <3>2, <3>3 DEF Process!CPUPercent
  <2>4. QED
    BY <2>1, <2>2, <2>3
<1>5. SampleTypeOK'
  BY <1>3, <1>4 DEF SampleTypeOK
<1>6. Collected'
  BY <1>3, <1>4, OthersKeep
<1>7. Uncrossed'
  <2>1. os'[Leader].cpu \in Nat /\ os'[Leader].cpu >= os[Leader].cpu
    BY <1>1, <1>3
  <2>2. \A t \in Samplers : collecting'[t] # collecting[t] =>
          collecting[t] \notin Process!CPUPercent /\ collecting'[t] \notin Process!CPUPercent
    BY <1>4
  <2>3. QED
    BY <1>3, <2>1, <2>2, CallsKept, Zenon
<1>8. QED
  BY <1>5, <1>6, <1>7

(* The processes work and exit.                                            *)
LEMMA ProcessesGoOn ==
  ASSUME SampleInv, NEW p \in Process!Procs, Process!Work(p) \/ Process!Exit(p)
  PROVE  SampleInv'
<1> USE DEF SampleInv
<1>1. /\ os \in [Process!Procs -> [alive : BOOLEAN, cpu : Nat]]
      /\ steady \in [Samplers -> SUBSET Process!Procs]
      /\ Leader \in Process!Procs
  BY DEF SampleTypeOK, Process!Procs
<1>2. UNCHANGED <<lastCPUTimes, collecting, stat, pids, at, found, cpuTimes, reported, crossed>>
  BY DEF Process!Work, Process!Exit, Process!sampleState
<1>3. /\ os' \in [Process!Procs -> [alive : BOOLEAN, cpu : Nat]]
      /\ os'[Leader].cpu >= os[Leader].cpu
      /\ steady' \in [Samplers -> SUBSET Process!Procs]
      /\ \A s \in Samplers : /\ steady'[s] \subseteq steady[s]
                             /\ \A q \in steady'[s] : os'[q].alive = os[q].alive
  <2>1. CASE Process!Work(p)
    <3>1. os' = [os EXCEPT ![p].cpu = @ + 1] /\ steady' = steady
      BY <2>1 DEF Process!Work, Process!sampleState
    <3>2. QED
      BY <1>1, <3>1
  <2>2. CASE Process!Exit(p)
    <3>1. os' = [os EXCEPT ![p].alive = FALSE] /\ steady' = [s \in Samplers |-> steady[s] \ {p}]
      BY <2>2 DEF Process!Exit
    <3>2. /\ os' \in [Process!Procs -> [alive : BOOLEAN, cpu : Nat]] /\ os'[Leader].cpu = os[Leader].cpu
          /\ \A q \in Process!Procs : q # p => os'[q].alive = os[q].alive
      BY <1>1, <3>1
    <3>3. steady' \in [Samplers -> SUBSET Process!Procs]
          /\ \A s \in Samplers : steady'[s] \subseteq steady[s] \ {p} /\ steady[s] \subseteq Process!Procs
      BY <1>1, <3>1
    <3>4. os[Leader].cpu \in Nat
      BY <1>1
    <3>5. QED
      BY <3>2, <3>3, <3>4
  <2>3. QED
    BY <2>1, <2>2
<1>4. SampleTypeOK'
  BY <1>2, <1>3 DEF SampleTypeOK
<1>5. Collected'
  <2> SUFFICES ASSUME NEW s \in Samplers PROVE CollectedBy(s)'
    BY DEF Collected
  <2>1. CollectedBy(s)
    BY DEF Collected
  <2>2. QED
    BY <1>2, <1>3, <2>1 DEF CollectedBy
<1>6. Uncrossed'
  <2>1. os'[Leader].cpu \in Nat /\ os'[Leader].cpu >= os[Leader].cpu
    BY <1>1, <1>3
  <2>2. \A s \in Samplers : collecting'[s] = collecting[s]
    BY <1>2
  <2>3. QED
    BY <1>2, <2>1, <2>2, CallsKept, Zenon
<1>7. QED
  BY <1>4, <1>5, <1>6

(* A call of CPUPercent comes one step on; nothing but that sample, the    *)
(* leader's Process object and what was reported changes.                  *)
LEMMA CallGoesOn ==
  ASSUME SampleInv, NEW s \in Samplers,
         \/ Process!CPUPercentReads(s) \/ Process!CPUPercentChecks(s) \/ Process!CPUPercentFirst(s)
         \/ Process!CPUPercentCompares(s) \/ Process!CPUPercentStores(s)
  PROVE  SampleTypeOK' /\ Collected'
<1> USE DEF SampleInv
<1> DEFINE read == Process!fillFromStat(Leader)
<1>1. /\ collecting \in [Samplers -> SampleStates]
      /\ at \in [Samplers -> (Nat \ {0}) \X (1..6)]
      /\ pids \in [Samplers -> Seq(Process!Procs)]
      /\ lastCPUTimes \in Times /\ cpuTimes \in [Samplers -> Times]
      /\ reported \in Int /\ read \in Times
  BY StatTyped DEF SampleTypeOK
<1>2. CollectedBy(s)
  BY DEF Collected
<1>3. UNCHANGED <<os, pids, found, steady>>
  BY DEF Process!CPUPercentReads, Process!CPUPercentChecks, Process!CPUPercentFirst,
         Process!CPUPercentCompares, Process!CPUPercentStores, Process!Collect
<1>4. /\ collecting' \in [Samplers -> SampleStates] /\ \A t \in Samplers \ {s} : collecting'[t] = collecting[t]
      /\ lastCPUTimes' \in Times /\ cpuTimes' \in [Samplers -> Times]
      /\ reported' \in Int /\ crossed' \in BOOLEAN
      /\ \/ \E failed \in BOOLEAN :
              /\ Process!Collect(s, failed) /\ at[s][2] = 6 /\ at[s][1] <= Len(pids[s])
              /\ collecting'[s] = "collect"
         \/ /\ UNCHANGED <<at, stat>> /\ at[s][2] = 6
            /\ collecting[s] \in Process!CPUPercent \cup {"collect"} /\ collecting'[s] \in Process!CPUPercent
            /\ at[s][1] <= Len(pids[s])
  <2>1. CASE Process!CPUPercentReads(s)
    <3>1. /\ collecting[s] = "collect" /\ at[s][1] <= Len(pids[s]) /\ Process!Figures[at[s][2]] = "CPUPercent"
          /\ cpuTimes' = [cpuTimes EXCEPT ![s] = read]
          /\ UNCHANGED <<lastCPUTimes, reported>>
          /\ \/ Process!Collect(s, TRUE) /\ UNCHANGED <<collecting, crossed>>
             \/ /\ collecting' = [collecting EXCEPT ![s] = "check"] /\ crossed' \in BOOLEAN
                /\ UNCHANGED <<at, stat>>
      BY <2>1 DEF Process!CPUPercentReads
    <3>2. at[s][2] = 6
      BY <1>1, <3>1, SixFigures
    <3>3. cpuTimes' \in [Samplers -> Times]
      BY <1>1, <3>1
    <3>4. crossed \in BOOLEAN
      BY DEF SampleTypeOK
    <3>5. CASE Process!Collect(s, TRUE) /\ UNCHANGED <<collecting, crossed>>
      BY <1>1, <3>1, <3>2, <3>3, <3>4, <3>5
    <3>6. CASE /\ collecting' = [collecting EXCEPT ![s] = "check"] /\ crossed' \in BOOLEAN
               /\ UNCHANGED <<at, stat>>
      <4>1. collecting' \in [Samplers -> SampleStates] /\ collecting'[s] = "check"
            /\ \A t \in Samplers \ {s} : collecting'[t] = collecting[t]
        BY <1>1, <3>6 DEF SampleStates
      <4>2. collecting[s] \in Process!CPUPercent \cup {"collect"} /\ collecting'[s] \in Process!CPUPercent
        BY <3>1, <4>1 DEF Process!CPUPercent
      <4>3. QED
        BY <1>1, <3>1, <3>2, <3>3, <3>6, <4>1, <4>2
    <3>7. QED
      BY <3>1, <3>5, <3>6
  <2>2. CASE Process!CPUPercentChecks(s) \/ Process!CPUPercentFirst(s)
    <3>1. /\ collecting[s] \in {"check", "first"}
          /\ \E c \in {"first", "compare", "store"} : collecting' = [collecting EXCEPT ![s] = c]
          /\ cpuTimes' = cpuTimes \/ cpuTimes' = [cpuTimes EXCEPT ![s] = read]
          /\ UNCHANGED <<lastCPUTimes, reported, crossed, at, stat>>
      BY <2>2 DEF Process!CPUPercentChecks, Process!CPUPercentFirst
    <3>2. PICK c \in {"first", "compare", "store"} : collecting' = [collecting EXCEPT ![s] = c]
      BY <3>1
    <3>3. collecting' \in [Samplers -> SampleStates] /\ collecting'[s] = c
          /\ \A t \in Samplers \ {s} : collecting'[t] = collecting[t]
      BY <1>1, <3>2 DEF SampleStates
    <3>4. cpuTimes' \in [Samplers -> Times]
      BY <1>1, <3>1
    <3>5. crossed' \in BOOLEAN
      BY <3>1 DEF SampleTypeOK
    <3>6. collecting[s] \in Process!CPUPercent /\ collecting'[s] \in Process!CPUPercent
      BY <3>1, <3>3 DEF Process!CPUPercent
    <3>7. at[s][2] = 6 /\ at[s][1] <= Len(pids[s])
      BY <1>2, <3>6 DEF CollectedBy
    <3>8. QED
      BY <1>1, <3>1, <3>3, <3>4, <3>5, <3>6, <3>7
  <2>3. CASE Process!CPUPercentCompares(s) \/ Process!CPUPercentStores(s)
    <3>1. /\ collecting[s] \in {"compare", "store"} /\ cpuTimes' = cpuTimes /\ crossed' = crossed
          /\ lastCPUTimes' \in {lastCPUTimes, cpuTimes[s]}
          /\ reported' \in {reported, reported + (cpuTimes[s] - lastCPUTimes)}
          /\ \/ /\ \E failed \in BOOLEAN : Process!Collect(s, failed)
                /\ collecting' = [collecting EXCEPT ![s] = "collect"]
             \/ /\ collecting' = [collecting EXCEPT ![s] = "store"] /\ UNCHANGED <<at, stat>>
      <4>1. CASE Process!CPUPercentCompares(s)
        BY <4>1 DEF Process!CPUPercentCompares
      <4>2. CASE Process!CPUPercentStores(s)
        <5>1. (cpuTimes[s] = Process!nil) \in BOOLEAN
          OBVIOUS
        <5>2. QED
          BY <4>2, <5>1 DEF Process!CPUPercentStores, Process!Stored
      <4>3. QED
        BY <2>3, <4>1, <4>2
    <3>2. at[s][2] = 6 /\ at[s][1] <= Len(pids[s]) /\ collecting[s] \in Process!CPUPercent
      BY <1>2, <3>1 DEF CollectedBy, Process!CPUPercent
    <3>3. lastCPUTimes' \in Times /\ reported' \in Int
      <4>1. cpuTimes[s] \in Times /\ \A n \in Times : n \in Int
        BY <1>1 DEF Times
      <4>2. QED
        BY <1>1, <3>1, <4>1
    <3>4. crossed' \in BOOLEAN
      BY <3>1 DEF SampleTypeOK
    <3>5. CASE /\ \E failed \in BOOLEAN : Process!Collect(s, failed)
               /\ collecting' = [collecting EXCEPT ![s] = "collect"]
      <4>1. collecting' \in [Samplers -> SampleStates] /\ collecting'[s] = "collect"
            /\ \A t \in Samplers \ {s} : collecting'[t] = collecting[t]
        BY <1>1, <3>5 DEF SampleStates
      <4>2. QED
        BY <1>1, <3>1, <3>2, <3>3, <3>4, <3>5, <4>1, Zenon
    <3>6. CASE collecting' = [collecting EXCEPT ![s] = "store"] /\ UNCHANGED <<at, stat>>
      <4>1. collecting' \in [Samplers -> SampleStates] /\ collecting'[s] = "store"
            /\ \A t \in Samplers \ {s} : collecting'[t] = collecting[t]
        BY <1>1, <3>6 DEF SampleStates
      <4>2. collecting'[s] \in Process!CPUPercent
        BY <4>1 DEF Process!CPUPercent
      <4>3. QED
        BY <1>1, <3>1, <3>2, <3>3, <3>4, <3>6, <4>1, <4>2
    <3>7. QED
      BY <3>1, <3>5, <3>6
  <2>4. QED
    BY <2>1, <2>2, <2>3
<1>5. CASE \E failed \in BOOLEAN :
             /\ Process!Collect(s, failed) /\ at[s][2] = 6 /\ at[s][1] <= Len(pids[s])
             /\ collecting'[s] = "collect"
  <2>1. PICK failed \in BOOLEAN :
          /\ Process!Collect(s, failed) /\ at[s][2] = 6 /\ at[s][1] <= Len(pids[s])
          /\ collecting'[s] = "collect"
    BY <1>5, Zenon
  <2>2. Process!Figures[at[s][2]] \notin {"IOCounters", "NumThreads"}
    BY <2>1, SixFigures
  <2>3. /\ stat' \in [Samplers -> SUBSET (Fig \X Process!Procs)]
        /\ at' \in [Samplers -> (Nat \ {0}) \X (1..6)]
        /\ Collected'
    BY <1>4, <2>1, <2>2, FigureCollected
  <2>4. QED
    BY <1>3, <1>4, <2>3 DEF SampleTypeOK
<1>6. CASE /\ UNCHANGED <<at, stat>> /\ at[s][2] = 6
           /\ collecting[s] \in Process!CPUPercent \cup {"collect"} /\ collecting'[s] \in Process!CPUPercent
           /\ at[s][1] <= Len(pids[s])
  <2>1. SampleTypeOK'
    BY <1>3, <1>4, <1>6 DEF SampleTypeOK
  <2>2. CollectedBy(s)'
    BY <1>2, <1>3, <1>6 DEF CollectedBy, Process!CPUPercent
  <2>3. \A t \in Samplers \ {s} :
          /\ collecting'[t] = collecting[t] /\ stat'[t] = stat[t] /\ pids'[t] = pids[t]
          /\ at'[t] = at[t] /\ steady'[t] = steady[t]
    BY <1>3, <1>4, <1>6
  <2>4. QED
    BY <1>3, <2>1, <2>2, <2>3, OthersKeep
<1>7. QED
  BY <1>4, <1>5, <1>6

(* One call at a time reports the difference of two readings, of which the *)
(* later becomes the earlier of the next.                                  *)
LEMMA CallsCount ==
  ASSUME SampleInv, NEW s \in Samplers,
         \/ Process!CPUPercentReads(s) \/ Process!CPUPercentChecks(s) \/ Process!CPUPercentFirst(s)
         \/ Process!CPUPercentCompares(s) \/ Process!CPUPercentStores(s)
  PROVE  Uncrossed'
<1> USE DEF SampleInv
<1> DEFINE read == Process!fillFromStat(Leader)
           used == os[Leader].cpu
<1>1. /\ collecting \in [Samplers -> SampleStates] /\ lastCPUTimes \in Times
      /\ cpuTimes \in [Samplers -> Times] /\ reported \in Int
      /\ read \in Times /\ (read # -1 => read = used) /\ used \in Nat
  BY StatTyped DEF SampleTypeOK
<1>2. os' = os /\ (crossed => crossed')
  <2>1. os' = os
    BY DEF Process!CPUPercentReads, Process!CPUPercentChecks, Process!CPUPercentFirst,
           Process!CPUPercentCompares, Process!CPUPercentStores, Process!Collect
  <2>2. crossed => crossed'
    BY Zenon DEF Process!CPUPercentReads, Process!CPUPercentChecks, Process!CPUPercentFirst,
                 Process!CPUPercentCompares, Process!CPUPercentStores, Process!Collect
  <2>3. QED
    BY <2>1, <2>2
<1> SUFFICES ASSUME ~crossed' PROVE Uncrossed'
  BY DEF Uncrossed
<1>3. /\ \A t, u \in Samplers :
           collecting[t] \in Process!CPUPercent /\ collecting[u] \in Process!CPUPercent => t = u
      /\ \A t \in Samplers :
           /\ collecting[t] \in {"check", "compare"} => lastCPUTimes <= cpuTimes[t] /\ cpuTimes[t] <= used
           /\ collecting[t] = "first" => lastCPUTimes = -1
           /\ collecting[t] = "store" =>
                IF cpuTimes[t] = -1 THEN reported = 0
                ELSE reported <= cpuTimes[t] /\ cpuTimes[t] <= used
      /\ (\A t \in Samplers : collecting[t] # "store") =>
           IF lastCPUTimes = -1 THEN reported = 0 ELSE reported <= lastCPUTimes /\ lastCPUTimes <= used
  <2>1. ~crossed
    BY <1>2
  <2>2. QED
    BY <2>1 DEF Uncrossed
<1>4. CASE Process!CPUPercentReads(s) /\ UNCHANGED <<collecting, crossed>>
  <2>1. /\ collecting[s] = "collect" /\ cpuTimes' = [cpuTimes EXCEPT ![s] = read]
        /\ UNCHANGED <<lastCPUTimes, reported>>
    BY <1>4 DEF Process!CPUPercentReads
  <2>2. \A t \in Samplers : collecting[t] \in Process!CPUPercent => cpuTimes'[t] = cpuTimes[t]
    BY <1>1, <2>1 DEF Process!CPUPercent
  <2>3. \A t \in Samplers : collecting[t] \in {"check", "compare", "store"} => cpuTimes'[t] = cpuTimes[t]
    BY <2>2 DEF Process!CPUPercent
  <2> HIDE DEF read, used
  <2>4. QED
    BY <1>2, <1>3, <1>4, <2>1, <2>3 DEF Uncrossed, used
<1> DEFINE Alone(c) ==
             /\ collecting' = [collecting EXCEPT ![s] = c]
             /\ \A t \in Samplers \ {s} : collecting[t] \notin Process!CPUPercent
<1>5. ASSUME NEW c \in SampleStates, Alone(c)
      PROVE  /\ collecting'[s] = c
             /\ \A t \in Samplers \ {s} : collecting'[t] \notin Process!CPUPercent
             /\ \A t, u \in Samplers :
                  collecting'[t] \in Process!CPUPercent /\ collecting'[u] \in Process!CPUPercent => t = u
             /\ \A t \in Samplers \ {s} : collecting'[t] \notin {"check", "first", "compare", "store"}
             /\ \A t \in Samplers \ {s} : collecting[t] \notin {"check", "first", "compare", "store"}
  <2>1. collecting'[s] = c /\ \A t \in Samplers \ {s} : collecting'[t] = collecting[t]
    BY <1>1, <1>5
  <2>2. \A t \in Samplers \ {s} : collecting[t] \notin Process!CPUPercent /\ collecting'[t] \notin Process!CPUPercent
    BY <1>5, <2>1
  <2>3. QED
    BY <2>1, <2>2 DEF Process!CPUPercent
<1>6. CASE Process!CPUPercentReads(s) /\ ~UNCHANGED <<collecting, crossed>>
  <2>1. /\ collecting[s] = "collect" /\ cpuTimes' = [cpuTimes EXCEPT ![s] = read]
        /\ UNCHANGED <<lastCPUTimes, reported>>
        /\ read # -1 /\ collecting' = [collecting EXCEPT ![s] = "check"]
        /\ crossed' = (crossed \/ \E t \in Samplers \ {s} : collecting[t] \in Process!CPUPercent)
    BY <1>6 DEF Process!CPUPercentReads, Process!nil
  <2>2. Alone("check")
    BY <2>1
  <2>3. cpuTimes'[s] = used
    BY <1>1, <2>1
  <2> HIDE DEF read, used, Alone
  <2>4. /\ collecting'[s] = "check"
        /\ \A t, u \in Samplers :
             collecting'[t] \in Process!CPUPercent /\ collecting'[u] \in Process!CPUPercent => t = u
        /\ \A t \in Samplers \ {s} : collecting'[t] \notin {"check", "first", "compare", "store"}
        /\ \A t \in Samplers \ {s} : collecting[t] \notin {"check", "first", "compare", "store"}
    BY <1>5, <2>2 DEF SampleStates
  <2>5. IF lastCPUTimes = -1 THEN reported = 0 ELSE reported <= lastCPUTimes /\ lastCPUTimes <= used
    BY <1>3, <2>1, <2>4
  <2>6. lastCPUTimes <= used
    BY <1>1, <2>5 DEF Times
  <2>7. used' = used
    BY <1>2 DEF used
  <2>8. \A t \in Samplers :
          /\ collecting'[t] \in {"check", "compare"} => lastCPUTimes' <= cpuTimes'[t] /\ cpuTimes'[t] <= used
          /\ collecting'[t] = "first" => lastCPUTimes' = -1
          /\ collecting'[t] = "store" =>
               IF cpuTimes'[t] = -1 THEN reported' = 0
               ELSE reported' <= cpuTimes'[t] /\ cpuTimes'[t] <= used
    BY <1>1, <2>1, <2>3, <2>4, <2>6
  <2>9. QED
    BY <2>1, <2>4, <2>5, <2>7, <2>8 DEF Uncrossed, used
<1>7. CASE ~Process!CPUPercentReads(s)
  <2>1. PICK c \in {"collect", "first", "compare", "store"} :
          /\ collecting[s] \in Process!CPUPercent
          /\ collecting' = [collecting EXCEPT ![s] = c]
    BY <1>7 DEF Process!CPUPercentChecks, Process!CPUPercentFirst, Process!CPUPercentCompares,
                Process!CPUPercentStores, Process!CPUPercent
  <2>2. Alone(c) /\ c \in SampleStates
    BY <1>3, <2>1 DEF SampleStates
  <2>3. /\ collecting'[s] = c
        /\ \A t, u \in Samplers :
             collecting'[t] \in Process!CPUPercent /\ collecting'[u] \in Process!CPUPercent => t = u
        /\ \A t \in Samplers \ {s} : collecting'[t] \notin {"check", "first", "compare", "store"}
        /\ \A t \in Samplers \ {s} : collecting[t] \notin {"check", "first", "compare", "store"}
    <3> HIDE DEF Alone
    <3>1. QED
      BY <1>5, <2>2
  <2> DEFINE Mine(last, times, all) ==
               /\ c \in {"check", "compare"} => last <= times /\ times <= used
               /\ c = "first" => last = -1
               /\ c = "store" => IF times = -1 THEN all = 0 ELSE all <= times /\ times <= used
               /\ c # "store" => IF last = -1 THEN all = 0 ELSE all <= last /\ last <= used
  <2>4. SUFFICES Mine(lastCPUTimes', cpuTimes'[s], reported')
    <3>1. used' = used
      BY <1>2
    <3> HIDE DEF used, Alone
    <3>2. QED
      BY <2>3, <2>4, <3>1 DEF Uncrossed, used
  <2>5. /\ collecting[s] \in {"check", "compare"} => lastCPUTimes <= cpuTimes[s] /\ cpuTimes[s] <= used
        /\ collecting[s] = "first" => lastCPUTimes = -1
        /\ collecting[s] = "store" =>
             IF cpuTimes[s] = -1 THEN reported = 0 ELSE reported <= cpuTimes[s] /\ cpuTimes[s] <= used
        /\ collecting[s] # "store" =>
             IF lastCPUTimes = -1 THEN reported = 0 ELSE reported <= lastCPUTimes /\ lastCPUTimes <= used
    BY <1>3, <2>3
  <2>6. cpuTimes[s] \in Times
    BY <1>1
  <2>7. CASE Process!CPUPercentChecks(s)
    <3>1. /\ collecting[s] = "check" /\ collecting' = [collecting EXCEPT ![s] = IF lastCPUTimes = -1 THEN "first" ELSE "compare"]
          /\ UNCHANGED <<lastCPUTimes, cpuTimes, reported>>
      BY <2>7 DEF Process!CPUPercentChecks, Process!nil
    <3>2. c = IF lastCPUTimes = -1 THEN "first" ELSE "compare"
      BY <1>1, <2>3, <3>1
    <3> HIDE DEF used
    <3>3. QED
      BY <2>5, <3>1, <3>2
  <2>8. CASE Process!CPUPercentFirst(s)
    <3>1. /\ collecting[s] = "first" /\ collecting' = [collecting EXCEPT ![s] = "store"]
          /\ cpuTimes' = [cpuTimes EXCEPT ![s] = read] /\ UNCHANGED <<lastCPUTimes, reported>>
      BY <2>8 DEF Process!CPUPercentFirst
    <3>2. c = "store" /\ cpuTimes'[s] = read
      BY <1>1, <2>3, <3>1
    <3> HIDE DEF used, read
    <3>3. QED
      BY <1>1, <2>5, <3>1, <3>2
  <2>9. CASE Process!CPUPercentCompares(s)
    <3>1. /\ collecting[s] = "compare" /\ UNCHANGED <<lastCPUTimes, cpuTimes>>
          /\ \/ /\ lastCPUTimes = -1 /\ reported' = reported
                /\ collecting' = [collecting EXCEPT ![s] = "collect"]
             \/ /\ lastCPUTimes # -1 /\ reported' = reported + (cpuTimes[s] - lastCPUTimes)
                /\ collecting' = [collecting EXCEPT ![s] = "store"]
      BY <2>9 DEF Process!CPUPercentCompares, Process!nil
    <3>2. \/ c = "collect" /\ lastCPUTimes = -1 /\ reported' = reported
          \/ c = "store" /\ lastCPUTimes # -1 /\ reported' = reported + (cpuTimes[s] - lastCPUTimes)
      BY <1>1, <2>3, <3>1
    <3> HIDE DEF used, read
    <3>3. QED
      BY <1>1, <2>5, <2>6, <3>1, <3>2 DEF Times
  <2>10. CASE Process!CPUPercentStores(s)
    <3>1. /\ collecting[s] = "store" /\ collecting' = [collecting EXCEPT ![s] = "collect"]
          /\ lastCPUTimes' = cpuTimes[s] /\ UNCHANGED <<cpuTimes, reported>>
      BY <2>10 DEF Process!CPUPercentStores, Process!Stored
    <3>2. c = "collect"
      BY <1>1, <2>3, <3>1
    <3> HIDE DEF used, read
    <3>3. QED
      BY <2>5, <3>1, <3>2
  <2>11. QED
    BY <1>7, <2>7, <2>8, <2>9, <2>10
<1>8. QED
  BY <1>4, <1>6, <1>7

LEMMA SampleStep == SampleInv /\ [Process!Next]_sampleVars => SampleInv'
<1> SUFFICES ASSUME SampleInv, [Process!Next]_sampleVars PROVE SampleInv'
  OBVIOUS
<1>1. ASSUME NEW s \in Samplers, Process!collectSample(s)
      PROVE  SampleInv'
  BY <1>1, SampleStarts
<1>2. ASSUME NEW s \in Samplers, Process!aggregateStatForProc(s)
      PROVE  SampleInv'
  BY <1>2, FigureAdded
<1>3. ASSUME NEW s \in Samplers, Process!CallPgrep(s) \/ Process!Children(s) \/ Process!Publish(s)
      PROVE  SampleInv'
  BY <1>3, ChildrenFound
<1>4. ASSUME NEW s \in Samplers,
             \/ Process!CPUPercentReads(s) \/ Process!CPUPercentChecks(s) \/ Process!CPUPercentFirst(s)
             \/ Process!CPUPercentCompares(s) \/ Process!CPUPercentStores(s)
      PROVE  SampleInv'
  BY <1>4, CallGoesOn, CallsCount DEF SampleInv
<1>5. ASSUME NEW p \in Process!Procs, Process!Work(p) \/ Process!Exit(p)
      PROVE  SampleInv'
  BY <1>5, ProcessesGoOn
<1>6. CASE UNCHANGED sampleVars
  BY <1>6 DEF sampleVars, SampleInv, SampleTypeOK, Collected, CollectedBy, Uncrossed
<1>7. QED
  BY <1>1, <1>2, <1>3, <1>4, <1>5, <1>6, Zenon DEF Process!Next

(* Whatever a process does while samples are taken, one beside the other   *)
(* (process_stats.go): a figure that fails costs no other, and as long as  *)
(* no two calls of CPUPercent have crossed the leader's CPU use is in the  *)
(* samples once, no more of it than there was.                             *)
THEOREM SamplesStand == Spec => []SampleStands
<1>1. SampleInv /\ [Next \/ Ends]_vars => SampleInv'
  <2>1. [Next \/ Ends]_vars => [Process!Next]_sampleVars
    <3>1. CASE Next
      BY <3>1, Zenon DEF Next
    <3>2. CASE Ends \/ UNCHANGED vars
      BY <3>2, Zenon DEF Ends, vars
    <3>3. QED
      BY <3>1, <3>2
  <2>2. QED
    BY <2>1, SampleStep
<1>2. SampleInv => SampleStands
  <2> SUFFICES ASSUME SampleInv PROVE SampleStands
    OBVIOUS
  <2> USE DEF SampleInv
  <2>1. Process!OthersSurvive
    <3> SUFFICES ASSUME NEW s \in Samplers, collecting[s] = "done", NEW p \in Process!Range(pids[s]) \cap steady[s]
                 PROVE  <<"NumThreads", p>> \in stat[s] /\ <<"IOCounters", p>> \in stat[s]
      BY DEF Process!OthersSurvive
    <3>1. PICK i \in DOMAIN pids[s] : pids[s][i] = p
      BY DEF Process!Range
    <3>2. pids[s] \in Seq(Process!Procs) /\ at[s] \in (Nat \ {0}) \X (1..6)
      BY DEF SampleTypeOK
    <3>3. CollectedBy(s)
      BY DEF Collected
    <3>4. i < at[s][1]
      BY <3>1, <3>2, <3>3 DEF CollectedBy
    <3>5. QED
      BY <3>1, <3>3, <3>4 DEF CollectedBy
  <2>2. Process!ReportedOnceUncrossed
    <3> SUFFICES ASSUME ~crossed PROVE reported <= os[Leader].cpu
      BY DEF Process!ReportedOnceUncrossed, Process!UseReportedOnce
    <3>1. /\ lastCPUTimes \in Times /\ cpuTimes \in [Samplers -> Times]
          /\ os[Leader].cpu \in Nat /\ reported \in Int
      BY DEF SampleTypeOK, Process!Procs
    <3>2. CASE \E s \in Samplers : collecting[s] = "store"
      <4>1. PICK s \in Samplers : collecting[s] = "store"
        BY <3>2
      <4>2. cpuTimes[s] \in Times
        BY <3>1
      <4>3. IF cpuTimes[s] = -1 THEN reported = 0 ELSE reported <= cpuTimes[s] /\ cpuTimes[s] <= os[Leader].cpu
        BY <4>1 DEF Uncrossed
      <4>4. QED
        BY <3>1, <4>2, <4>3 DEF Times
    <3>3. CASE \A s \in Samplers : collecting[s] # "store"
      <4>1. IF lastCPUTimes = -1 THEN reported = 0 ELSE reported <= lastCPUTimes /\ lastCPUTimes <= os[Leader].cpu
        BY <3>3 DEF Uncrossed
      <4>2. QED
        BY <3>1, <4>1 DEF Times
    <3>4. QED
      BY <3>2, <3>3
  <2>3. QED
    BY <2>1, <2>2 DEF SampleStands, Process!SampleStands
<1>3. QED
  BY SampleInit, <1>1, <1>2, PTL DEF Spec

-----------------------------------------------------------------------------
(* Publisher confirms *)

LEMMA SameCount ==
  ASSUME NEW S
  PROVE  Confirming!Cardinality(S) = Cardinality(S)
BY Zenon DEF Confirming!Cardinality, Cardinality

(* A finite set of numbers can be listed in order: the place of a number   *)
(* is how many there are up to it.                                         *)
LEMMA Ascending ==
  ASSUME NEW T \in SUBSET Nat, IsFiniteSet(T)
  PROVE  \E s \in [1..Cardinality(T) -> T] :
           \A i, j \in 1..Cardinality(T) : i < j => s[i] < s[j]
<1> DEFINE n == Cardinality(T)
           Below(x) == {y \in T : y <= x}
           rank == [x \in T |-> Cardinality(Below(x))]
<1>1. n \in Nat /\ IsFiniteSet(1..n) /\ Cardinality(1..n) = n
  BY FS_CardinalityType, FS_Interval
<1>2. \A x \in T : Cardinality(Below(x)) \in 1..n
  <2>1. TAKE x \in T
  <2>2. IsFiniteSet(Below(x)) /\ Cardinality(Below(x)) <= n /\ Cardinality(Below(x)) \in Nat
    BY FS_Subset, FS_CardinalityType
  <2>3. x \in Below(x)
    OBVIOUS
  <2>4. Cardinality(Below(x)) # 0
    BY <2>2, <2>3, FS_EmptySet
  <2> HIDE DEF n, Below
  <2>5. QED
    BY <1>1, <2>2, <2>4
<1>3. \A x, y \in T : x < y => rank[x] < rank[y]
  <2>1. TAKE x, y \in T
  <2>2. HAVE x < y
  <2>a. x \in Nat /\ y \in Nat /\ T \subseteq Nat
    OBVIOUS
  <2>3. Below(x) \subseteq Below(y) /\ y \in Below(y) /\ y \notin Below(x)
    <3>1. \A z \in Nat : z <= x => z <= y
      BY <2>2, <2>a
    <3>2. y <= y /\ ~(y <= x)
      BY <2>2, <2>a
    <3>3. QED
      BY <2>a, <3>1, <3>2, Zenon
  <2>4. IsFiniteSet(Below(y))
    BY FS_Subset
  <2>5. Cardinality(Below(x)) \in 1..n /\ Cardinality(Below(y)) \in 1..n
    BY <1>2
  <2>6. rank[x] = Cardinality(Below(x)) /\ rank[y] = Cardinality(Below(y))
    OBVIOUS
  <2> HIDE DEF n, Below, rank
  <2>7. Cardinality(Below(x)) <= Cardinality(Below(y)) /\ Cardinality(Below(x)) # Cardinality(Below(y))
    BY <2>3, <2>4, FS_Subset
  <2>8. QED
    BY <1>1, <2>5, <2>6, <2>7
<1>4. rank \in [T -> 1..n]
  BY <1>2
<1> HIDE DEF n, rank, Below
<1>5. rank \in Injection(T, 1..n)
  <2>1. \A x, y \in T : rank[x] = rank[y] => x = y
    BY <1>1, <1>3, <1>4
  <2>2. QED
    BY <1>4, <2>1, Zenon DEF Injection, IsInjective
<1>6. rank \in Surjection(T, 1..n)
  BY <1>1, <1>5, FS_Injection DEF n
<1>7. \A k \in 1..n : \E x \in T : rank[x] = k
  BY <1>6 DEF Surjection
<1> DEFINE s == [k \in 1..n |-> CHOOSE x \in T : rank[x] = k]
<1>8. s \in [1..n -> T] /\ \A k \in 1..n : rank[s[k]] = k
  BY <1>7
<1>9. \A i, j \in 1..n : i < j => s[i] < s[j]
  <2> HIDE DEF s
  <2>1. TAKE i, j \in 1..n
  <2>2. HAVE i < j
  <2>3. s[i] \in T /\ s[j] \in T /\ rank[s[i]] = i /\ rank[s[j]] = j
    BY <1>8
  <2> DEFINE a == s[i]
             b == s[j]
  <2>a. a \in Nat /\ b \in Nat
    BY <2>3, Zenon
  <2>b. i \in Nat /\ j \in Nat
    BY <1>1
  <2>4. a \in Nat /\ b \in Nat /\ i \in Nat /\ j \in Nat
    BY <2>a, <2>b, Zenon
  <2>5. b < a => rank[b] < rank[a]
    BY <1>3, <2>3
  <2>6. a # b
    BY <2>2, <2>3, <2>4
  <2> HIDE DEF a, b
  <2>7. ~(b < a)
    BY <2>2, <2>3, <2>4, <2>5 DEF a, b
  <2>8. a < b
    BY <2>4, <2>6, <2>7
  <2>9. QED
    BY <2>8 DEF a, b
<1> HIDE DEF s
<1>10. QED
  BY <1>8, <1>9 DEF n

Verdicts == {"ack", "nack"}

(* The numbers up to one, in order, each with the verdict.                 *)
LEMMA ListedInOrder ==
  ASSUME NEW T \in SUBSET Nat, IsFiniteSet(T), NEW v \in Verdicts
  PROVE  /\ Confirming!InOrder(T, v) \in Seq(T \X Verdicts)
         /\ \A i, j \in DOMAIN Confirming!InOrder(T, v) :
              Confirming!InOrder(T, v)[i][1] = Confirming!InOrder(T, v)[j][1] => i = j
<1> DEFINE n == Cardinality(T)
           m == Confirming!Cardinality(T)
           Good(l) == \A i, j \in DOMAIN l : i < j => l[i][1] < l[j][1]
           list == Confirming!InOrder(T, v)
<1>1. n \in Nat /\ m = n
  BY FS_CardinalityType, SameCount
<1>2. PICK s \in [1..n -> T] : \A i, j \in 1..n : i < j => s[i] < s[j]
  BY Ascending
<1>3. \E l \in [1..n -> T \X {v}] : Good(l)
  <2> DEFINE l == [k \in 1..n |-> <<s[k], v>>]
  <2> HIDE DEF n
  <2>1. l \in [1..n -> T \X {v}]
    BY <1>2
  <2>2. DOMAIN l = 1..n /\ \A k \in 1..n : l[k][1] = s[k]
    OBVIOUS
  <2>3. Good(l)
    <3> HIDE DEF l
    <3>1. QED
      BY <1>2, <2>2
  <2>4. QED
    BY <2>1, <2>3
<1>4. list \in [1..m -> T \X {v}] /\ Good(list)
  <2>1. \E l \in [1..m -> T \X {v}] : Good(l)
    <3> HIDE DEF n, m, Good
    <3>1. QED
      BY <1>1, <1>3
  <2>2. QED
    BY <2>1, Zenon DEF Confirming!InOrder
<1>5. list \in [1..n -> T \X {v}] /\ Good(list)
  <2> HIDE DEF n, m, list, Good
  <2>1. QED
    BY <1>1, <1>4
<1>6. \A i, j \in 1..n : i < j => list[i][1] < list[j][1]
  <2> HIDE DEF n, list
  <2>1. DOMAIN list = 1..n
    BY <1>5
  <2>2. QED
    BY <1>5, <2>1
<1> HIDE DEF n, list, m, Good
<1>7. list \in Seq(T \X Verdicts) /\ DOMAIN list = 1..n
  BY <1>1, <1>5
<1>8. \A i, j \in 1..n : list[i][1] = list[j][1] => i = j
  <2>1. TAKE i, j \in 1..n
  <2>2. list[i][1] \in Nat /\ list[j][1] \in Nat
    BY <1>5
  <2>3. QED
    BY <1>1, <1>6, <2>2
<1>9. QED
  BY <1>7, <1>8 DEF list

ConfirmsTypeOK ==
  /\ confirming \in BOOLEAN /\ panicked = FALSE /\ selected = 0
  /\ publishCounter \in 0..MaxPublished
  /\ confirms \subseteq 1..publishCounter /\ outstanding \subseteq confirms
  /\ serverTag \in [1..MaxPublished -> Nat] /\ \A p \in 1..publishCounter : serverTag[p] = p
  /\ answers \in Seq([tag : Nat, multiple : BOOLEAN, verdict : Verdicts])
  /\ notified \in Seq(Nat \X Verdicts)

(* Every publishing in the heap that the server no longer owes an answer   *)
(* is answered by one under way, and no answer under way makes a later one *)
(* or one the server still owes unknown.                                   *)
AnswersKnown ==
  /\ ~confirming => publishCounter = 0
  /\ \A i \in DOMAIN answers :
       /\ answers[i].tag \in confirms \ outstanding
       /\ answers[i].multiple => \A p \in outstanding : p > answers[i].tag
       /\ \A j \in DOMAIN answers : i < j =>
            /\ answers[i].tag # answers[j].tag
            /\ answers[i].multiple => answers[j].tag > answers[i].tag
  /\ \A p \in confirms \ outstanding : \E i \in DOMAIN answers :
       p = answers[i].tag \/ (answers[i].multiple /\ p <= answers[i].tag)

(* What was confirmed was published, is no longer in the heap, and was not *)
(* confirmed before.                                                       *)
NotifiedOnce ==
  \A i \in DOMAIN notified :
    /\ notified[i][1] \in (1..publishCounter) \ confirms
    /\ \A j \in DOMAIN notified : notified[i][1] = notified[j][1] => i = j

ConfirmsInv == ConfirmsTypeOK /\ AnswersKnown /\ NotifiedOnce

LEMMA ConfirmsInit == Init => ConfirmsInv
<1> SUFFICES ASSUME Init PROVE ConfirmsInv
  OBVIOUS
<1>1. Confirming!Init
  BY Zenon DEF Init
<1> USE <1>1 DEF Confirming!Init
<1>2. ConfirmsTypeOK
  <2>1. publishCounter = 0 /\ MaxPublished \in Nat
    BY ConfirmsAssumption DEF Confirming!ConfirmsAssumption
  <2>2. publishCounter \in 0..MaxPublished /\ \A p \in 1..publishCounter : FALSE
    BY <2>1
  <2>3. serverTag \in [1..MaxPublished -> Nat]
    BY DEF Confirming!Publishings
  <2>4. answers = <<>> /\ notified = <<>>
    OBVIOUS
  <2>5. answers \in Seq([tag : Nat, multiple : BOOLEAN, verdict : Verdicts]) /\ notified \in Seq(Nat \X Verdicts)
    BY <2>4
  <2>6. /\ confirming \in BOOLEAN /\ panicked = FALSE /\ selected = 0
        /\ confirms \subseteq 1..publishCounter /\ outstanding \subseteq confirms
    OBVIOUS
  <2>7. QED
    BY <2>2, <2>3, <2>5, <2>6, Zenon DEF ConfirmsTypeOK
<1>3. AnswersKnown
  BY DEF AnswersKnown
<1>4. NotifiedOnce
  BY DEF NotifiedOnce
<1>5. QED
  BY <1>2, <1>3, <1>4 DEF ConfirmsInv

(* The places of a queue when its head is taken, and of two lists joined.  *)
LEMMA HeadAndTail ==
  ASSUME NEW S, NEW q \in Seq(S), q # <<>>
  PROVE  /\ Head(q) = q[1] /\ 1 \in DOMAIN q /\ Head(q) \in S /\ Tail(q) \in Seq(S)
         /\ \A i \in DOMAIN Tail(q) : /\ i \in Nat /\ i + 1 \in DOMAIN q /\ 1 < i + 1
                                     /\ Tail(q)[i] = q[i+1]
         /\ \A i \in DOMAIN q : i = 1 \/ \E j \in DOMAIN Tail(q) : i = j + 1 /\ Tail(q)[j] = q[i]
<1> DEFINE n == Len(q)
<1>1. n \in Nat /\ n # 0 /\ DOMAIN q = 1..n /\ Tail(q) \in Seq(S) /\ Len(Tail(q)) = n - 1 /\ DOMAIN Tail(q) = 1..(n-1)
  OBVIOUS
<1>2. \A i \in 1..(n-1) : Tail(q)[i] = q[i+1]
  OBVIOUS
<1>3. Head(q) = q[1] /\ q[1] \in S
  OBVIOUS
<1> DEFINE t == Tail(q)
<1> HIDE DEF n, t
<1>4. \A i \in 1..(n-1) : i \in Nat /\ i + 1 \in 1..n /\ 1 < i + 1
  BY <1>1
<1>5. ASSUME NEW i \in 1..n, i # 1
      PROVE  \E j \in 1..(n-1) : i = j + 1 /\ t[j] = q[i]
  <2>1. i - 1 \in 1..(n-1) /\ i = (i - 1) + 1
    BY <1>1, <1>5
  <2>2. t[i-1] = q[(i-1)+1]
    BY <1>2, <2>1 DEF t
  <2>3. QED
    BY <2>1, <2>2
<1>6. 1 \in 1..n
  BY <1>1
<1>7. QED
  BY <1>1, <1>2, <1>3, <1>4, <1>5, <1>6 DEF t

(* A sequence over some things is one over more.                           *)
LEMMA WiderSeq ==
  ASSUME NEW S, NEW T, S \subseteq T, NEW q \in Seq(S)
  PROVE  q \in Seq(T)
OBVIOUS

(* An element of two sequences joined is one of the first or of the second. *)
LEMMA Joined ==
  ASSUME NEW S, NEW q \in Seq(S), NEW l \in Seq(S)
  PROVE  \A i \in DOMAIN (q \o l) :
           \/ i \in DOMAIN q /\ (q \o l)[i] = q[i]
           \/ \E k \in DOMAIN l : i = Len(q) + k /\ (q \o l)[i] = l[k]
<1> DEFINE n == Len(q)
           m == Len(l)
<1>1. n \in Nat /\ m \in Nat /\ DOMAIN q = 1..n /\ DOMAIN l = 1..m /\ DOMAIN (q \o l) = 1..(n+m)
  OBVIOUS
<1>2. \A i \in 1..(n+m) : (q \o l)[i] = IF i <= n THEN q[i] ELSE l[i-n]
  OBVIOUS
<1> DEFINE j == q \o l
<1> HIDE DEF n, m, j
<1>3. ASSUME NEW i \in 1..(n+m)
      PROVE  \/ i \in 1..n /\ j[i] = q[i]
             \/ \E k \in 1..m : i = n + k /\ j[i] = l[k]
  <2>1. CASE i <= n
    BY <1>1, <1>2, <2>1 DEF j
  <2>2. CASE ~(i <= n)
    <3>1. i - n \in 1..m /\ i = n + (i - n)
      BY <1>1, <2>2
    <3>2. j[i] = l[i-n]
      BY <1>2, <2>2 DEF j
    <3>3. QED
      BY <3>1, <3>2
  <2>3. QED
    BY <2>1, <2>2
<1>4. QED
  BY <1>1, <1>3 DEF j, n

(* An answer removes from the heap what it confirms, each once, and leaves *)
(* what the others under way are about.                                    *)
LEMMA AnswerRead ==
  ASSUME ConfirmsInv, Confirming!dispatchAnswer
  PROVE  ConfirmsInv'
<1> DEFINE a == Head(answers)
           gone == IF a.multiple THEN Confirming!Upto(a.tag) ELSE {a.tag}
           list == IF a.multiple THEN Confirming!InOrder(Confirming!Upto(a.tag), a.verdict)
                                 ELSE <<<<a.tag, a.verdict>>>>
<1>1. ConfirmsTypeOK /\ AnswersKnown /\ NotifiedOnce
  BY DEF ConfirmsInv
<1>2. /\ answers # <<>> /\ answers' = Tail(answers)
      /\ UNCHANGED <<confirming, publishCounter, selected, outstanding, serverTag>>
      /\ IF a.multiple THEN Confirming!confimMultiple(a.tag, a.verdict)
                       ELSE Confirming!confimOne(a.tag, a.verdict)
  BY Zenon DEF Confirming!dispatchAnswer
<1>3. answers \in Seq([tag : Nat, multiple : BOOLEAN, verdict : Verdicts])
  BY <1>1 DEF ConfirmsTypeOK
<1>4. /\ a = answers[1] /\ 1 \in DOMAIN answers
      /\ a \in [tag : Nat, multiple : BOOLEAN, verdict : Verdicts]
      /\ answers' \in Seq([tag : Nat, multiple : BOOLEAN, verdict : Verdicts])
  BY <1>2, <1>3, HeadAndTail
<1>5. a.tag \in Nat /\ a.multiple \in BOOLEAN /\ a.verdict \in Verdicts
  <2> HIDE DEF a
  <2>1. QED
    BY <1>4
<1>6. \A i \in DOMAIN answers' : i \in Nat /\ i + 1 \in DOMAIN answers /\ answers'[i] = answers[i+1] /\ 1 < i + 1
  BY <1>2, <1>3, HeadAndTail
<1>7. \A i \in DOMAIN answers : i = 1 \/ \E j \in DOMAIN answers' : i = j + 1 /\ answers'[j] = answers[i]
  BY <1>2, <1>3, HeadAndTail
<1>8. a.tag \in confirms \ outstanding
  BY <1>1, <1>4 DEF AnswersKnown
<1>9. confirms \subseteq Nat /\ IsFiniteSet(confirms)
  <2>1. publishCounter \in Nat /\ confirms \subseteq 1..publishCounter
    BY <1>1 DEF ConfirmsTypeOK
  <2>2. IsFiniteSet(1..publishCounter)
    BY <2>1, FS_Interval
  <2>3. confirms \in SUBSET (1..publishCounter) /\ 1..publishCounter \subseteq Nat
    BY <2>1
  <2>4. QED
    BY <2>2, <2>3, FS_Subset
<1>10. /\ notified' = notified \o list /\ confirms' = confirms \ gone /\ UNCHANGED panicked
       /\ list \in Seq(gone \X Verdicts)
       /\ \A i, j \in DOMAIN list : list[i][1] = list[j][1] => i = j
  <2>1. CASE a.multiple
    <3> DEFINE T == Confirming!Upto(a.tag)
    <3>1. notified' = notified \o Confirming!InOrder(T, a.verdict) /\ confirms' = confirms \ T /\ UNCHANGED panicked
      BY <1>2, <1>8, <2>1, Zenon DEF Confirming!confimMultiple
    <3>2. T \subseteq confirms
      BY DEF Confirming!Upto
    <3>3. T \in SUBSET Nat /\ IsFiniteSet(T)
      BY <1>9, <3>2, FS_Subset, Zenon
    <3>4. gone = T /\ list = Confirming!InOrder(T, a.verdict)
      BY <2>1
    <3> HIDE DEF gone, list, T, a
    <3>5. /\ Confirming!InOrder(T, a.verdict) \in Seq(T \X Verdicts)
          /\ \A i, j \in DOMAIN Confirming!InOrder(T, a.verdict) :
               Confirming!InOrder(T, a.verdict)[i][1] = Confirming!InOrder(T, a.verdict)[j][1] => i = j
      BY <1>5, <3>3, ListedInOrder
    <3>6. QED
      BY <3>1, <3>4, <3>5, Zenon
  <2>2. CASE ~a.multiple
    <3>1. /\ notified' = Append(notified, <<a.tag, a.verdict>>) /\ confirms' = confirms \ {a.tag}
          /\ UNCHANGED panicked
      BY <1>2, <1>8, <2>2, Zenon DEF Confirming!confimOne
    <3>2. notified \in Seq(Nat \X Verdicts)
      BY <1>1 DEF ConfirmsTypeOK
    <3>3. gone = {a.tag} /\ list = <<<<a.tag, a.verdict>>>>
      BY <2>2
    <3> DEFINE t == a.tag
               v == a.verdict
    <3>4. t \in Nat /\ v \in Verdicts
      BY <1>5
    <3> HIDE DEF gone, list, t, v
    <3>5. <<<<t, v>>>> \in Seq({t} \X Verdicts) /\ Append(notified, <<t, v>>) = notified \o <<<<t, v>>>>
      <4> DEFINE e == <<t, v>>
      <4>1. e \in {t} \X Verdicts /\ e \in Nat \X Verdicts
        BY <3>4
      <4> HIDE DEF e
      <4>2. <<e>> \in Seq({t} \X Verdicts)
        BY <4>1
      <4>3. Append(notified, e) = notified \o <<e>>
        BY <3>2, <4>1, AppendIsConcat
      <4>4. QED
        BY <4>2, <4>3 DEF e
    <3>7. \A i, j \in DOMAIN <<<<t, v>>>> : i = j
      <4>1. DOMAIN <<<<t, v>>>> = {1}
        BY DEF t, v
      <4>2. QED
        BY <4>1
    <3>6. QED
      BY <3>1, <3>3, <3>5, <3>7, Zenon DEF t, v
  <2>3. QED
    BY <1>5, <2>1, <2>2
<1>11. gone \subseteq confirms /\ gone \cap outstanding = {}
  <2>1. CASE a.multiple
    <3>1. \A p \in outstanding : p > a.tag
      BY <1>1, <1>4, <2>1 DEF AnswersKnown
    <3>2. gone \subseteq confirms /\ \A p \in gone : p <= a.tag
      BY <2>1 DEF Confirming!Upto
    <3>3. outstanding \subseteq Nat
      BY <1>1, <1>9 DEF ConfirmsTypeOK
    <3> HIDE DEF gone, a
    <3>4. \A p \in outstanding : ~(p <= a.tag)
      BY <1>5, <3>1, <3>3
    <3>5. QED
      BY <3>2, <3>4
  <2>2. CASE ~a.multiple
    BY <1>8, <2>2
  <2>3. QED
    BY <2>1, <2>2
<1>12. \A i \in DOMAIN answers' : answers'[i].tag \notin gone
  <2>1. TAKE i \in DOMAIN answers'
  <2>2. /\ a.tag # answers[i+1].tag
        /\ a.multiple => answers[i+1].tag > a.tag
        /\ answers[i+1].tag \in confirms
    BY <1>1, <1>4, <1>6 DEF AnswersKnown
  <2>3. CASE a.multiple
    <3>1. answers[i+1].tag > a.tag /\ answers[i+1].tag \in Nat
      BY <1>9, <2>2, <2>3
    <3>2. \A p \in gone : p <= a.tag
      BY <2>3 DEF Confirming!Upto
    <3>3. QED
      BY <1>5, <1>6, <3>1, <3>2
  <2>4. CASE ~a.multiple
    BY <1>6, <2>2, <2>4
  <2>5. QED
    BY <2>3, <2>4
<1>13. \A p \in confirms : p \notin gone => p # a.tag /\ ~(a.multiple /\ p <= a.tag)
  <2>1. CASE a.multiple
    <3>1. gone = {p \in confirms : p <= a.tag}
      BY <2>1 DEF Confirming!Upto
    <3>2. a.tag <= a.tag
      BY <1>5
    <3> HIDE DEF gone, a
    <3>3. QED
      BY <3>1, <3>2, Zenon
  <2>2. CASE ~a.multiple
    BY <2>2
  <2>3. QED
    BY <2>1, <2>2
<1>14. ConfirmsTypeOK'
  <2>1. notified' \in Seq(Nat \X Verdicts)
    <3>1. notified \in Seq(Nat \X Verdicts)
      BY <1>1 DEF ConfirmsTypeOK
    <3>2. gone \subseteq Nat
      BY <1>9, <1>11
    <3> HIDE DEF gone, list
    <3>3. list \in Seq(gone \X Verdicts) /\ gone \X Verdicts \subseteq Nat \X Verdicts
      BY <1>10, <3>2
    <3>4. list \in Seq(Nat \X Verdicts)
      BY <3>3, WiderSeq
    <3>5. QED
      BY <1>10, <3>1, <3>4
  <2> HIDE DEF gone, list, a
  <2>2. QED
    BY <1>1, <1>2, <1>4, <1>10, <1>11, <2>1 DEF ConfirmsTypeOK
<1>15. AnswersKnown'
  <2> HIDE DEF gone, list, a
  <2>1. ~confirming' => publishCounter' = 0
    BY <1>1, <1>2 DEF AnswersKnown
  <2>2. ASSUME NEW i \in DOMAIN answers'
        PROVE  /\ answers'[i].tag \in confirms' \ outstanding'
               /\ answers'[i].multiple => \A p \in outstanding' : p > answers'[i].tag
               /\ \A j \in DOMAIN answers' : i < j =>
                    /\ answers'[i].tag # answers'[j].tag
                    /\ answers'[i].multiple => answers'[j].tag > answers'[i].tag
    <3>1. /\ answers[i+1].tag \in confirms \ outstanding
          /\ answers[i+1].multiple => \A p \in outstanding : p > answers[i+1].tag
          /\ \A j \in DOMAIN answers : i + 1 < j =>
               /\ answers[i+1].tag # answers[j].tag
               /\ answers[i+1].multiple => answers[j].tag > answers[i+1].tag
      BY <1>1, <1>6 DEF AnswersKnown
    <3>2. answers'[i] = answers[i+1] /\ i \in Nat
      BY <1>6
    <3>3. \A j \in DOMAIN answers' : i < j => i + 1 < j + 1
      BY <1>6
    <3>4. answers'[i].tag \in confirms' \ outstanding'
      BY <1>2, <1>10, <1>12, <3>1, <3>2
    <3>5. answers'[i].multiple => \A p \in outstanding' : p > answers'[i].tag
      BY <1>2, <3>1, <3>2
    <3>6. ASSUME NEW j \in DOMAIN answers', i < j
          PROVE  /\ answers'[i].tag # answers'[j].tag
                 /\ answers'[i].multiple => answers'[j].tag > answers'[i].tag
      <4>1. i + 1 < j + 1 /\ j + 1 \in DOMAIN answers /\ answers'[j] = answers[j+1]
        BY <1>6, <3>3, <3>6
      <4>2. QED
        BY <3>1, <3>2, <4>1, Zenon
    <3>7. QED
      BY <3>4, <3>5, <3>6
  <2>3. ASSUME NEW p \in confirms' \ outstanding'
        PROVE  \E i \in DOMAIN answers' :
                 p = answers'[i].tag \/ (answers'[i].multiple /\ p <= answers'[i].tag)
    <3>1. p \in confirms \ outstanding /\ p \notin gone
      BY <1>2, <1>10, <2>3
    <3>2. PICK i \in DOMAIN answers : p = answers[i].tag \/ (answers[i].multiple /\ p <= answers[i].tag)
      BY <1>1, <3>1 DEF AnswersKnown
    <3>3. i # 1
      BY <1>4, <1>13, <3>1, <3>2
    <3>4. QED
      BY <1>7, <3>2, <3>3
  <2>4. QED
    BY <2>1, <2>2, <2>3, Zenon DEF AnswersKnown
<1>16. NotifiedOnce'
  <2> HIDE DEF gone, list, a
  <2> DEFINE m == Len(notified)
  <2>1. notified \in Seq(Nat \X Verdicts) /\ m \in Nat /\ DOMAIN notified = 1..m /\ confirms \subseteq 1..publishCounter
    BY <1>1 DEF ConfirmsTypeOK
  <2>2. \A i \in DOMAIN notified' :
          \/ i \in DOMAIN notified /\ notified'[i] = notified[i]
          \/ \E k \in DOMAIN list : i = m + k /\ notified'[i] = list[k]
    <3>1. list \in Seq(gone \X Verdicts) /\ gone \X Verdicts \subseteq Nat \X Verdicts
      BY <1>9, <1>10, <1>11
    <3>2. list \in Seq(Nat \X Verdicts)
      BY <3>1, WiderSeq
    <3>3. \A i \in DOMAIN (notified \o list) :
            \/ i \in DOMAIN notified /\ (notified \o list)[i] = notified[i]
            \/ \E k \in DOMAIN list : i = Len(notified) + k /\ (notified \o list)[i] = list[k]
      <4> DEFINE S == Nat \X Verdicts
      <4>1. notified \in Seq(S) /\ list \in Seq(S)
        BY <2>1, <3>2
      <4> HIDE DEF m, S
      <4>2. QED
        BY <4>1, Joined
    <3>4. notified' = notified \o list
      BY <1>10
    <3>5. QED
      BY <3>3, <3>4, Zenon
  <2>3. \A k \in DOMAIN list : list[k][1] \in gone
    BY <1>10
  <2>4. ASSUME NEW i \in DOMAIN notified'
        PROVE  /\ notified'[i][1] \in (1..publishCounter) \ confirms'
               /\ \A j \in DOMAIN notified' : notified'[i][1] = notified'[j][1] => i = j
    <3>1. CASE i \in DOMAIN notified /\ notified'[i] = notified[i]
      <4>1. /\ notified[i][1] \in (1..publishCounter) \ confirms
            /\ \A j \in DOMAIN notified : notified[i][1] = notified[j][1] => i = j
        BY <1>1, <3>1 DEF NotifiedOnce
      <4>2. notified'[i][1] \notin gone
        BY <1>11, <3>1, <4>1
      <4>3. \A j \in DOMAIN notified' : notified'[i][1] = notified'[j][1] => i = j
        BY <2>2, <2>3, <3>1, <4>1, <4>2
      <4>4. QED
        BY <1>10, <3>1, <4>1, <4>3
    <3>2. CASE \E k \in DOMAIN list : i = m + k /\ notified'[i] = list[k]
      <4>1. PICK k \in DOMAIN list : i = m + k /\ notified'[i] = list[k]
        BY <3>2
      <4>2. list[k][1] \in gone
        BY <2>3
      <4>3. \A j \in DOMAIN notified : notified[j][1] \notin gone
        BY <1>1, <1>11 DEF NotifiedOnce
      <4>4. \A l \in DOMAIN list : list[k][1] = list[l][1] => k = l
        BY <1>10
      <4>5. \A j \in DOMAIN notified' : notified'[i][1] = notified'[j][1] => i = j
        BY <2>2, <4>1, <4>2, <4>3, <4>4
      <4>6. QED
        BY <1>10, <1>11, <2>1, <4>1, <4>2, <4>5
    <3>3. QED
      BY <2>2, <3>1, <3>2
  <2>5. QED
    BY <1>2, <2>4, Zenon DEF NotifiedOnce
<1>17. QED
  BY <1>14, <1>15, <1>16 DEF ConfirmsInv

LEMMA ConfirmsStep == ConfirmsInv /\ [Confirming!Next]_confirmsVars => ConfirmsInv'
<1> SUFFICES ASSUME ConfirmsInv, [Confirming!Next]_confirmsVars PROVE ConfirmsInv'
  OBVIOUS
<1>0. ConfirmsTypeOK /\ AnswersKnown /\ NotifiedOnce
  BY DEF ConfirmsInv
<1> DEFINE Record == [tag : Nat, multiple : BOOLEAN, verdict : Verdicts]
<1>1. CASE Confirming!Confirm
  <2>1. /\ ~confirming /\ confirming' = TRUE /\ confirms' = {} /\ selected' = publishCounter
        /\ UNCHANGED <<publishCounter, outstanding, serverTag, answers, notified, panicked>>
    BY <1>1 DEF Confirming!Confirm
  <2>2. publishCounter = 0 /\ confirms = {}
    <3>1. publishCounter = 0
      BY <1>0, <2>1 DEF AnswersKnown
    <3>2. QED
      BY <1>0, <3>1 DEF ConfirmsTypeOK
  <2>3. selected' = selected /\ confirms' = confirms
    BY <1>0, <2>1, <2>2 DEF ConfirmsTypeOK
  <2>4. ConfirmsTypeOK'
    BY <1>0, <2>1, <2>3 DEF ConfirmsTypeOK
  <2>5. AnswersKnown'
    BY <1>0, <2>1, <2>3 DEF AnswersKnown
  <2>6. NotifiedOnce'
    BY <1>0, <2>1, <2>3 DEF NotifiedOnce
  <2>7. QED
    BY <2>4, <2>5, <2>6 DEF ConfirmsInv
<1>2. CASE Confirming!Publish
  <2> DEFINE n == publishCounter + 1
  <2>1. /\ confirming /\ publishCounter < MaxPublished /\ publishCounter' = n
        /\ confirms' = confirms \cup {n} /\ outstanding' = outstanding \cup {n}
        /\ serverTag' = [serverTag EXCEPT ![n] = n - selected]
        /\ UNCHANGED <<confirming, selected, answers, notified, panicked>>
    BY <1>2, <1>0 DEF Confirming!Publish, ConfirmsTypeOK
  <2>2. /\ publishCounter \in Nat /\ n \in Nat /\ n \in 1..MaxPublished /\ n > publishCounter
        /\ MaxPublished \in Nat /\ \A p \in 1..n : p \in 1..publishCounter \/ p = n
        /\ n \notin 1..publishCounter /\ 1..publishCounter \subseteq 1..n /\ n \in 1..n
    BY <1>0, <2>1, ConfirmsAssumption DEF ConfirmsTypeOK, Confirming!ConfirmsAssumption
  <2>3. /\ confirms \subseteq 1..publishCounter /\ outstanding \subseteq confirms /\ selected = 0
        /\ serverTag \in [1..MaxPublished -> Nat] /\ \A p \in 1..publishCounter : serverTag[p] = p
        /\ answers \in Seq(Record) /\ notified \in Seq(Nat \X Verdicts)
        /\ panicked = FALSE /\ confirming \in BOOLEAN
    BY <1>0 DEF ConfirmsTypeOK
  <2>4. n - selected = n
    BY <2>2, <2>3
  <2> HIDE DEF n, Record
  <2>5. serverTag' \in [1..MaxPublished -> Nat] /\ \A p \in 1..n : serverTag'[p] = p
    <3>1. serverTag' = [serverTag EXCEPT ![n] = n]
      BY <2>1, <2>4
    <3>2. \A p \in 1..MaxPublished : serverTag'[p] = IF p = n THEN n ELSE serverTag[p]
      BY <2>3, <3>1
    <3>3. \A p \in 1..publishCounter : p \in 1..MaxPublished
      BY <2>1, <2>2
    <3>4. serverTag' \in [1..MaxPublished -> Nat]
      BY <2>2, <2>3, <3>1
    <3>5. QED
      BY <2>2, <2>3, <3>2, <3>3, <3>4
  <2>6. n \in 0..MaxPublished
    BY <2>2
  <2>7. confirms' \subseteq 1..n /\ outstanding' \subseteq confirms'
    BY <2>1, <2>2, <2>3
  <2>8. ConfirmsTypeOK'
    BY <2>1, <2>3, <2>5, <2>6, <2>7, Zenon DEF ConfirmsTypeOK, Record
  <2>9. AnswersKnown'
    <3>1. ASSUME NEW i \in DOMAIN answers
          PROVE  /\ answers[i].tag \in confirms' \ outstanding'
                 /\ answers[i].multiple => \A p \in outstanding' : p > answers[i].tag
                 /\ \A j \in DOMAIN answers : i < j =>
                      /\ answers[i].tag # answers[j].tag
                      /\ answers[i].multiple => answers[j].tag > answers[i].tag
      <4> DEFINE t == answers[i].tag
      <4>1. /\ t \in confirms \ outstanding
            /\ answers[i].multiple => \A p \in outstanding : p > t
            /\ \A j \in DOMAIN answers : i < j =>
                 /\ t # answers[j].tag
                 /\ answers[i].multiple => answers[j].tag > t
        BY <1>0 DEF AnswersKnown
      <4> HIDE DEF t
      <4>2. t \in 1..publishCounter
        BY <2>3, <4>1
      <4>3. n > t /\ t # n
        BY <2>2, <4>2
      <4>4. t \in confirms' \ outstanding'
        BY <2>1, <4>1, <4>3
      <4>5. answers[i].multiple => \A p \in outstanding' : p > t
        BY <2>1, <4>1, <4>3
      <4>6. QED
        BY <4>1, <4>4, <4>5 DEF t
    <3>2. confirms' \ outstanding' \subseteq confirms \ outstanding
      BY <2>1
    <3>3. \A p \in confirms \ outstanding : \E i \in DOMAIN answers :
            p = answers[i].tag \/ (answers[i].multiple /\ p <= answers[i].tag)
      BY <1>0 DEF AnswersKnown
    <3>4. QED
      BY <2>1, <3>1, <3>2, <3>3, Zenon DEF AnswersKnown
  <2>10. NotifiedOnce'
    BY <1>0, <2>1, <2>2 DEF NotifiedOnce
  <2>11. QED
    BY <2>8, <2>9, <2>10 DEF ConfirmsInv
<1>3. CASE Confirming!dispatchAnswer
  BY <1>3, AnswerRead
<1>4. ASSUME NEW p \in Confirming!Publishings, NEW multiple \in BOOLEAN, NEW verdict \in {"ack", "nack"},
             Confirming!Answer(p, multiple, verdict)
      PROVE  ConfirmsInv'
  <2> DEFINE new == [tag |-> p, multiple |-> multiple, verdict |-> verdict]
             settled == IF multiple THEN 1..p ELSE {p}
             m == Len(answers)
  <2>1. /\ confirms \subseteq 1..publishCounter /\ outstanding \subseteq confirms
        /\ \A q \in 1..publishCounter : serverTag[q] = q
        /\ answers \in Seq(Record) /\ publishCounter \in Nat
    BY <1>0 DEF ConfirmsTypeOK
  <2>2. /\ p \in outstanding /\ answers' = Append(answers, new) /\ outstanding' = outstanding \ settled
        /\ UNCHANGED <<confirming, confirms, publishCounter, selected, serverTag, notified, panicked>>
    <3>1. p \in outstanding /\ answers' = Append(answers, [tag |-> serverTag[p], multiple |-> multiple, verdict |-> verdict])
          /\ outstanding' = outstanding \ settled
          /\ UNCHANGED <<confirming, confirms, publishCounter, selected, serverTag, notified, panicked>>
      BY <1>4, Zenon DEF Confirming!Answer
    <3>2. serverTag[p] = p
      BY <2>1, <3>1
    <3>3. QED
      BY <3>1, <3>2, Zenon
  <2>3. new \in Record /\ new.tag = p /\ new.multiple = multiple /\ p \in Nat
    BY <2>1, <2>2 DEF Verdicts
  <2> HIDE DEF Record, new
  <2>4. /\ answers' \in Seq(Record) /\ m \in Nat /\ DOMAIN answers = 1..m /\ DOMAIN answers' = 1..(m+1)
        /\ \A i \in 1..m : answers'[i] = answers[i]
        /\ answers'[m+1] = new
    BY <2>1, <2>2, <2>3
  <2> HIDE DEF m, settled
  <2>5. ConfirmsTypeOK'
    <3>1. outstanding' \subseteq confirms
      BY <2>1, <2>2
    <3>2. QED
      BY <1>0, <2>2, <2>4, <3>1, Zenon DEF ConfirmsTypeOK, Record
  <2>6. AnswersKnown'
    <3>1. \A i \in 1..m :
            /\ answers[i].tag \in confirms \ outstanding
            /\ answers[i].multiple => \A q \in outstanding : q > answers[i].tag
            /\ \A j \in 1..m : i < j =>
                 /\ answers[i].tag # answers[j].tag
                 /\ answers[i].multiple => answers[j].tag > answers[i].tag
      BY <1>0, <2>4 DEF AnswersKnown
    <3>2. p \in settled /\ p \in confirms
      BY <2>1, <2>2, <2>3 DEF settled
    <3>3. multiple => \A q \in outstanding' : q > p
      <4>1. outstanding \subseteq Nat /\ 0 \notin outstanding
        BY <2>1
      <4>2. \A q \in Nat : q # 0 /\ q \notin 1..p => q > p
        BY <2>3
      <4>3. QED
        BY <2>2, <4>1, <4>2 DEF settled
    <3>4. \A i \in 1..m : i \in Nat /\ i < m + 1 /\ ~(m + 1 < i)
      BY <2>4
    <3>5. \A i \in 1..(m+1) : i \in 1..m \/ i = m + 1
      BY <2>4
    <3>6. ASSUME NEW i \in DOMAIN answers'
          PROVE  /\ answers'[i].tag \in confirms \ outstanding'
                 /\ answers'[i].multiple => \A q \in outstanding' : q > answers'[i].tag
                 /\ \A j \in DOMAIN answers' : i < j =>
                      /\ answers'[i].tag # answers'[j].tag
                      /\ answers'[i].multiple => answers'[j].tag > answers'[i].tag
      <4>1. CASE i \in 1..m
        <5>1. answers'[i] = answers[i]
          BY <2>4, <4>1
        <5>2. /\ answers[i].tag \in confirms \ outstanding'
              /\ answers[i].multiple => \A q \in outstanding' : q > answers[i].tag
          BY <2>2, <3>1, <4>1
        <5>3. /\ answers[i].tag # p
              /\ answers[i].multiple => p > answers[i].tag
          BY <2>2, <3>1, <4>1
        <5>4. ASSUME NEW j \in DOMAIN answers', i < j
              PROVE  /\ answers[i].tag # answers'[j].tag
                     /\ answers[i].multiple => answers'[j].tag > answers[i].tag
          <6>1. CASE j \in 1..m
            BY <2>4, <3>1, <4>1, <5>4, <6>1
          <6>2. CASE j = m + 1
            BY <2>3, <2>4, <5>3, <6>2
          <6>3. QED
            BY <2>4, <3>5, <6>1, <6>2
        <5>5. QED
          BY <5>1, <5>2, <5>4
      <4>2. CASE i = m + 1
        <5>1. answers'[i].tag = p /\ answers'[i].multiple = multiple
          BY <2>3, <2>4, <4>2
        <5>2. \A j \in DOMAIN answers' : ~(i < j)
          BY <2>4, <3>4, <3>5, <4>2
        <5>3. QED
          BY <2>2, <3>2, <3>3, <5>1, <5>2
      <4>3. QED
        BY <2>4, <3>5, <4>1, <4>2
    <3>7. ASSUME NEW q \in confirms \ outstanding'
          PROVE  \E i \in DOMAIN answers' :
                   q = answers'[i].tag \/ (answers'[i].multiple /\ q <= answers'[i].tag)
      <4>1. CASE q \in outstanding
        <5>1. q \in settled
          BY <2>2, <3>7, <4>1
        <5>2. q = p \/ (multiple /\ q <= p)
          BY <2>3, <5>1 DEF settled
        <5>3. m + 1 \in DOMAIN answers'
          BY <2>4
        <5>4. QED
          BY <2>3, <2>4, <5>2, <5>3
      <4>2. CASE q \notin outstanding
        <5>1. PICK i \in DOMAIN answers : q = answers[i].tag \/ (answers[i].multiple /\ q <= answers[i].tag)
          BY <1>0, <3>7, <4>2 DEF AnswersKnown
        <5>2. i \in DOMAIN answers' /\ answers'[i] = answers[i]
          BY <2>4, <3>4
        <5>3. QED
          BY <5>1, <5>2
      <4>3. QED
        BY <4>1, <4>2
    <3>8. ~confirming' => publishCounter' = 0
      BY <1>0, <2>2 DEF AnswersKnown
    <3>9. confirms' = confirms
      BY <2>2
    <3>10. QED
      BY <3>6, <3>7, <3>8, <3>9, Zenon DEF AnswersKnown
  <2>7. NotifiedOnce'
    BY <1>0, <2>2 DEF NotifiedOnce
  <2>8. QED
    BY <2>5, <2>6, <2>7 DEF ConfirmsInv
<1>5. CASE UNCHANGED confirmsVars
  BY <1>0, <1>5 DEF confirmsVars, ConfirmsInv, ConfirmsTypeOK, AnswersKnown, NotifiedOnce
<1>6. QED
  BY <1>1, <1>2, <1>3, <1>4, <1>5 DEF Confirming!Next

(* Publisher confirms (confirms.go, channel.go): however the server mixes  *)
(* single and multiple acks and nacks, a publishing is confirmed once and  *)
(* as answered, and the client knows every number it is sent.              *)
THEOREM PublishingsConfirmed == Spec => []ConfirmsHold
<1>1. ConfirmsInv /\ [Next \/ Ends]_vars => ConfirmsInv'
  <2>1. [Next \/ Ends]_vars => [Confirming!Next]_confirmsVars
    <3>1. CASE Next
      BY <3>1, Zenon DEF Next
    <3>2. CASE Ends \/ UNCHANGED vars
      BY <3>2, Zenon DEF Ends, vars
    <3>3. QED
      BY <3>1, <3>2
  <2>2. QED
    BY <2>1, ConfirmsStep
<1>2. ConfirmsInv => ConfirmsHold
  <2> SUFFICES ASSUME ConfirmsInv PROVE ConfirmsHold
    OBVIOUS
  <2> USE DEF ConfirmsInv
  <2> DEFINE n == Len(notified)
             S == Confirming!Notified
             f == [i \in 1..n |-> notified[i][1]]
  <2>1. n \in Nat /\ DOMAIN notified = 1..n
    BY DEF ConfirmsTypeOK
  <2>2. S = {notified[i][1] : i \in 1..n}
    BY <2>1 DEF Confirming!Notified
  <2>3. \A i \in 1..n : /\ notified[i][1] \in (1..publishCounter) \ confirms
                        /\ \A j \in 1..n : notified[i][1] = notified[j][1] => i = j
    BY <2>1 DEF NotifiedOnce
  <2>4. Confirming!ConfirmedOnce
    <3> HIDE DEF n, S
    <3>1. f \in [1..n -> S] /\ \A i \in 1..n : f[i] = notified[i][1]
      BY <2>2
    <3>2. \A x \in S : \E i \in 1..n : f[i] = x
      BY <2>2
    <3>3. \A i, j \in 1..n : f[i] = f[j] => i = j
      BY <2>3, <3>1
    <3> HIDE DEF f
    <3>4. f \in Surjection(1..n, S) /\ f \in Injection(1..n, S)
      BY <3>1, <3>2, <3>3 DEF Surjection, Injection, IsInjective
    <3>5. IsFiniteSet(1..n) /\ Cardinality(1..n) = n
      BY <2>1, FS_Interval
    <3>6. Cardinality(S) = n
      BY <3>4, <3>5, FS_Surjection
    <3>7. Confirming!Cardinality(Confirming!Notified) = Len(notified)
      BY <3>6, SameCount DEF S, n
    <3>8. QED
      BY <3>7, Zenon DEF Confirming!ConfirmedOnce
  <2>5. Confirming!ConfirmedIsAnswered
    <3>1. outstanding \subseteq confirms
      BY DEF ConfirmsTypeOK
    <3>2. S \cap outstanding = {}
      <4> HIDE DEF n
      <4>1. QED
        BY <2>2, <2>3, <3>1
    <3>3. answers = <<>> => confirms = outstanding
      <4>1. SUFFICES ASSUME answers = <<>> PROVE confirms \subseteq outstanding
        BY <3>1
      <4>2. DOMAIN answers = {}
        BY <4>1
      <4>3. QED
        BY <4>2 DEF AnswersKnown
    <3>4. QED
      BY <3>2, <3>3, Zenon DEF Confirming!ConfirmedIsAnswered
  <2>6. Confirming!NeverPanics
    BY DEF Confirming!NeverPanics, ConfirmsTypeOK
  <2>7. QED
    BY <2>4, <2>5, <2>6, Zenon DEF ConfirmsHold, Confirming!ConfirmsHold
<1>3. QED
  BY ConfirmsInit, <1>1, <1>2, PTL DEF Spec


-----------------------------------------------------------------------------
(* Messages of several frames *)

Octets == Senders \X Nat \X Nat
Texts == [sender : Senders, number : Nat, size : Nat]
Sending == {"method", "header", "body"}
Progress == [pc : {"idle", "lock"} \cup Sending, count : Nat, ch : Channels \cup {<<>>},
             msg : Texts \cup {<<>>}, i : Nat, j : Int]
Frames == [kind : {"method", "plain", "header", "body"}, ch : Channels, msg : Texts, part : Seq(Octets)]
Receptions == [state : {"method", "header", "content"}, msg : Texts \cup {<<>>}, need : Nat, body : Seq(Octets)]
Arrivals == [msg : Texts \cup {<<>>}, body : Seq(Octets)]

(* What the receiving side is before and after a frame: recvMethod,        *)
(* recvHeader, recvContent and their errors, as a function.                *)
Receivers == [recv : [Channels -> Receptions], delivered : [Channels -> Seq(Arrivals)]]

Taken(r, f) ==
  IF f.kind = "method" THEN [state |-> "header", msg |-> f.msg, need |-> 0, body |-> <<>>]
  ELSE IF f.kind = "header" /\ r.state = "header"
  THEN [state |-> IF f.msg.size = 0 THEN "method" ELSE "content", msg |-> r.msg, need |-> f.msg.size,
        body |-> r.body]
  ELSE IF f.kind = "body" /\ r.state = "content"
  THEN [state |-> IF Len(r.body \o f.part) >= r.need THEN "method" ELSE "content", msg |-> r.msg,
        need |-> r.need, body |-> r.body \o f.part]
  ELSE [state |-> "method", msg |-> r.msg, need |-> r.need, body |-> r.body]

Finishes(r, f) ==
  \/ f.kind = "header" /\ r.state = "header" /\ f.msg.size = 0
  \/ f.kind = "body" /\ r.state = "content" /\ Len(r.body \o f.part) >= r.need

After(F, f) ==
  [recv |-> [F.recv EXCEPT ![f.ch] = Taken(F.recv[f.ch], f)],
   delivered |-> IF Finishes(F.recv[f.ch], f)
                 THEN [F.delivered EXCEPT ![f.ch] =
                         Append(F.delivered[f.ch], [msg |-> Taken(F.recv[f.ch], f).msg,
                                                    body |-> Taken(F.recv[f.ch], f).body])]
                 ELSE F.delivered]

(* The receiving side now, and after each of the frames under way.         *)
IsTrace(R, w, F) ==
  /\ R \in [1..(Len(w) + 1) -> Receivers] /\ R[1] = F
  /\ \A k \in 1..Len(w) : R[k+1] = After(R[k], w[k])

ContentTypeOK ==
  /\ sender \in [Senders -> Progress]
  /\ sendM \in [Channels -> Senders \cup {Content!NoOne}]
  /\ wire \in Seq(Frames)
  /\ recv \in [Channels -> Receptions] /\ delivered \in [Channels -> Seq(Arrivals)]
  /\ published \in [Channels -> Seq(Texts)]

(* A sender holds the lock of its channel while it sends, and cuts the     *)
(* body from where it stands.                                              *)
Holding ==
  /\ \A s \in Senders : sender[s].pc \in Sending => sendM[sender[s].ch] = s
  /\ \A c \in Channels : sendM[c] # Content!NoOne =>
       sender[sendM[c]].pc \in Sending /\ sender[sendM[c]].ch = c
Cutting ==
  \A s \in Senders : sender[s].pc # "idle" =>
    /\ sender[s].ch \in Channels /\ sender[s].msg \in Texts
    /\ sender[s].i <= sender[s].msg.size
    /\ sender[s].i < sender[s].msg.size => sender[s].j = sender[s].i + Content!size
    /\ sender[s].pc # "body" => sender[s].i = 0

(* What has been published on a channel, with a message of which all       *)
(* frames were sent though sendOpen has not returned.                      *)
Promised(c) ==
  IF sendM[c] # Content!NoOne /\ sender[sendM[c]].pc = "body" /\ sender[sendM[c]].i >= sender[sendM[c]].msg.size
  THEN Append(published[c], sender[sendM[c]].msg) ELSE published[c]

(* The receiving side keeps to that at any time, has it all when the wire  *)
(* is empty, and is then as far as the sender is.                          *)
Arrived(l, p) ==
  /\ Len(l) <= Len(p)
  /\ \A k \in 1..Len(l) : l[k] = [msg |-> p[k], body |-> Content!Body(p[k])]
Faithful(F) == \A c \in Channels : Arrived(F.delivered[c], Promised(c))

Abreast(r, c) ==
  LET s == sendM[c]
      m == sender[s].msg
  IN
  /\ sender[s].pc = "header" => r = [state |-> "header", msg |-> m, need |-> 0, body |-> <<>>]
  /\ sender[s].pc = "body" /\ sender[s].i < m.size =>
       r = [state |-> "content", msg |-> m, need |-> m.size, body |-> SubSeq(Content!Body(m), 1, sender[s].i)]
Complete(F) ==
  \A c \in Channels :
    /\ Len(F.delivered[c]) = Len(Promised(c))
    /\ sendM[c] # Content!NoOne => Abreast(F.recv[c], c)

Foreseen ==
  \E R : /\ IsTrace(R, wire, [recv |-> recv, delivered |-> delivered])
         /\ \A k \in 1..(Len(wire) + 1) : Faithful(R[k])
         /\ Complete(R[Len(wire) + 1])

ContentInv == ContentTypeOK /\ Holding /\ Cutting /\ Foreseen /\ Content!FramesFit


LEMMA BodyOf ==
  ASSUME NEW m \in Texts
  PROVE  Content!Body(m) \in Seq(Octets) /\ Len(Content!Body(m)) = m.size /\ m.size \in Nat
<1>1. m.size \in Nat /\ m.sender \in Senders /\ m.number \in Nat
  BY DEF Texts
<1>2. \A k \in 1..m.size : <<m.sender, m.number, k>> \in Octets
  BY <1>1 DEF Octets
<1>3. Content!Body(m) = [k \in 1..m.size |-> <<m.sender, m.number, k>>]
  BY Zenon DEF Content!Body
<1>4. QED
  BY <1>1, <1>2, <1>3

(* A body cut up and put together again.                                   *)
LEMMA CutUp ==
  ASSUME NEW b \in Seq(Octets), NEW i \in Nat, NEW j \in Nat, i <= j, j <= Len(b)
  PROVE  /\ SubSeq(b, 1, i) \in Seq(Octets) /\ SubSeq(b, i + 1, j) \in Seq(Octets)
         /\ Len(SubSeq(b, 1, j)) = j /\ Len(SubSeq(b, i + 1, j)) = j - i
         /\ SubSeq(b, 1, i) \o SubSeq(b, i + 1, j) = SubSeq(b, 1, j)
         /\ SubSeq(b, 1, Len(b)) = b
<1>1. Len(b) \in Nat
  OBVIOUS
<1>2. /\ SubSeq(b, 1, i) \in Seq(Octets) /\ Len(SubSeq(b, 1, i)) = i
      /\ \A k \in 1..i : SubSeq(b, 1, i)[k] = b[k]
  BY <1>1
<1>3. /\ SubSeq(b, 1, j) \in Seq(Octets) /\ Len(SubSeq(b, 1, j)) = j
      /\ \A k \in 1..j : SubSeq(b, 1, j)[k] = b[k]
  BY <1>1
<1>4. /\ SubSeq(b, i + 1, j) \in Seq(Octets) /\ Len(SubSeq(b, i + 1, j)) = j - i
      /\ \A k \in 1..(j - i) : SubSeq(b, i + 1, j)[k] = b[i + k]
  BY <1>1
<1>5. SubSeq(b, 1, i) \o SubSeq(b, i + 1, j) = SubSeq(b, 1, j)
  <2>1. PICK s \in Seq(Octets), t \in Seq(Octets), u \in Seq(Octets) :
          s = SubSeq(b, 1, i) /\ t = SubSeq(b, i + 1, j) /\ u = SubSeq(b, 1, j)
    BY <1>2, <1>3, <1>4
  <2>2. /\ Len(s) = i /\ Len(t) = j - i /\ Len(u) = j
        /\ \A k \in 1..i : s[k] = b[k]
        /\ \A k \in 1..(j - i) : t[k] = b[i + k]
        /\ \A k \in 1..j : u[k] = b[k]
    BY <1>2, <1>3, <1>4, <2>1
  <2>3. s \o t \in Seq(Octets) /\ Len(s \o t) = j
        /\ \A k \in 1..j : (s \o t)[k] = IF k <= i THEN s[k] ELSE t[k - i]
    <3>1. s \o t \in Seq(Octets) /\ Len(s \o t) = Len(s) + Len(t)
          /\ \A k \in 1..(Len(s) + Len(t)) : (s \o t)[k] = IF k <= Len(s) THEN s[k] ELSE t[k - Len(s)]
      BY ConcatProperties
    <3>2. i + (j - i) = j
      OBVIOUS
    <3>3. QED
      BY <2>2, <3>1, <3>2, Zenon
  <2>4. \A k \in 1..j : (s \o t)[k] = b[k]
    <3>1. TAKE k \in 1..j
    <3>2. CASE k <= i
      <4>1. k \in 1..i
        BY <3>2
      <4>2. QED
        BY <2>2, <2>3, <3>2, <4>1, Zenon
    <3>3. CASE ~(k <= i)
      <4>1. k - i \in 1..(j - i) /\ i + (k - i) = k
        BY <3>3
      <4>2. (s \o t)[k] = t[k - i]
        BY <2>3, <3>3, Zenon
      <4>3. QED
        BY <2>2, <4>1, <4>2
    <3>4. QED
      BY <3>2, <3>3
  <2>5. s \o t = u
    BY <2>2, <2>3, <2>4, SeqEqual
  <2>6. QED
    BY <2>1, <2>5
<1>6. SubSeq(b, 1, Len(b)) = b
  BY SubSeqFull
<1>7. QED
  BY <1>2, <1>3, <1>4, <1>5, <1>6

LEMMA AfterTyped ==
  ASSUME NEW F \in Receivers, NEW f \in Frames
  PROVE  After(F, f) \in Receivers
<1>1. f.ch \in Channels /\ f.msg \in Texts /\ f.msg.size \in Nat /\ f.part \in Seq(Octets)
  BY DEF Frames, Texts
<1>2. PICK r \in Receptions : r = F.recv[f.ch]
  BY <1>1 DEF Receivers
<1>3. r.msg \in Texts \cup {<<>>} /\ r.need \in Nat /\ r.body \in Seq(Octets) /\ r.body \o f.part \in Seq(Octets)
  BY <1>1, <1>2 DEF Receptions
<1>4. Taken(r, f) \in Receptions
  BY <1>1, <1>3 DEF Taken, Receptions
<1>5. [F.recv EXCEPT ![f.ch] = Taken(r, f)] \in [Channels -> Receptions]
  BY <1>1, <1>4 DEF Receivers
<1>6. [msg |-> Taken(r, f).msg, body |-> Taken(r, f).body] \in Arrivals
  BY <1>4 DEF Receptions, Arrivals
<1>7. PICK a \in Arrivals : a = [msg |-> Taken(r, f).msg, body |-> Taken(r, f).body]
  BY <1>6
<1>8. [F.delivered EXCEPT ![f.ch] = Append(F.delivered[f.ch], a)] \in [Channels -> Seq(Arrivals)]
      /\ F.delivered \in [Channels -> Seq(Arrivals)]
  BY <1>1 DEF Receivers
<1>9. QED
  BY <1>2, <1>5, <1>7, <1>8, Zenon DEF After, Receivers

(* A trace goes on when a frame is sent, and begins later when one is      *)
(* received.                                                               *)
LEMMA Extended ==
  ASSUME NEW w \in Seq(Frames), NEW f \in Frames, NEW F, NEW R, IsTrace(R, w, F)
  PROVE  \E Q : /\ IsTrace(Q, Append(w, f), F)
                /\ \A k \in 1..(Len(w) + 1) : Q[k] = R[k]
                /\ Q[Len(w) + 2] = After(R[Len(w) + 1], f)
<1> DEFINE n == Len(w)
           v == Append(w, f)
           G == After(R[n + 1], f)
           Q == [k \in 1..(n + 2) |-> IF k = n + 2 THEN G ELSE R[k]]
<1>1. /\ n \in Nat /\ Len(v) = n + 1 /\ v[n + 1] = f
      /\ \A k \in 1..n : v[k] = w[k]
  OBVIOUS
<1>2. R \in [1..(n + 1) -> Receivers] /\ R[1] = F /\ \A k \in 1..n : R[k+1] = After(R[k], w[k])
  BY Zenon DEF IsTrace
<1> HIDE DEF n, v
<1>3. G \in Receivers
  BY <1>1, <1>2, AfterTyped
<1> HIDE DEF G
<1>4. /\ \A k \in 1..(n + 2) : k # n + 2 => k \in 1..(n + 1)
      /\ \A k \in 1..(n + 1) : k # n + 2 /\ k \in 1..(n + 2)
      /\ n + 2 \in 1..(n + 2) /\ 1 \in 1..(n + 1) /\ (n + 1) + 1 = n + 2 /\ n + 1 \in 1..(n + 1)
      /\ \A k \in 1..(n + 1) : k \in 1..n \/ k = n + 1
      /\ \A k \in 1..n : k + 1 \in 1..(n + 1) /\ k \in 1..(n + 1)
  BY <1>1
<1>5. Q \in [1..(n + 2) -> Receivers]
  BY <1>2, <1>3, <1>4
<1>6. Q[n + 2] = G /\ \A k \in 1..(n + 1) : Q[k] = R[k]
  BY <1>4
<1> HIDE DEF Q
<1>7. \A k \in 1..(n + 1) : Q[k+1] = After(Q[k], v[k])
  <2>1. TAKE k \in 1..(n + 1)
  <2>2. CASE k \in 1..n
    <3>1. Q[k] = R[k] /\ Q[k+1] = R[k+1] /\ v[k] = w[k] /\ R[k+1] = After(R[k], w[k])
      BY <1>1, <1>2, <1>4, <1>6, <2>2
    <3>2. QED
      BY <3>1
  <2>3. CASE k = n + 1
    <3>1. Q[k] = R[n + 1] /\ Q[k+1] = G /\ v[k] = f
      BY <1>1, <1>4, <1>6, <2>3
    <3>2. QED
      BY <3>1 DEF G
  <2>4. QED
    BY <1>4, <2>2, <2>3
<1>8. IsTrace(Q, v, F)
  <2>1. Q[1] = F
    BY <1>2, <1>4, <1>6
  <2>2. Len(v) + 1 = n + 2
    BY <1>1
  <2>3. QED
    BY <1>1, <1>5, <1>7, <2>1, <2>2 DEF IsTrace
<1>9. WITNESS Q
<1>10. QED
  BY <1>6, <1>8 DEF n, v, G

LEMMA Shifted ==
  ASSUME NEW w \in Seq(Frames), w # <<>>, NEW F, NEW R, IsTrace(R, w, F)
  PROVE  \E Q : /\ IsTrace(Q, Tail(w), After(F, Head(w)))
                /\ \A k \in 1..Len(w) : Q[k] = R[k+1]
                /\ Len(Tail(w)) + 1 = Len(w) /\ Len(w) \in Nat
<1> DEFINE n == Len(w)
           v == Tail(w)
           Q == [k \in 1..n |-> R[k+1]]
<1>1. /\ n \in Nat \ {0} /\ Len(v) = n - 1 /\ Head(w) = w[1]
      /\ \A k \in 1..(n-1) : v[k] = w[k+1]
  OBVIOUS
<1>2. R \in [1..(n + 1) -> Receivers] /\ R[1] = F /\ \A k \in 1..n : R[k+1] = After(R[k], w[k])
  BY Zenon DEF IsTrace
<1> HIDE DEF n, v
<1>3. /\ \A k \in 1..n : k + 1 \in 1..(n + 1)
      /\ \A k \in 1..(n-1) : k \in 1..n /\ k + 1 \in 1..n
      /\ 1 \in 1..n /\ (n - 1) + 1 = n /\ Len(v) + 1 = n
  BY <1>1
<1>4. Q \in [1..n -> Receivers] /\ \A k \in 1..n : Q[k] = R[k+1]
  BY <1>2, <1>3
<1> HIDE DEF Q
<1>5. Q[1] = After(F, w[1])
  BY <1>2, <1>3, <1>4
<1>6. \A k \in 1..(n-1) : Q[k+1] = After(Q[k], v[k])
  <2>1. TAKE k \in 1..(n-1)
  <2>2. Q[k] = R[k+1] /\ Q[k+1] = R[(k+1)+1] /\ R[(k+1)+1] = After(R[k+1], w[k+1]) /\ v[k] = w[k+1]
    BY <1>1, <1>2, <1>3, <1>4
  <2>3. QED
    BY <2>2
<1>7. IsTrace(Q, v, After(F, Head(w)))
  BY <1>1, <1>3, <1>4, <1>5, <1>6 DEF IsTrace
<1>8. WITNESS Q
<1>9. QED
  BY <1>1, <1>3, <1>4, <1>7 DEF n, v


LEMMA SizeIsInt == Content!size \in Int /\ Content!FrameSize \in Int
<1>1. ClientMax \in Nat /\ ServerMax \in Nat
  BY ContentAssumption DEF Content!ContentAssumption
<1>2. Content!pick(ClientMax, ServerMax) \in Int
  BY <1>1 DEF Content!pick, Content!Min2, Content!Max2
<1>3. QED
  BY <1>2 DEF Content!size, Content!FrameSize, Content!frameHeaderSize

LEMMA PromisedTyped ==
  ASSUME ContentTypeOK, Holding, Cutting, NEW c \in Channels
  PROVE  Promised(c) \in Seq(Texts)
<1>1. published[c] \in Seq(Texts)
  BY DEF ContentTypeOK
<1>2. ASSUME sendM[c] # Content!NoOne PROVE sender[sendM[c]].msg \in Texts
  <2>1. sendM[c] \in Senders
    BY <1>2 DEF ContentTypeOK
  <2>2. sender[sendM[c]].pc \in Sending
    BY <1>2, Zenon DEF Holding
  <2>3. sender[sendM[c]].pc # "idle"
    BY <2>2 DEF Sending
  <2>4. QED
    BY <2>1, <2>3, Zenon DEF Cutting
<1>3. QED
  BY <1>1, <1>2 DEF Promised

(* A message more that is promised spoils nothing that has arrived.        *)
LEMMA ArrivedMore ==
  ASSUME NEW l \in Seq(Arrivals), NEW p \in Seq(Texts), NEW m \in Texts, Arrived(l, p)
  PROVE  /\ Arrived(l, Append(p, m)) /\ Len(Append(p, m)) = Len(p) + 1
         /\ Len(l) = Len(p) =>
              /\ Arrived(Append(l, [msg |-> m, body |-> Content!Body(m)]), Append(p, m))
              /\ Len(Append(l, [msg |-> m, body |-> Content!Body(m)])) = Len(Append(p, m))
<1> DEFINE a == [msg |-> m, body |-> Content!Body(m)]
           q == Append(p, m)
<1>1. Len(l) \in Nat /\ Len(p) \in Nat /\ Len(q) = Len(p) + 1
      /\ q[Len(p) + 1] = m /\ \A k \in 1..Len(p) : q[k] = p[k]
  OBVIOUS
<1>2. Len(l) <= Len(p) /\ \A k \in 1..Len(l) : l[k] = [msg |-> p[k], body |-> Content!Body(p[k])]
  BY DEF Arrived
<1>3. a \in Arrivals
  BY BodyOf DEF Arrivals
<1>4. PICK b : b = a
  OBVIOUS
<1>5. Len(Append(l, b)) = Len(l) + 1 /\ Append(l, b)[Len(l) + 1] = b
      /\ \A k \in 1..Len(l) : Append(l, b)[k] = l[k]
  BY <1>3, <1>4, AppendProperties
<1> HIDE DEF a, q
<1>6. \A k \in 1..Len(l) : k \in 1..Len(p) /\ q[k] = p[k]
  BY <1>1, <1>2
<1>7. Arrived(l, q)
  BY <1>1, <1>2, <1>6 DEF Arrived
<1>8. ASSUME Len(l) = Len(p) PROVE Arrived(Append(l, b), q) /\ Len(Append(l, b)) = Len(q)
  <2>1. \A k \in 1..(Len(l) + 1) : k \in 1..Len(l) \/ k = Len(l) + 1
    BY <1>1
  <2>2. \A k \in 1..(Len(l) + 1) : Append(l, b)[k] = [msg |-> q[k], body |-> Content!Body(q[k])]
    BY <1>1, <1>2, <1>4, <1>5, <1>6, <1>8, <2>1 DEF a
  <2>3. QED
    BY <1>1, <1>5, <1>8, <2>2 DEF Arrived
<1>9. QED
  BY <1>1, <1>4, <1>7, <1>8 DEF a, q

(* What a step of one sender leaves as it is on the channels of others.    *)
LEMMA OfOthers ==
  ASSUME ContentTypeOK, NEW s \in Senders, \A t \in Senders : t # s => sender'[t] = sender[t],
         NEW c \in Channels, sendM[c] # s, sendM'[c] = sendM[c], published'[c] = published[c]
  PROVE  /\ Promised(c)' = Promised(c)
         /\ sendM[c] # Content!NoOne => \A r : Abreast(r, c) => Abreast(r, c)'
<1>1. ASSUME sendM[c] # Content!NoOne PROVE sender'[sendM[c]] = sender[sendM[c]]
  BY <1>1 DEF ContentTypeOK
<1>2. Promised(c)' = Promised(c)
  <2>1. PICK t : t = sendM[c]
    OBVIOUS
  <2>2. sendM'[c] = t /\ (t # Content!NoOne => sender'[t] = sender[t])
    BY <1>1, <2>1
  <2>3. Promised(c) = IF t # Content!NoOne /\ sender[t].pc = "body" /\ sender[t].i >= sender[t].msg.size
                      THEN Append(published[c], sender[t].msg) ELSE published[c]
    BY <2>1, Zenon DEF Promised
  <2>4. Promised(c)' = IF t # Content!NoOne /\ sender'[t].pc = "body" /\ sender'[t].i >= sender'[t].msg.size
                       THEN Append(published'[c], sender'[t].msg) ELSE published'[c]
    BY <2>2, Zenon DEF Promised
  <2>5. CASE t = Content!NoOne
    BY <2>3, <2>4, <2>5, Zenon
  <2>6. CASE t # Content!NoOne
    <3>1. PICK x, p : x = sender[t] /\ p = published[c]
      OBVIOUS
    <3>2. sender'[t] = x /\ published'[c] = p
      BY <2>2, <2>6, <3>1
    <3>3. Promised(c) = IF t # Content!NoOne /\ x.pc = "body" /\ x.i >= x.msg.size THEN Append(p, x.msg) ELSE p
      BY <2>3, <3>1, Zenon
    <3>4. Promised(c)' = IF t # Content!NoOne /\ x.pc = "body" /\ x.i >= x.msg.size THEN Append(p, x.msg) ELSE p
      BY <2>4, <3>2, Zenon
    <3>5. QED
      BY <3>3, <3>4, Zenon
  <2>7. QED
    BY <2>5, <2>6
<1>3. ASSUME sendM[c] # Content!NoOne, NEW r, Abreast(r, c) PROVE Abreast(r, c)'
  BY <1>1, <1>3 DEF Abreast
<1>4. QED
  BY <1>2, <1>3

(* The lemmas on what the receiving side is bound to do: when no frame is  *)
(* sent, when one is, when one is received.                                *)
LEMMA NothingSent ==
  ASSUME Foreseen, UNCHANGED <<wire, recv, delivered>>,
         \A c \in Channels : /\ Promised(c)' = Promised(c)
                             /\ sendM'[c] # Content!NoOne =>
                                  \/ sendM[c] # Content!NoOne /\ \A r : Abreast(r, c) => Abreast(r, c)'
                                  \/ \A r : Abreast(r, c)'
  PROVE  Foreseen'
<1>1. PICK R : /\ IsTrace(R, wire, [recv |-> recv, delivered |-> delivered])
               /\ \A k \in 1..(Len(wire) + 1) : Faithful(R[k])
               /\ Complete(R[Len(wire) + 1])
  BY DEF Foreseen
<1>2. \A k \in 1..(Len(wire) + 1) : Faithful(R[k])'
  BY <1>1 DEF Faithful
<1>3. PICK F : F = R[Len(wire) + 1]
  OBVIOUS
<1>4. Complete(F)
  BY <1>1, <1>3
<1>5. Complete(F)'
  <2>1. ASSUME NEW c \in Channels PROVE Len(F.delivered[c]) = Len(Promised(c)')
    BY <1>4 DEF Complete
  <2>2. ASSUME NEW c \in Channels, sendM'[c] # Content!NoOne PROVE Abreast(F.recv[c], c)'
    BY <1>4, <2>2 DEF Complete
  <2>3. QED
    BY <2>1, <2>2 DEF Complete
<1>6. IsTrace(R, wire', [recv |-> recv', delivered |-> delivered'])
  BY <1>1
<1>7. QED
  BY <1>2, <1>3, <1>5, <1>6 DEF Foreseen

LEMMA FrameReceived ==
  ASSUME ContentTypeOK, Foreseen, wire # <<>>, wire' = Tail(wire), UNCHANGED <<sender, sendM, published>>,
         [recv |-> recv', delivered |-> delivered']
           = After([recv |-> recv, delivered |-> delivered], Head(wire))
  PROVE  Foreseen'
<1>0. PICK w \in Seq(Frames) : w = wire
  BY DEF ContentTypeOK
<1>1. PICK R : /\ IsTrace(R, w, [recv |-> recv, delivered |-> delivered])
               /\ \A k \in 1..(Len(w) + 1) : Faithful(R[k])
               /\ Complete(R[Len(w) + 1])
  BY <1>0 DEF Foreseen
<1>2. PICK F : F = [recv |-> recv, delivered |-> delivered]
  OBVIOUS
<1>3. PICK Q : /\ IsTrace(Q, Tail(w), After(F, Head(w)))
               /\ \A k \in 1..Len(w) : Q[k] = R[k+1]
               /\ Len(Tail(w)) + 1 = Len(w) /\ Len(w) \in Nat
  BY <1>0, <1>1, <1>2, Shifted
<1>4. \A k \in 1..(Len(Tail(w)) + 1) : Faithful(Q[k])
  BY <1>1, <1>3
<1>5. Complete(Q[Len(Tail(w)) + 1])
  <2>1. Len(w) # 0
    BY <1>0
  <2>2. Len(w) \in 1..Len(w)
    BY <1>3, <2>1
  <2>3. QED
    BY <1>1, <1>3, <2>2
<1>6. \A c \in Channels : Promised(c)' = Promised(c)
  BY DEF Promised
<1>7. \A G : (Faithful(G) => Faithful(G)') /\ (Complete(G) => Complete(G)')
  BY <1>6 DEF Faithful, Complete, Abreast
<1>8. /\ \A k \in 1..(Len(Tail(w)) + 1) : Faithful(Q[k])'
      /\ Complete(Q[Len(Tail(w)) + 1])'
  BY <1>4, <1>5, <1>7
<1>9. IsTrace(Q, wire', [recv |-> recv', delivered |-> delivered'])
  BY <1>0, <1>2, <1>3
<1>10. wire' = Tail(w)
  BY <1>0
<1>11. QED
  BY <1>8, <1>9, <1>10 DEF Foreseen


LEMMA FrameSent ==
  ASSUME ContentTypeOK, Holding, Cutting, Foreseen, NEW f \in Frames, wire' = Append(wire, f),
         UNCHANGED <<recv, delivered>>,
         \A c \in Channels : c # f.ch =>
           /\ Promised(c)' = Promised(c)
           /\ sendM'[c] # Content!NoOne =>
                sendM[c] # Content!NoOne /\ \A r : Abreast(r, c) => Abreast(r, c)',
         sendM[f.ch] # Content!NoOne,
         \A r \in Receptions : Abreast(r, f.ch) =>
           /\ IF Finishes(r, f)
              THEN /\ Taken(r, f).msg = f.msg /\ Taken(r, f).body = Content!Body(f.msg)
                   /\ Promised(f.ch)' = Append(Promised(f.ch), f.msg)
              ELSE Promised(f.ch)' = Promised(f.ch)
           /\ Abreast(Taken(r, f), f.ch)'
  PROVE  Foreseen'
<1> DEFINE d == f.ch
<1>0. PICK w \in Seq(Frames) : w = wire
  BY DEF ContentTypeOK
<1>1. PICK R : /\ IsTrace(R, w, [recv |-> recv, delivered |-> delivered])
               /\ \A k \in 1..(Len(w) + 1) : Faithful(R[k])
               /\ Complete(R[Len(w) + 1])
  BY <1>0 DEF Foreseen
<1>2. PICK n \in Nat : n = Len(w)
  OBVIOUS
<1>3. PICK F \in Receivers : F = R[n + 1]
  <2>1. R \in [1..(n + 1) -> Receivers]
    BY <1>1, <1>2, Zenon DEF IsTrace
  <2>2. n + 1 \in 1..(n + 1)
    OBVIOUS
  <2>3. QED
    BY <2>1, <2>2
<1>4. PICK G \in Receivers : G = After(F, f)
  BY AfterTyped
<1>5. PICK Q : /\ IsTrace(Q, Append(w, f), [recv |-> recv, delivered |-> delivered])
               /\ \A k \in 1..(n + 1) : Q[k] = R[k]
               /\ Q[n + 2] = G
  BY <1>1, <1>2, <1>3, <1>4, Extended
<1>6. PICK r \in Receptions : r = F.recv[d]
  BY DEF Receivers, Frames
<1>7. Complete(F) /\ Faithful(F)
  <2>1. n + 1 \in 1..(n + 1)
    OBVIOUS
  <2>2. QED
    BY <1>1, <1>2, <1>3, <2>1
<1>8. d \in Channels /\ f.msg \in Texts /\ Abreast(r, d) /\ Len(F.delivered[d]) = Len(Promised(d))
  BY <1>6, <1>7 DEF Complete, Frames
<1>9. /\ IF Finishes(r, f)
         THEN /\ Taken(r, f).msg = f.msg /\ Taken(r, f).body = Content!Body(f.msg)
              /\ Promised(d)' = Append(Promised(d), f.msg)
         ELSE Promised(d)' = Promised(d)
      /\ Abreast(Taken(r, f), d)'
  BY <1>8
<1>10. \A c \in Channels : Promised(c) \in Seq(Texts)
  BY PromisedTyped
<1>11. ASSUME NEW H \in Receivers, Faithful(H) PROVE Faithful(H)'
  <2>1. ASSUME NEW c \in Channels PROVE Arrived(H.delivered[c], Promised(c)')
    <3>1. H.delivered[c] \in Seq(Arrivals) /\ Arrived(H.delivered[c], Promised(c))
      BY <1>11 DEF Receivers, Faithful
    <3>2. CASE Promised(c)' = Promised(c)
      BY <3>1, <3>2
    <3>3. CASE c = d /\ Promised(c)' = Append(Promised(c), f.msg)
      BY <1>8, <1>10, <3>1, <3>3, ArrivedMore
    <3>4. QED
      BY <1>9, <3>2, <3>3
  <2>2. QED
    BY <2>1 DEF Faithful
<1>12. ASSUME NEW k \in 1..(n + 2) PROVE Faithful(Q[k])'
  <2>1. CASE k \in 1..(n + 1)
    <3>1. R[k] \in Receivers
      BY <1>1, <1>2, <2>1 DEF IsTrace
    <3>2. Faithful(R[k])'
      BY <1>1, <1>2, <1>11, <2>1, <3>1
    <3>3. QED
      BY <1>5, <2>1, <3>2
  <2>2. CASE k = n + 2
    <3>1. ASSUME NEW c \in Channels PROVE Arrived(G.delivered[c], Promised(c)')
      <4>1. F.delivered[c] \in Seq(Arrivals) /\ Arrived(F.delivered[c], Promised(c)')
        BY <1>7, <1>11 DEF Receivers, Faithful
      <4>2. CASE ~(Finishes(r, f) /\ c = d)
        <5>1. G.delivered[c] = F.delivered[c]
          BY <1>4, <1>6, <4>2 DEF After, Receivers
        <5>2. QED
          BY <4>1, <5>1
      <4>3. CASE Finishes(r, f) /\ c = d
        <5>1. G.delivered[d] = Append(F.delivered[d], [msg |-> f.msg, body |-> Content!Body(f.msg)])
          BY <1>4, <1>6, <1>8, <1>9, <4>3 DEF After, Receivers
        <5>2. Arrived(F.delivered[d], Promised(d)) /\ Promised(d) \in Seq(Texts)
          BY <1>7, <1>8, <1>10 DEF Faithful
        <5>3. Arrived(Append(F.delivered[d], [msg |-> f.msg, body |-> Content!Body(f.msg)]),
                      Append(Promised(d), f.msg))
          BY <1>8, <4>1, <4>3, <5>2, ArrivedMore
        <5>4. QED
          BY <1>9, <4>3, <5>1, <5>3
      <4>4. QED
        BY <4>2, <4>3
    <3>2. Faithful(G)'
      BY <3>1 DEF Faithful
    <3>3. QED
      BY <1>5, <2>2, <3>2
  <2>3. QED
    BY <2>1, <2>2
<1>13. Complete(G)'
  <2>1. ASSUME NEW c \in Channels
        PROVE  /\ Len(G.delivered[c]) = Len(Promised(c)')
               /\ sendM'[c] # Content!NoOne => Abreast(G.recv[c], c)'
    <3>1. CASE c # d
      <4>1. G.delivered[c] = F.delivered[c] /\ G.recv[c] = F.recv[c]
        BY <1>4, <1>6, <1>8, <3>1 DEF After, Receivers
      <4>2. Len(F.delivered[c]) = Len(Promised(c)) /\ Promised(c)' = Promised(c)
        BY <1>7, <3>1 DEF Complete
      <4>3. ASSUME sendM'[c] # Content!NoOne PROVE Abreast(G.recv[c], c)'
        <5>1. PICK q : q = F.recv[c]
          OBVIOUS
        <5>2. Abreast(q, c)
          BY <1>7, <3>1, <4>3, <5>1 DEF Complete
        <5>3. Abreast(q, c)'
          BY <3>1, <4>3, <5>2
        <5>4. QED
          BY <4>1, <5>1, <5>3
      <4>4. QED
        BY <4>1, <4>2, <4>3
    <3>2. CASE c = d
      <4>1. G.recv[d] = Taken(r, f)
        BY <1>4, <1>6, <1>8 DEF After, Receivers
      <4>2. CASE Finishes(r, f)
        <5>1. G.delivered[d] = Append(F.delivered[d], [msg |-> f.msg, body |-> Content!Body(f.msg)])
          BY <1>4, <1>6, <1>8, <1>9, <4>2 DEF After, Receivers
        <5>2. Arrived(F.delivered[d], Promised(d)) /\ Promised(d) \in Seq(Texts)
              /\ F.delivered[d] \in Seq(Arrivals)
          BY <1>7, <1>8, <1>10 DEF Faithful, Receivers
        <5>3. Len(Append(F.delivered[d], [msg |-> f.msg, body |-> Content!Body(f.msg)]))
                = Len(Append(Promised(d), f.msg))
          BY <1>8, <5>2, ArrivedMore
        <5>4. QED
          BY <1>9, <3>2, <4>1, <4>2, <5>1, <5>3
      <4>3. CASE ~Finishes(r, f)
        <5>1. G.delivered[d] = F.delivered[d]
          BY <1>4, <1>6, <4>3 DEF After
        <5>2. QED
          BY <1>8, <1>9, <3>2, <4>1, <4>3, <5>1
      <4>4. QED
        BY <4>2, <4>3
    <3>3. QED
      BY <3>1, <3>2
  <2>2. QED
    BY <2>1 DEF Complete
<1>14. wire' = Append(w, f) /\ Len(Append(w, f)) + 1 = n + 2
  BY <1>0, <1>2
<1>15. IsTrace(Q, wire', [recv |-> recv', delivered |-> delivered'])
  BY <1>5, <1>14
<1>16. QED
  BY <1>5, <1>12, <1>13, <1>14, <1>15 DEF Foreseen

(* A sender's state, and whether all frames of its message are sent.       *)
AllSent(x) == x.pc = "body" /\ x.i >= x.msg.size
Follows(r, x) ==
  /\ x.pc = "header" => r = [state |-> "header", msg |-> x.msg, need |-> 0, body |-> <<>>]
  /\ x.pc = "body" /\ x.i < x.msg.size =>
       r = [state |-> "content", msg |-> x.msg, need |-> x.msg.size,
            body |-> SubSeq(Content!Body(x.msg), 1, x.i)]
CutRight(x) ==
  /\ x.ch \in Channels /\ x.msg \in Texts
  /\ x.i <= x.msg.size
  /\ x.i < x.msg.size => x.j = x.i + Content!size
  /\ x.pc # "body" => x.i = 0

LEMMA Sender ==
  ASSUME ContentTypeOK, Holding, Cutting, NEW s \in Senders, sender[s].pc \in Sending
  PROVE  /\ sender[s] \in Progress /\ CutRight(sender[s]) /\ sendM[sender[s].ch] = s
         /\ sender[s].ch \in Channels /\ sender[s].msg \in Texts /\ sender[s].msg.size \in Nat
         /\ sender[s].i \in Nat /\ s # Content!NoOne
         /\ \A c \in Channels : c # sender[s].ch => sendM[c] # s
<1>1. sender[s] \in Progress /\ sendM \in [Channels -> Senders \cup {Content!NoOne}]
  BY DEF ContentTypeOK
<1>2. sender[s].pc # "idle"
  BY DEF Sending
<1>3. CutRight(sender[s])
  BY <1>2, Zenon DEF Cutting, CutRight
<1>4. s # Content!NoOne
  BY ContentAssumption DEF Content!ContentAssumption
<1>5. sendM[sender[s].ch] = s
  BY Zenon DEF Holding
<1>6. \A c \in Channels : sendM[c] = s => sender[s].ch = c
  BY <1>4, Zenon DEF Holding
<1>7. sender[s].ch \in Channels /\ sender[s].msg \in Texts
  BY <1>3 DEF CutRight
<1>8. sender[s].i \in Nat /\ sender[s].msg.size \in Nat
  BY <1>1, <1>7 DEF Progress, Texts
<1>9. QED
  BY <1>1, <1>3, <1>4, <1>5, <1>6, <1>7, <1>8

(* A channel's holder and what it owes, before and after a step.           *)
LEMMA Holder ==
  ASSUME NEW c \in Channels, NEW s \in Senders, NEW x, NEW p, sendM[c] = s, s # Content!NoOne,
         sender[s] = x, published[c] = p
  PROVE  /\ Promised(c) = IF AllSent(x) THEN Append(p, x.msg) ELSE p
         /\ \A r : Abreast(r, c) <=> Follows(r, x)
  BY DEF Promised, Abreast, AllSent, Follows

LEMMA HolderNext ==
  ASSUME NEW c \in Channels, NEW s \in Senders, NEW x, NEW p, sendM'[c] = s, s # Content!NoOne,
         sender'[s] = x, published'[c] = p
  PROVE  /\ Promised(c)' = IF AllSent(x) THEN Append(p, x.msg) ELSE p
         /\ \A r : Abreast(r, c)' <=> Follows(r, x)
  BY DEF Promised, Abreast, AllSent, Follows

LEMMA Moved ==
  ASSUME ContentTypeOK, Cutting, NEW s \in Senders, NEW y \in Progress, sender' = [sender EXCEPT ![s] = y],
         y.pc # "idle" => CutRight(y)
  PROVE  /\ sender' \in [Senders -> Progress] /\ Cutting'
         /\ sender'[s] = y /\ \A t \in Senders : t # s => sender'[t] = sender[t]
<1>1. sender \in [Senders -> Progress]
  BY DEF ContentTypeOK
<1>2. sender'[s] = y /\ \A t \in Senders : t # s => sender'[t] = sender[t]
  BY <1>1
<1>3. sender' \in [Senders -> Progress]
  BY <1>1
<1>4. \A t \in Senders : sender[t].pc # "idle" => CutRight(sender[t])
  BY Zenon DEF Cutting, CutRight
<1>5. \A t \in Senders : sender'[t].pc # "idle" => CutRight(sender'[t])
  <2>1. TAKE t \in Senders
  <2>2. CASE t = s
    BY <1>2, <2>2
  <2>3. CASE t # s
    <3>1. PICK z : z = sender[t]
      OBVIOUS
    <3>2. sender'[t] = z
      BY <1>2, <2>3, <3>1
    <3>3. QED
      BY <1>4, <3>1, <3>2
  <2>4. QED
    BY <2>2, <2>3
<1>6. Cutting'
  BY <1>5, Zenon DEF Cutting, CutRight
<1>7. QED
  BY <1>2, <1>3, <1>6

(* A sender goes on while it holds its channel.                            *)
LEMMA GoesOn ==
  ASSUME ContentTypeOK, Holding, Cutting, NEW s \in Senders, sender[s].pc \in Sending,
         NEW y \in Progress, sender' = [sender EXCEPT ![s] = y], y.pc \in Sending,
         y.ch = sender[s].ch, CutRight(y), UNCHANGED <<sendM, published>>
  PROVE  /\ sender' \in [Senders -> Progress] /\ Holding' /\ Cutting' /\ sender'[s] = y
         /\ \A c \in Channels : c # y.ch =>
              /\ Promised(c)' = Promised(c)
              /\ sendM'[c] # Content!NoOne =>
                   sendM[c] # Content!NoOne /\ \A r : Abreast(r, c) => Abreast(r, c)'
<1>1. /\ sender' \in [Senders -> Progress] /\ Cutting' /\ sender'[s] = y
      /\ \A t \in Senders : t # s => sender'[t] = sender[t]
  BY Moved
<1>2. sendM[y.ch] = s /\ s # Content!NoOne /\ \A c \in Channels : c # y.ch => sendM[c] # s
  BY Sender
<1>3. \A t \in Senders : sender'[t].pc \in Sending => sendM'[sender'[t].ch] = t
  <2>1. TAKE t \in Senders
  <2>2. CASE t = s
    BY <1>1, <1>2, <2>2
  <2>3. CASE t # s
    BY <1>1, <2>3 DEF Holding
  <2>4. QED
    BY <2>2, <2>3
<1>4. ASSUME NEW c \in Channels, sendM'[c] # Content!NoOne
      PROVE  sender'[sendM'[c]].pc \in Sending /\ sender'[sendM'[c]].ch = c
  <2>1. PICK t : t = sendM[c]
    OBVIOUS
  <2>2. sendM'[c] = t /\ t \in Senders /\ sender[t].pc \in Sending /\ sender[t].ch = c
    BY <1>4, <2>1 DEF Holding, ContentTypeOK
  <2>3. CASE t = s
    BY <1>1, <2>2, <2>3
  <2>4. CASE t # s
    BY <1>1, <2>2, <2>4
  <2>5. QED
    BY <2>3, <2>4
<1>5. Holding'
  BY <1>3, <1>4 DEF Holding
<1>6. ASSUME NEW c \in Channels, c # y.ch
      PROVE  /\ Promised(c)' = Promised(c)
             /\ sendM'[c] # Content!NoOne =>
                  sendM[c] # Content!NoOne /\ \A r : Abreast(r, c) => Abreast(r, c)'
  <2>1. sendM[c] # s /\ sendM'[c] = sendM[c] /\ published'[c] = published[c]
    BY <1>2, <1>6
  <2>2. /\ Promised(c)' = Promised(c)
        /\ sendM[c] # Content!NoOne => \A r : Abreast(r, c) => Abreast(r, c)'
    BY <1>1, <2>1, OfOthers
  <2>3. QED
    BY <2>1, <2>2
<1>7. QED
  BY <1>1, <1>5, <1>6

(* sendOpen returns and releases its channel.                              *)
LEMMA GivesBack ==
  ASSUME ContentTypeOK, Holding, Cutting, NEW s \in Senders, sender[s].pc \in Sending, Content!Return(s),
         NEW c0, c0 = sender[s].ch, \A c \in Channels : c # c0 => published'[c] = published[c]
  PROVE  /\ sender' \in [Senders -> Progress] /\ sendM' \in [Channels -> Senders \cup {Content!NoOne}]
         /\ Holding' /\ Cutting' /\ c0 \in Channels
         /\ sendM'[c0] = Content!NoOne /\ Promised(c0)' = published'[c0]
         /\ \A c \in Channels : c # c0 =>
              /\ Promised(c)' = Promised(c)
              /\ sendM'[c] # Content!NoOne =>
                   sendM[c] # Content!NoOne /\ \A r : Abreast(r, c) => Abreast(r, c)'
<1>0. PICK x \in Progress : x = sender[s]
  BY Sender
<1>1. PICK y : y = [x EXCEPT !.pc = "idle"]
  OBVIOUS
<1>2. y \in Progress /\ y.pc = "idle" /\ y.ch = x.ch
  BY <1>1 DEF Progress
<1>3. sender' = [sender EXCEPT ![s] = y] /\ sendM' = [sendM EXCEPT ![c0] = Content!NoOne]
  BY <1>0, <1>1 DEF Content!Return
<1>4. /\ sender' \in [Senders -> Progress] /\ Cutting' /\ sender'[s] = y
      /\ \A t \in Senders : t # s => sender'[t] = sender[t]
  BY <1>2, <1>3, Moved
<1>5. c0 \in Channels /\ sendM[c0] = s /\ s # Content!NoOne /\ \A c \in Channels : c # c0 => sendM[c] # s
  BY Sender
<1>6. /\ sendM' \in [Channels -> Senders \cup {Content!NoOne}]
      /\ sendM'[c0] = Content!NoOne /\ \A c \in Channels : c # c0 => sendM'[c] = sendM[c]
  BY <1>3, <1>5 DEF ContentTypeOK
<1>7. \A t \in Senders : sender'[t].pc \in Sending => sendM'[sender'[t].ch] = t
  <2>1. TAKE t \in Senders
  <2>2. CASE t = s
    BY <1>2, <1>4, <2>2 DEF Sending
  <2>3. CASE t # s
    <3>1. PICK z : z = sender[t]
      OBVIOUS
    <3>2. sender'[t] = z
      BY <1>4, <2>3, <3>1
    <3>3. ASSUME z.pc \in Sending PROVE sendM'[z.ch] = t
      <4>1. sendM[z.ch] = t /\ z.ch \in Channels
        BY <3>1, <3>3, Sender
      <4>2. z.ch # c0
        BY <1>5, <2>3, <4>1
      <4>3. QED
        BY <1>6, <4>1, <4>2
    <3>4. QED
      BY <3>2, <3>3
  <2>4. QED
    BY <2>2, <2>3
<1>8. ASSUME NEW c \in Channels, sendM'[c] # Content!NoOne
      PROVE  sender'[sendM'[c]].pc \in Sending /\ sender'[sendM'[c]].ch = c
  <2>1. PICK t : t = sendM[c]
    OBVIOUS
  <2>2. c # c0 /\ sendM'[c] = t
    BY <1>6, <1>8, <2>1
  <2>3. t \in Senders /\ t # s /\ sender[t].pc \in Sending /\ sender[t].ch = c
    BY <1>5, <1>8, <2>1, <2>2 DEF Holding, ContentTypeOK
  <2>4. QED
    BY <1>4, <2>2, <2>3
<1>9. Holding'
  BY <1>7, <1>8 DEF Holding
<1>10. ASSUME NEW c \in Channels, c # c0
       PROVE  /\ Promised(c)' = Promised(c)
              /\ sendM'[c] # Content!NoOne =>
                   sendM[c] # Content!NoOne /\ \A r : Abreast(r, c) => Abreast(r, c)'
  <2>1. sendM[c] # s /\ sendM'[c] = sendM[c] /\ published'[c] = published[c]
    BY <1>5, <1>6, <1>10
  <2>2. /\ Promised(c)' = Promised(c)
        /\ sendM[c] # Content!NoOne => \A r : Abreast(r, c) => Abreast(r, c)'
    BY <1>4, <2>1, OfOthers
  <2>3. QED
    BY <2>1, <2>2
<1>11. Promised(c0)' = published'[c0]
  BY <1>6 DEF Promised
<1>12. QED
  BY <1>4, <1>5, <1>6, <1>9, <1>10, <1>11

(* The steps that send no frame.                                           *)
LEMMA BeginsAndEnds ==
  ASSUME ContentInv, NEW s \in Senders,
         \/ Content!SendFails(s)
         \/ Content!Sent(s)
  PROVE  ContentInv'
<1>1. ContentTypeOK /\ Holding /\ Cutting /\ Foreseen /\ Content!FramesFit
  BY DEF ContentInv
<1>2. PICK x, c0, p : x = sender[s] /\ c0 = sender[s].ch /\ p = published[c0]
  OBVIOUS
<1>3. /\ sender[s].pc \in Sending /\ Content!Return(s) /\ UNCHANGED <<wire, recv, delivered>>
      /\ \/ ~AllSent(x) /\ published' = published
         \/ AllSent(x) /\ published' = [published EXCEPT ![c0] = Append(p, x.msg)]
  <2>1. CASE Content!SendFails(s)
    <3>1. sender[s].pc \in Sending /\ Content!Return(s) /\ UNCHANGED <<wire, recv, delivered, published>>
      BY <2>1 DEF Content!SendFails, Sending
    <3>2. x.i \in Nat /\ x.msg.size \in Nat
      BY <1>1, <1>2, <3>1, Sender
    <3>3. ~AllSent(x)
      BY <1>2, <2>1, <3>2 DEF Content!SendFails, AllSent
    <3>4. QED
      BY <3>1, <3>3
  <2>2. CASE Content!Sent(s)
    BY <1>2, <2>2 DEF Content!Sent, AllSent, Sending
  <2>3. QED
    BY <2>1, <2>2
<1>4. x.msg \in Texts /\ c0 \in Channels /\ sendM[c0] = s /\ s # Content!NoOne
  BY <1>1, <1>2, <1>3, Sender
<1>5. /\ p \in Seq(Texts) /\ published \in [Channels -> Seq(Texts)]
  BY <1>1, <1>2, <1>4 DEF ContentTypeOK
<1>6. /\ published' \in [Channels -> Seq(Texts)]
      /\ \A c \in Channels : c # c0 => published'[c] = published[c]
      /\ published'[c0] = IF AllSent(x) THEN Append(p, x.msg) ELSE p
  <2>1. Append(p, x.msg) \in Seq(Texts)
    BY <1>4, <1>5
  <2>2. QED
    BY <1>2, <1>3, <1>4, <1>5, <2>1
<1>7. /\ sender' \in [Senders -> Progress] /\ sendM' \in [Channels -> Senders \cup {Content!NoOne}]
      /\ Holding' /\ Cutting'
      /\ sendM'[c0] = Content!NoOne /\ Promised(c0)' = published'[c0]
      /\ \A c \in Channels : c # c0 =>
           /\ Promised(c)' = Promised(c)
           /\ sendM'[c] # Content!NoOne =>
                sendM[c] # Content!NoOne /\ \A r : Abreast(r, c) => Abreast(r, c)'
  BY <1>1, <1>2, <1>3, <1>6, GivesBack
<1>8. ContentTypeOK'
  BY <1>1, <1>3, <1>6, <1>7 DEF ContentTypeOK
<1>9. Promised(c0) = IF AllSent(x) THEN Append(p, x.msg) ELSE p
  BY <1>2, <1>4, Holder
<1>10. Foreseen'
  <2>1. \A c \in Channels :
          /\ Promised(c)' = Promised(c)
          /\ sendM'[c] # Content!NoOne =>
               sendM[c] # Content!NoOne /\ \A r : Abreast(r, c) => Abreast(r, c)'
    BY <1>6, <1>7, <1>9
  <2>2. QED
    BY <1>1, <1>3, <2>1, NothingSent
<1>11. Content!FramesFit'
  BY <1>1, <1>3 DEF Content!FramesFit
<1>12. QED
  BY <1>7, <1>8, <1>10, <1>11 DEF ContentInv

LEMMA PublishKeeps ==
  ASSUME ContentInv, NEW s \in Senders, NEW c0 \in Channels, NEW n \in Sizes, Content!Publish(s, c0, n)
  PROVE  ContentInv'
<1>1. ContentTypeOK /\ Holding /\ Cutting /\ Foreseen /\ Content!FramesFit
  BY DEF ContentInv
<1>2. sender[s].pc = "idle" /\ UNCHANGED <<sendM, wire, recv, published, delivered>>
  BY DEF Content!Publish
<1>3. PICK x \in Progress : x = sender[s]
  BY <1>1 DEF ContentTypeOK
<1>4. PICK m : m = [sender |-> s, number |-> x.count + 1, size |-> n]
  OBVIOUS
<1>5. PICK y : y = [pc |-> "lock", count |-> x.count + 1, ch |-> c0, i |-> 0, j |-> Content!size, msg |-> m]
  OBVIOUS
<1>6. n \in Nat /\ x.count + 1 \in Nat /\ m \in Texts /\ m.size \in Nat
  BY <1>3, <1>4, ContentAssumption DEF Content!ContentAssumption, Progress, Texts
<1>7. y \in Progress /\ y.pc = "lock" /\ CutRight(y)
  <2>1. y \in Progress
    BY <1>5, <1>6, SizeIsInt DEF Progress
  <2>2. y.ch \in Channels /\ y.msg \in Texts /\ y.i <= y.msg.size /\ y.i = 0
    BY <1>5, <1>6
  <2>3. y.j = y.i + Content!size
    BY <1>5, SizeIsInt
  <2>4. QED
    BY <1>5, <2>1, <2>2, <2>3 DEF CutRight
<1>8. sender' = [sender EXCEPT ![s] = y]
  BY <1>3, <1>4, <1>5 DEF Content!Publish
<1>9. /\ sender' \in [Senders -> Progress] /\ Cutting' /\ sender'[s] = y
      /\ \A t \in Senders : t # s => sender'[t] = sender[t]
  BY <1>1, <1>7, <1>8, Moved
<1>10. \A c \in Channels : sendM[c] # s
  <2>1. s # Content!NoOne
    BY ContentAssumption DEF Content!ContentAssumption
  <2>2. sender[s].pc \notin Sending
    BY <1>2 DEF Sending
  <2>3. QED
    BY <1>1, <2>1, <2>2 DEF Holding
<1>11. Holding'
  <2>1. \A t \in Senders : sender'[t].pc \in Sending => sendM'[sender'[t].ch] = t
    <3>1. TAKE t \in Senders
    <3>2. CASE t = s
      BY <1>7, <1>9, <3>2 DEF Sending
    <3>3. CASE t # s
      BY <1>1, <1>2, <1>9, <3>3 DEF Holding
    <3>4. QED
      BY <3>2, <3>3
  <2>2. ASSUME NEW c \in Channels, sendM'[c] # Content!NoOne
        PROVE  sender'[sendM'[c]].pc \in Sending /\ sender'[sendM'[c]].ch = c
    <3>1. PICK t : t = sendM[c]
      OBVIOUS
    <3>2. sendM'[c] = t /\ t \in Senders /\ t # s /\ sender[t].pc \in Sending /\ sender[t].ch = c
      BY <1>1, <1>2, <1>10, <2>2, <3>1 DEF Holding, ContentTypeOK
    <3>3. QED
      BY <1>9, <3>2
  <2>3. QED
    BY <2>1, <2>2 DEF Holding
<1>12. Foreseen'
  <2>1. ASSUME NEW c \in Channels
        PROVE  /\ Promised(c)' = Promised(c)
               /\ sendM'[c] # Content!NoOne =>
                    sendM[c] # Content!NoOne /\ \A r : Abreast(r, c) => Abreast(r, c)'
    <3>1. sendM[c] # s /\ sendM'[c] = sendM[c] /\ published'[c] = published[c]
      BY <1>2, <1>10
    <3>2. /\ Promised(c)' = Promised(c)
          /\ sendM[c] # Content!NoOne => \A r : Abreast(r, c) => Abreast(r, c)'
      BY <1>1, <1>9, <3>1, OfOthers
    <3>3. QED
      BY <3>1, <3>2
  <2>2. QED
    BY <1>1, <1>2, <2>1, NothingSent
<1>13. ContentTypeOK'
  BY <1>1, <1>2, <1>9 DEF ContentTypeOK
<1>14. Content!FramesFit'
  BY <1>1, <1>2 DEF Content!FramesFit
<1>15. QED
  BY <1>9, <1>11, <1>12, <1>13, <1>14 DEF ContentInv

LEMMA LockKeeps ==
  ASSUME ContentInv, NEW s \in Senders, Content!Lock(s)
  PROVE  ContentInv'
<1>1. ContentTypeOK /\ Holding /\ Cutting /\ Foreseen /\ Content!FramesFit
  BY DEF ContentInv
<1>2. PICK x \in Progress : x = sender[s]
  BY <1>1 DEF ContentTypeOK
<1>3. PICK c0 : c0 = x.ch
  OBVIOUS
<1>4. /\ x.pc = "lock" /\ sendM[c0] = Content!NoOne /\ sendM' = [sendM EXCEPT ![c0] = s]
      /\ UNCHANGED <<wire, recv, published, delivered>>
  BY <1>2, <1>3 DEF Content!Lock
<1>5. CutRight(x) /\ c0 \in Channels
  BY <1>1, <1>2, <1>3, <1>4 DEF Cutting, CutRight
<1>6. PICK y : y = [x EXCEPT !.pc = "method"]
  OBVIOUS
<1>7. y \in Progress /\ y.pc = "method" /\ CutRight(y) /\ y.ch = c0
  <2>1. y \in Progress /\ y.pc = "method"
        /\ y.ch = x.ch /\ y.msg = x.msg /\ y.i = x.i /\ y.j = x.j
    BY <1>2, <1>6 DEF Progress, Sending
  <2>2. CutRight(y)
    BY <1>4, <1>5, <2>1 DEF CutRight
  <2>3. QED
    BY <1>3, <2>1, <2>2
<1>8. sender' = [sender EXCEPT ![s] = y]
  BY <1>2, <1>6 DEF Content!Lock
<1>9. /\ sender' \in [Senders -> Progress] /\ Cutting' /\ sender'[s] = y
      /\ \A t \in Senders : t # s => sender'[t] = sender[t]
  BY <1>1, <1>7, <1>8, Moved
<1>10. s # Content!NoOne
  BY ContentAssumption DEF Content!ContentAssumption
<1>11. /\ sendM' \in [Channels -> Senders \cup {Content!NoOne}]
       /\ sendM'[c0] = s /\ \A c \in Channels : c # c0 => sendM'[c] = sendM[c]
  BY <1>1, <1>4, <1>5 DEF ContentTypeOK
<1>12. \A c \in Channels : sendM[c] # s
  <2>1. x.pc \notin Sending
    BY <1>4 DEF Sending
  <2>2. QED
    BY <1>1, <1>2, <1>10, <2>1 DEF Holding
<1>13. Holding'
  <2>1. \A t \in Senders : sender'[t].pc \in Sending => sendM'[sender'[t].ch] = t
    <3>1. TAKE t \in Senders
    <3>2. CASE t = s
      BY <1>7, <1>9, <1>11, <3>2
    <3>3. CASE t # s
      <4>1. PICK z : z = sender[t]
        OBVIOUS
      <4>2. sender'[t] = z
        BY <1>9, <3>3, <4>1
      <4>3. ASSUME z.pc \in Sending PROVE sendM'[z.ch] = t
        <5>1. sendM[z.ch] = t /\ z.ch \in Channels /\ t # Content!NoOne
          BY <1>1, <4>1, <4>3, Sender
        <5>2. z.ch # c0
          BY <1>4, <5>1
        <5>3. QED
          BY <1>11, <5>1, <5>2
      <4>4. QED
        BY <4>2, <4>3
    <3>4. QED
      BY <3>2, <3>3
  <2>2. ASSUME NEW c \in Channels, sendM'[c] # Content!NoOne
        PROVE  sender'[sendM'[c]].pc \in Sending /\ sender'[sendM'[c]].ch = c
    <3>1. CASE c = c0
      BY <1>7, <1>9, <1>11, <3>1 DEF Sending
    <3>2. CASE c # c0
      <4>1. PICK t : t = sendM[c]
        OBVIOUS
      <4>2. sendM'[c] = t /\ t \in Senders /\ t # s /\ sender[t].pc \in Sending /\ sender[t].ch = c
        BY <1>1, <1>11, <1>12, <2>2, <3>2, <4>1 DEF Holding, ContentTypeOK
      <4>3. QED
        BY <1>9, <4>2
    <3>3. QED
      BY <3>1, <3>2
  <2>3. QED
    BY <2>1, <2>2 DEF Holding
<1>14. Foreseen'
  <2>1. ASSUME NEW c \in Channels, c # c0
        PROVE  /\ Promised(c)' = Promised(c)
               /\ sendM'[c] # Content!NoOne =>
                    sendM[c] # Content!NoOne /\ \A r : Abreast(r, c) => Abreast(r, c)'
    <3>1. sendM[c] # s /\ sendM'[c] = sendM[c] /\ published'[c] = published[c]
      BY <1>4, <1>11, <1>12, <2>1
    <3>2. /\ Promised(c)' = Promised(c)
          /\ sendM[c] # Content!NoOne => \A r : Abreast(r, c) => Abreast(r, c)'
      BY <1>1, <1>9, <3>1, OfOthers
    <3>3. QED
      BY <3>1, <3>2
  <2>2. Promised(c0)' = Promised(c0) /\ \A r : Abreast(r, c0)'
    <3>1. PICK p : p = published[c0]
      OBVIOUS
    <3>2. /\ Promised(c0)' = IF AllSent(y) THEN Append(p, y.msg) ELSE p
          /\ \A r : Abreast(r, c0)' <=> Follows(r, y)
      BY <1>4, <1>5, <1>9, <1>10, <1>11, <3>1, HolderNext
    <3>3. ~AllSent(y) /\ \A r : Follows(r, y)
      BY <1>7 DEF AllSent, Follows
    <3>4. Promised(c0) = p
      BY <1>4, <3>1 DEF Promised
    <3>5. QED
      BY <3>2, <3>3, <3>4
  <2>3. \A c \in Channels :
          /\ Promised(c)' = Promised(c)
          /\ sendM'[c] # Content!NoOne =>
               \/ sendM[c] # Content!NoOne /\ \A r : Abreast(r, c) => Abreast(r, c)'
               \/ \A r : Abreast(r, c)'
    <3>1. TAKE c \in Channels
    <3>2. CASE c = c0
      BY <2>2, <3>2
    <3>3. CASE c # c0
      BY <2>1, <3>3
    <3>4. QED
      BY <3>2, <3>3
  <2>4. QED
    BY <1>1, <1>4, <2>3, NothingSent
<1>15. ContentTypeOK'
  BY <1>1, <1>4, <1>9, <1>11 DEF ContentTypeOK
<1>16. Content!FramesFit'
  BY <1>1, <1>4 DEF Content!FramesFit
<1>17. QED
  BY <1>9, <1>13, <1>14, <1>15, <1>16 DEF ContentInv

(* The frames on the wire fit when the next one does.                      *)
LEMMA OneMoreFits ==
  ASSUME NEW w \in Seq(Frames), NEW f \in Frames, f.kind = "body" => Len(f.part) \in 1..Content!size,
         \A k \in DOMAIN w : w[k].kind = "body" => Len(w[k].part) \in 1..Content!size
  PROVE  /\ Append(w, f) \in Seq(Frames)
         /\ \A k \in DOMAIN Append(w, f) :
              Append(w, f)[k].kind = "body" => Len(Append(w, f)[k].part) \in 1..Content!size
<1>1. PICK v : v = Append(w, f) /\ v \in Seq(Frames)
  BY AppendProperties
<1>2. /\ Len(w) \in Nat /\ Len(v) = Len(w) + 1 /\ v[Len(w) + 1] = f
      /\ DOMAIN w = 1..Len(w) /\ DOMAIN v = 1..Len(v)
      /\ \A k \in 1..Len(w) : v[k] = w[k]
  BY <1>1
<1>3. ASSUME NEW k \in DOMAIN v, v[k].kind = "body" PROVE Len(v[k].part) \in 1..Content!size
  <2>1. k \in 1..Len(w) \/ k = Len(w) + 1
    BY <1>2
  <2>2. CASE k \in 1..Len(w)
    <3>1. v[k] = w[k] /\ k \in DOMAIN w
      BY <1>2, <2>2
    <3>2. QED
      BY <1>3, <3>1
  <2>3. CASE k = Len(w) + 1
    BY <1>2, <1>3, <2>3
  <2>4. QED
    BY <2>1, <2>2, <2>3
<1>4. QED
  BY <1>1, <1>3

LEMMA FitsBySize ==
  Content!FramesFit <=> \A k \in DOMAIN wire : wire[k].kind = "body" => Len(wire[k].part) \in 1..Content!size
  BY Zenon DEF Content!FramesFit, Content!size

LEMMA FitsBySizeNext ==
  Content!FramesFit' <=> \A k \in DOMAIN wire' : wire'[k].kind = "body" => Len(wire'[k].part) \in 1..Content!size
  BY Zenon DEF Content!FramesFit, Content!size, Content!FrameSize, Content!frameHeaderSize, Content!pick,
     Content!Min2, Content!Max2

(* A frame of sendOpen keeps the invariant when the receiving side is      *)
(* brought from where the sender was to where it is.                       *)
LEMMA Sends ==
  ASSUME ContentInv, NEW s \in Senders, NEW x \in Progress, x = sender[s], x.pc \in Sending, ~AllSent(x),
         NEW y \in Progress, sender' = [sender EXCEPT ![s] = y], y.pc \in Sending,
         y.ch = x.ch, y.msg = x.msg, CutRight(y), UNCHANGED <<sendM, recv, published, delivered>>,
         NEW f \in Frames, f.ch = x.ch, f.msg = x.msg, wire' = Append(wire, f),
         f.kind = "body" => Len(f.part) \in 1..Content!size,
         \A r \in Receptions : Follows(r, x) =>
           /\ Finishes(r, f) <=> AllSent(y)
           /\ Finishes(r, f) => Taken(r, f).msg = x.msg /\ Taken(r, f).body = Content!Body(x.msg)
           /\ Follows(Taken(r, f), y)
  PROVE  ContentInv'
<1>1. ContentTypeOK /\ Holding /\ Cutting /\ Foreseen /\ Content!FramesFit
  BY DEF ContentInv
<1>2. /\ sender' \in [Senders -> Progress] /\ Holding' /\ Cutting' /\ sender'[s] = y
      /\ \A c \in Channels : c # y.ch =>
           /\ Promised(c)' = Promised(c)
           /\ sendM'[c] # Content!NoOne =>
                sendM[c] # Content!NoOne /\ \A r : Abreast(r, c) => Abreast(r, c)'
  BY <1>1, GoesOn
<1>3. PICK c0 \in Channels : c0 = x.ch
  BY <1>1, Sender
<1>4. sendM[c0] = s /\ s # Content!NoOne /\ sendM'[c0] = s
  BY <1>1, <1>3, Sender
<1>5. PICK p : p = published[c0]
  OBVIOUS
<1>6. /\ Promised(c0) = p
      /\ \A r : Abreast(r, c0) <=> Follows(r, x)
  BY <1>4, <1>5, Holder
<1>7. /\ Promised(c0)' = IF AllSent(y) THEN Append(p, x.msg) ELSE p
      /\ \A r : Abreast(r, c0)' <=> Follows(r, y)
  BY <1>2, <1>4, <1>5, HolderNext
<1>8. ASSUME NEW r \in Receptions, Abreast(r, c0)
      PROVE  /\ IF Finishes(r, f)
                THEN /\ Taken(r, f).msg = f.msg /\ Taken(r, f).body = Content!Body(f.msg)
                     /\ Promised(c0)' = Append(Promised(c0), f.msg)
                ELSE Promised(c0)' = Promised(c0)
             /\ Abreast(Taken(r, f), c0)'
  <2>1. Follows(r, x)
    BY <1>6, <1>8
  <2>2. /\ Finishes(r, f) <=> AllSent(y)
        /\ Finishes(r, f) => Taken(r, f).msg = x.msg /\ Taken(r, f).body = Content!Body(x.msg)
        /\ Follows(Taken(r, f), y)
    BY <2>1
  <2>3. QED
    BY <1>6, <1>7, <2>2, Zenon
<1>9. Foreseen'
  <2>1. f.ch = c0 /\ y.ch = c0
    BY <1>3
  <2>2. \A c \in Channels : c # f.ch =>
           /\ Promised(c)' = Promised(c)
           /\ sendM'[c] # Content!NoOne =>
                sendM[c] # Content!NoOne /\ \A r : Abreast(r, c) => Abreast(r, c)'
    BY <1>2, <2>1
  <2>3. \A r \in Receptions : Abreast(r, f.ch) =>
             /\ IF Finishes(r, f)
                THEN /\ Taken(r, f).msg = f.msg /\ Taken(r, f).body = Content!Body(f.msg)
                     /\ Promised(f.ch)' = Append(Promised(f.ch), f.msg)
                ELSE Promised(f.ch)' = Promised(f.ch)
             /\ Abreast(Taken(r, f), f.ch)'
    BY <1>8, <2>1
  <2>4. UNCHANGED <<recv, delivered>> /\ sendM[f.ch] # Content!NoOne
    BY <1>4, <2>1
  <2>5. QED
    BY <1>1, <2>2, <2>3, <2>4, FrameSent
<1>10. PICK w \in Seq(Frames) : w = wire
  BY <1>1 DEF ContentTypeOK
<1>11. wire' \in Seq(Frames) /\ Content!FramesFit'
  <2>1. \A k \in DOMAIN w : w[k].kind = "body" => Len(w[k].part) \in 1..Content!size
    BY <1>1, <1>10, FitsBySize
  <2>2. /\ Append(w, f) \in Seq(Frames)
        /\ \A k \in DOMAIN Append(w, f) :
             Append(w, f)[k].kind = "body" => Len(Append(w, f)[k].part) \in 1..Content!size
    BY <2>1, OneMoreFits
  <2>3. wire' = Append(w, f)
    BY <1>10
  <2>4. QED
    BY <2>2, <2>3, FitsBySizeNext
<1>12. ContentTypeOK'
  BY <1>1, <1>2, <1>11 DEF ContentTypeOK
<1>13. QED
  BY <1>2, <1>9, <1>11, <1>12 DEF ContentInv


LEMMA MethodKeeps ==
  ASSUME ContentInv, NEW s \in Senders, Content!SendMethod(s)
  PROVE  ContentInv'
<1>1. ContentTypeOK /\ Holding /\ Cutting
  BY DEF ContentInv
<1>2. PICK x \in Progress : x = sender[s]
  BY <1>1 DEF ContentTypeOK
<1>3. x.pc = "method" /\ x.pc \in Sending /\ UNCHANGED <<sendM, recv, published, delivered>>
  BY <1>2 DEF Content!SendMethod, Sending
<1>4. CutRight(x) /\ x.ch \in Channels /\ x.msg \in Texts /\ x.msg.size \in Nat
  BY <1>1, <1>2, <1>3, Sender
<1>5. PICK y : y = [x EXCEPT !.pc = "header"]
  OBVIOUS
<1>6. /\ y \in Progress /\ y.pc = "header" /\ y.pc \in Sending
      /\ y.ch = x.ch /\ y.msg = x.msg /\ y.i = x.i /\ y.j = x.j
  BY <1>5 DEF Progress, Sending
<1>7. CutRight(y)
  BY <1>3, <1>4, <1>6 DEF CutRight
<1>8. PICK f : f = [kind |-> "method", ch |-> x.ch, msg |-> x.msg, part |-> <<>>]
  OBVIOUS
<1>9. f \in Frames /\ f.ch = x.ch /\ f.msg = x.msg /\ f.kind = "method"
  BY <1>4, <1>8 DEF Frames
<1>10. wire' = Append(wire, f) /\ sender' = [sender EXCEPT ![s] = y]
  BY <1>2, <1>5, <1>8 DEF Content!SendMethod, Content!Frame
<1>11. ~AllSent(x) /\ ~AllSent(y)
  BY <1>3, <1>6 DEF AllSent
<1>12. ASSUME NEW r \in Receptions
       PROVE  ~Finishes(r, f) /\ Follows(Taken(r, f), y)
  BY <1>6, <1>9 DEF Finishes, Taken, Follows
<1>13. f.kind # "body"
  BY <1>9
<1>14. QED
  BY <1>2, <1>3, <1>6, <1>7, <1>9, <1>10, <1>11, <1>12, <1>13, Sends

LEMMA HeaderKeeps ==
  ASSUME ContentInv, NEW s \in Senders, Content!SendHeader(s)
  PROVE  ContentInv'
<1>1. ContentTypeOK /\ Holding /\ Cutting
  BY DEF ContentInv
<1>2. PICK x \in Progress : x = sender[s]
  BY <1>1 DEF ContentTypeOK
<1>3. x.pc = "header" /\ x.pc \in Sending /\ UNCHANGED <<sendM, recv, published, delivered>>
  BY <1>2 DEF Content!SendHeader, Sending
<1>4. CutRight(x) /\ x.ch \in Channels /\ x.msg \in Texts /\ x.msg.size \in Nat
  BY <1>1, <1>2, <1>3, Sender
<1>5. PICK y : y = [x EXCEPT !.pc = "body"]
  OBVIOUS
<1>6. /\ y \in Progress /\ y.pc = "body" /\ y.pc \in Sending
      /\ y.ch = x.ch /\ y.msg = x.msg /\ y.i = x.i /\ y.j = x.j
  BY <1>5 DEF Progress, Sending
<1>7. CutRight(y) /\ y.i = 0
  BY <1>3, <1>4, <1>6 DEF CutRight
<1>8. PICK f : f = [kind |-> "header", ch |-> x.ch, msg |-> x.msg, part |-> <<>>]
  OBVIOUS
<1>9. f \in Frames /\ f.ch = x.ch /\ f.msg = x.msg /\ f.kind = "header"
  BY <1>4, <1>8 DEF Frames
<1>10. wire' = Append(wire, f) /\ sender' = [sender EXCEPT ![s] = y]
  BY <1>2, <1>5, <1>8 DEF Content!SendHeader, Content!Frame
<1>11. ~AllSent(x) /\ (AllSent(y) <=> x.msg.size = 0)
  BY <1>3, <1>4, <1>6, <1>7 DEF AllSent
<1>12. PICK b \in Seq(Octets) : b = Content!Body(x.msg) /\ Len(b) = x.msg.size
  BY <1>4, BodyOf
<1>13. SubSeq(b, 1, 0) = <<>> /\ (x.msg.size = 0 => b = <<>>)
  BY <1>12
<1>14. ASSUME NEW r \in Receptions, Follows(r, x)
       PROVE  /\ Finishes(r, f) <=> AllSent(y)
              /\ Finishes(r, f) => Taken(r, f).msg = x.msg /\ Taken(r, f).body = Content!Body(x.msg)
              /\ Follows(Taken(r, f), y)
  <2>1. r.state = "header" /\ r.msg = x.msg /\ r.body = <<>>
    BY <1>3, <1>14 DEF Follows
  <2>2. Finishes(r, f) <=> x.msg.size = 0
    BY <1>9, <2>1 DEF Finishes
  <2>3. PICK t : t = Taken(r, f)
    OBVIOUS
  <2>4. t = [state |-> IF x.msg.size = 0 THEN "method" ELSE "content", msg |-> x.msg,
             need |-> x.msg.size, body |-> <<>>]
    BY <1>9, <2>1, <2>3 DEF Taken
  <2>5. Finishes(r, f) => t.msg = x.msg /\ t.body = b
    BY <1>13, <2>2, <2>4
  <2>6. Follows(t, y)
    <3>1. CASE x.msg.size = 0
      BY <1>6, <1>7, <3>1 DEF Follows
    <3>2. CASE x.msg.size # 0
      <4>1. t = [state |-> "content", msg |-> x.msg, need |-> x.msg.size, body |-> <<>>]
        BY <2>4, <3>2
      <4>2. t = [state |-> "content", msg |-> y.msg, need |-> y.msg.size,
                 body |-> SubSeq(Content!Body(y.msg), 1, y.i)]
        BY <1>6, <1>7, <1>12, <1>13, <4>1
      <4>3. y.pc # "header"
        BY <1>6
      <4>4. QED
        BY <4>2, <4>3, Zenon DEF Follows
    <3>3. QED
      BY <3>1, <3>2
  <2>7. QED
    BY <1>11, <1>12, <2>2, <2>3, <2>5, <2>6
<1>15. f.kind # "body"
  BY <1>9
<1>16. QED
  BY <1>2, <1>3, <1>6, <1>7, <1>9, <1>10, <1>11, <1>14, <1>15, Sends

LEMMA BodyKeeps ==
  ASSUME Content!size > 0, ContentInv, NEW s \in Senders, Content!SendBody(s)
  PROVE  ContentInv'
<1>1. ContentTypeOK /\ Holding /\ Cutting
  BY DEF ContentInv
<1>2. PICK x \in Progress : x = sender[s]
  BY <1>1 DEF ContentTypeOK
<1>3. /\ x.pc = "body" /\ x.pc \in Sending /\ x.i < x.msg.size
      /\ UNCHANGED <<sendM, recv, published, delivered>>
  BY <1>2 DEF Content!SendBody, Sending
<1>4. /\ CutRight(x) /\ x.ch \in Channels /\ x.msg \in Texts /\ x.msg.size \in Nat
      /\ x.i \in Nat /\ x.j = x.i + Content!size
  BY <1>1, <1>2, <1>3, Sender DEF CutRight
<1>5. PICK n \in Nat, i \in Nat : n = x.msg.size /\ i = x.i
  BY <1>4
<1>6. PICK j : j = Content!Min2(x.j, n)
  OBVIOUS
<1>7. j \in Nat /\ i < j /\ j <= n /\ j - i \in 1..Content!size /\ (j # n => j = i + Content!size)
  BY <1>3, <1>4, <1>5, <1>6, SizeIsInt DEF Content!Min2
<1>8. PICK b \in Seq(Octets) : b = Content!Body(x.msg) /\ Len(b) = n
  BY <1>4, <1>5, BodyOf
<1>9. PICK q : q = SubSeq(b, i + 1, j)
  OBVIOUS
<1>10. /\ q \in Seq(Octets) /\ Len(q) = j - i
       /\ SubSeq(b, 1, i) \o q = SubSeq(b, 1, j)
       /\ Len(SubSeq(b, 1, j)) = j /\ SubSeq(b, 1, n) = b
  BY <1>7, <1>8, <1>9, CutUp
<1>11. PICK k, y : k = j + Content!size /\ y = [x EXCEPT !.i = j, !.j = k]
  OBVIOUS
<1>12. /\ y \in Progress /\ y.pc = "body" /\ y.pc \in Sending
       /\ y.ch = x.ch /\ y.msg = x.msg /\ y.i = j /\ y.j = j + Content!size
  <2>1. j \in Nat /\ k \in Int
    BY <1>7, <1>11, SizeIsInt
  <2>2. y \in Progress /\ y.pc = x.pc /\ y.ch = x.ch /\ y.msg = x.msg /\ y.i = j /\ y.j = k
    BY <1>11, <2>1 DEF Progress
  <2>3. QED
    BY <1>3, <1>11, <2>2
<1>13. CutRight(y)
  BY <1>4, <1>5, <1>7, <1>12 DEF CutRight
<1>14. PICK f : f = [kind |-> "body", ch |-> x.ch, msg |-> x.msg, part |-> q]
  OBVIOUS
<1>15. f \in Frames /\ f.ch = x.ch /\ f.msg = x.msg /\ f.kind = "body" /\ f.part = q
  BY <1>4, <1>10, <1>14 DEF Frames
<1>16. wire' = Append(wire, f) /\ sender' = [sender EXCEPT ![s] = y]
  <2>1. ~(j < i)
    BY <1>7
  <2>2. Content!Slice(s) = q
    BY <1>2, <1>5, <1>6, <1>8, <1>9 DEF Content!Slice
  <2>3. j = Content!Min2(sender[s].j, sender[s].msg.size) /\ i = sender[s].i
    BY <1>2, <1>5, <1>6
  <2>4. /\ wire' = Append(wire, [Content!Frame("body", s) EXCEPT !.part = Content!Slice(s)])
        /\ sender' = [sender EXCEPT ![s].i = j, ![s].j = j + Content!size]
    BY <2>1, <2>3, Zenon DEF Content!SendBody
  <2>5. [Content!Frame("body", s) EXCEPT !.part = Content!Slice(s)] = f
    BY <1>2, <1>14, <2>2 DEF Content!Frame
  <2>6. [sender EXCEPT ![s].i = j, ![s].j = j + Content!size] = [sender EXCEPT ![s] = y]
    BY <1>1, <1>2, <1>11 DEF ContentTypeOK
  <2>7. QED
    BY <2>4, <2>5, <2>6
<1>17. ~AllSent(x) /\ (AllSent(y) <=> j >= n)
  BY <1>3, <1>4, <1>5, <1>12 DEF AllSent
<1>18. ASSUME NEW r \in Receptions, Follows(r, x)
       PROVE  /\ Finishes(r, f) <=> AllSent(y)
              /\ Finishes(r, f) => Taken(r, f).msg = x.msg /\ Taken(r, f).body = Content!Body(x.msg)
              /\ Follows(Taken(r, f), y)
  <2>1. r = [state |-> "content", msg |-> x.msg, need |-> n, body |-> SubSeq(b, 1, i)]
    BY <1>3, <1>5, <1>8, <1>18, Zenon DEF Follows
  <2>2. r.state = "content" /\ r.msg = x.msg /\ r.need = n /\ r.body \o f.part = SubSeq(b, 1, j)
    BY <1>10, <1>15, <2>1
  <2>3. Finishes(r, f) <=> j >= n
    BY <1>10, <1>15, <2>2 DEF Finishes
  <2>4. PICK t : t = Taken(r, f)
    OBVIOUS
  <2>5. t = [state |-> IF j >= n THEN "method" ELSE "content", msg |-> x.msg, need |-> n,
             body |-> SubSeq(b, 1, j)]
    <3>1. f.kind = "body" /\ f.kind # "method" /\ f.kind # "header"
      BY <1>15
    <3>2. Len(r.body \o f.part) = j
      BY <1>10, <2>2
    <3>3. QED
      BY <2>2, <2>4, <3>1, <3>2, Zenon DEF Taken
  <2>6. j >= n => t.msg = x.msg /\ t.body = b
    <3>1. j >= n => j = n
      BY <1>7
    <3>2. QED
      BY <1>10, <2>5, <3>1
  <2>7. Follows(t, y)
    <3>1. CASE j >= n
      <4>1. y.pc # "header" /\ y.msg.size = n /\ y.i = j /\ ~(j < n)
        BY <1>5, <1>7, <1>12, <3>1
      <4>2. QED
        BY <4>1, Zenon DEF Follows
    <3>2. CASE ~(j >= n)
      <4>1. t = [state |-> "content", msg |-> x.msg, need |-> n, body |-> SubSeq(b, 1, j)]
        BY <2>5, <3>2
      <4>2. t = [state |-> "content", msg |-> y.msg, need |-> y.msg.size,
                 body |-> SubSeq(Content!Body(y.msg), 1, y.i)]
        BY <1>5, <1>8, <1>12, <4>1
      <4>3. y.pc # "header"
        BY <1>12
      <4>4. QED
        BY <4>2, <4>3, Zenon DEF Follows
    <3>3. QED
      BY <3>1, <3>2
  <2>8. QED
    BY <1>8, <1>17, <2>3, <2>4, <2>6, <2>7
<1>19. Len(f.part) \in 1..Content!size
  BY <1>7, <1>10, <1>15
<1>20. QED
  BY <1>2, <1>3, <1>12, <1>13, <1>15, <1>16, <1>17, <1>18, <1>19, Sends


(* What the receiving side is after all of the frames w, by the trace R.   *)
Last(R, w) == R[Len(w) + 1]

(* More frames that deliver nothing, all of one channel.                   *)
Silent(R, w, Q, v, d) ==
  /\ \A k \in 1..(Len(v) + 1) : \E h \in 1..(Len(w) + 1) : Q[k].delivered = R[h].delivered
  /\ Last(Q, v).delivered = Last(R, w).delivered
  /\ \A c \in Channels : c # d => Last(Q, v).recv[c] = Last(R, w).recv[c]

(* A frame that finishes no message changes the state of its channel only. *)
LEMMA Unfinished ==
  ASSUME NEW w \in Seq(Frames), NEW F, NEW R, IsTrace(R, w, F), NEW f \in Frames,
         ~Finishes(Last(R, w).recv[f.ch], f)
  PROVE  \E Q : /\ IsTrace(Q, Append(w, f), F)
                /\ Silent(R, w, Q, Append(w, f), f.ch)
                /\ Last(Q, Append(w, f)).recv[f.ch] = Taken(Last(R, w).recv[f.ch], f)
<1>0. PICK n \in Nat : n = Len(w)
  OBVIOUS
<1>1. PICK Q : /\ IsTrace(Q, Append(w, f), F)
               /\ \A k \in 1..(n + 1) : Q[k] = R[k]
               /\ Q[n + 2] = After(R[n + 1], f)
  BY <1>0, Extended
<1>2. n + 1 \in 1..(n + 1) /\ f.ch \in Channels
  BY DEF Frames
<1>3. PICK G \in Receivers : G = R[n + 1] /\ G = Last(R, w)
  <2>1. R \in [1..(n + 1) -> Receivers]
    BY <1>0, Zenon DEF IsTrace
  <2>2. QED
    BY <1>0, <1>2, <2>1 DEF Last
<1>4. G.recv \in [Channels -> Receptions]
  BY DEF Receivers
<1>5. /\ After(G, f).delivered = G.delivered
      /\ After(G, f).recv = [G.recv EXCEPT ![f.ch] = Taken(G.recv[f.ch], f)]
  BY <1>3 DEF After
<1>6. PICK v : v = Append(w, f) /\ Len(v) = n + 1
  BY <1>0, AppendProperties
<1>7. PICK H : H = Q[n + 2] /\ H = Last(Q, v)
  <2>1. Len(v) + 1 = n + 2
    BY <1>6
  <2>2. QED
    BY <2>1 DEF Last
<1>8. H = After(G, f)
  BY <1>1, <1>3, <1>7
<1>9. /\ H.delivered = G.delivered
      /\ H.recv[f.ch] = Taken(G.recv[f.ch], f)
      /\ \A c \in Channels : c # f.ch => H.recv[c] = G.recv[c]
  BY <1>2, <1>4, <1>5, <1>8
<1>10. ASSUME NEW k \in 1..(n + 2) PROVE \E h \in 1..(n + 1) : Q[k].delivered = R[h].delivered
  <2>1. CASE k \in 1..(n + 1)
    BY <1>1, <2>1
  <2>2. CASE k = n + 2
    BY <1>2, <1>3, <1>7, <1>9, <2>2
  <2>3. QED
    BY <2>1, <2>2
<1>11. Silent(R, w, Q, v, f.ch)
  <2>1. Len(v) + 1 = n + 2 /\ Len(w) + 1 = n + 1
    BY <1>0, <1>6
  <2>2. QED
    BY <1>3, <1>7, <1>9, <1>10, <2>1 DEF Silent
<1>12. QED
  BY <1>1, <1>3, <1>6, <1>7, <1>9, <1>11

LEMMA SilentTwice ==
  ASSUME NEW R, NEW w, NEW Q, NEW v, NEW P, NEW u, NEW d, Silent(R, w, Q, v, d), Silent(Q, v, P, u, d)
  PROVE  Silent(R, w, P, u, d)
<1>1. ASSUME NEW k \in 1..(Len(u) + 1) PROVE \E h \in 1..(Len(w) + 1) : P[k].delivered = R[h].delivered
  <2>1. PICK i \in 1..(Len(v) + 1) : P[k].delivered = Q[i].delivered
    BY Zenon DEF Silent
  <2>2. PICK h \in 1..(Len(w) + 1) : Q[i].delivered = R[h].delivered
    BY Zenon DEF Silent
  <2>3. QED
    BY <2>1, <2>2
<1>2. QED
  BY <1>1, Zenon DEF Silent

(* Frames of a message given up deliver nothing.                           *)
LEMMA GivenUp ==
  ASSUME NEW R, \A k \in 1..(Len(wire) + 1) : Faithful(R[k]), Complete(Last(R, wire)),
         NEW Q, IsTrace(Q, wire', [recv |-> recv, delivered |-> delivered]),
         NEW d \in Channels, Silent(R, wire, Q, wire', d),
         UNCHANGED <<recv, delivered>>, \A c \in Channels : Promised(c)' = Promised(c),
         sendM'[d] = Content!NoOne,
         \A c \in Channels : c # d /\ sendM'[c] # Content!NoOne =>
           sendM[c] # Content!NoOne /\ \A r : Abreast(r, c) => Abreast(r, c)'
  PROVE  Foreseen'
<1>1. PICK w, v : w = wire /\ v = wire'
  OBVIOUS
<1>2. Silent(R, w, Q, v, d)
  BY <1>1
<1>3. ASSUME NEW k \in 1..(Len(v) + 1) PROVE Faithful(Q[k])'
  <2>1. PICK h \in 1..(Len(w) + 1) : Q[k].delivered = R[h].delivered
    BY <1>2, Zenon DEF Silent
  <2>2. Faithful(R[h])
    BY <1>1
  <2>3. QED
    BY <2>1, <2>2 DEF Faithful
<1>4. PICK G, H : G = Last(Q, v) /\ H = Last(R, w)
  OBVIOUS
<1>5. G.delivered = H.delivered /\ \A c \in Channels : c # d => G.recv[c] = H.recv[c]
  BY <1>2, <1>4, Zenon DEF Silent
<1>6. Complete(H)
  BY <1>1, <1>4
<1>7. Complete(G)'
  <2>1. ASSUME NEW c \in Channels PROVE Len(G.delivered[c]) = Len(Promised(c)')
    BY <1>5, <1>6 DEF Complete
  <2>2. ASSUME NEW c \in Channels, sendM'[c] # Content!NoOne PROVE Abreast(G.recv[c], c)'
    <3>1. c # d /\ G.recv[c] = H.recv[c]
      BY <1>5, <2>2
    <3>2. sendM[c] # Content!NoOne /\ \A r : Abreast(r, c) => Abreast(r, c)'
      BY <2>2, <3>1
    <3>3. PICK r : r = H.recv[c]
      OBVIOUS
    <3>4. Abreast(r, c)
      BY <1>6, <3>2, <3>3 DEF Complete
    <3>5. Abreast(r, c)'
      BY <3>2, <3>4
    <3>6. G.recv[c] = r
      BY <3>1, <3>3
    <3>7. QED
      BY <3>5, <3>6
  <2>3. QED
    BY <2>1, <2>2 DEF Complete
<1>8. IsTrace(Q, wire', [recv |-> recv', delivered |-> delivered'])
  OBVIOUS
<1>9. QED
  BY <1>1, <1>3, <1>4, <1>7, <1>8 DEF Foreseen, Last


LEMMA AbandonKeeps ==
  ASSUME Content!size > 0, ContentInv, NEW s \in Senders, NEW late \in BOOLEAN, Content!Abandon(s, late)
  PROVE  ContentInv'
<1>1. ContentTypeOK /\ Holding /\ Cutting /\ Foreseen /\ Content!FramesFit
  BY DEF ContentInv
<1>2. PICK x \in Progress : x = sender[s]
  BY <1>1 DEF ContentTypeOK
<1>3. /\ x.pc \in {"header", "body"} /\ x.pc \in Sending /\ x.i < x.msg.size
      /\ Content!Return(s) /\ UNCHANGED <<recv, published, delivered>>
  BY <1>2 DEF Content!Abandon, Sending
<1>4. /\ CutRight(x) /\ x.ch \in Channels /\ x.msg \in Texts /\ x.msg.size \in Nat
      /\ x.i \in Nat /\ x.j = x.i + Content!size /\ sendM[x.ch] = s /\ s # Content!NoOne
  BY <1>1, <1>2, <1>3, Sender DEF CutRight
<1>5. PICK c0 \in Channels : c0 = x.ch
  BY <1>4
<1>6. /\ sender' \in [Senders -> Progress] /\ sendM' \in [Channels -> Senders \cup {Content!NoOne}]
      /\ Holding' /\ Cutting' /\ sendM'[c0] = Content!NoOne /\ Promised(c0)' = published'[c0]
      /\ \A c \in Channels : c # c0 =>
           /\ Promised(c)' = Promised(c)
           /\ sendM'[c] # Content!NoOne =>
                sendM[c] # Content!NoOne /\ \A r : Abreast(r, c) => Abreast(r, c)'
  BY <1>1, <1>2, <1>3, <1>5, GivesBack
<1>7. Promised(c0)' = Promised(c0)
  <2>1. ~AllSent(x)
    BY <1>3, <1>4 DEF AllSent
  <2>2. Promised(c0) = published[c0]
    BY <1>2, <1>4, <1>5, <2>1, Holder
  <2>3. QED
    BY <1>3, <1>6, <2>2
<1>8. PICK q : q = Content!Slice(s)
  OBVIOUS
<1>9. q \in Seq(Octets) /\ Len(q) \in 1..Content!size
  <2>1. PICK n \in Nat, i \in Nat : n = x.msg.size /\ i = x.i
    BY <1>4
  <2>2. PICK j : j = Content!Min2(x.j, n)
    OBVIOUS
  <2>3. j \in Nat /\ i <= j /\ j <= n /\ j - i \in 1..Content!size
    BY <1>3, <1>4, <2>1, <2>2, SizeIsInt DEF Content!Min2
  <2>4. PICK b \in Seq(Octets) : b = Content!Body(x.msg) /\ Len(b) = n
    BY <1>4, <2>1, BodyOf
  <2>5. q = SubSeq(b, i + 1, j)
    BY <1>2, <1>8, <2>1, <2>2, <2>4 DEF Content!Slice
  <2>6. QED
    BY <2>3, <2>4, <2>5, CutUp
<1>10. PICK f, g : /\ f = [kind |-> "plain", ch |-> x.ch, msg |-> x.msg, part |-> <<>>]
                   /\ g = [kind |-> x.pc, ch |-> x.ch, msg |-> x.msg, part |-> q]
  OBVIOUS
<1>11. /\ f \in Frames /\ f.ch = c0 /\ f.kind = "plain"
       /\ g \in Frames /\ g.ch = c0 /\ g.kind \in {"header", "body"} /\ g.part = q
  BY <1>3, <1>4, <1>5, <1>9, <1>10 DEF Frames
<1>12. PICK w \in Seq(Frames) : w = wire
  BY <1>1 DEF ContentTypeOK
<1>13. PICK v : v = Append(w, f) /\ v \in Seq(Frames)
  BY <1>11, AppendProperties
<1>14. \/ late /\ wire' = Append(v, g)
       \/ ~late /\ wire' = v
  <2>1. wire' = w \o <<f>> \o (IF late THEN <<g>> ELSE <<>>)
    <3>1. /\ Content!Frame("plain", s) = f
          /\ [Content!Frame(sender[s].pc, s) EXCEPT !.part = Content!Slice(s)] = g
      BY <1>2, <1>8, <1>10 DEF Content!Frame
    <3>2. wire' = wire \o <<Content!Frame("plain", s)>>
                  \o (IF late THEN <<[Content!Frame(sender[s].pc, s) EXCEPT !.part = Content!Slice(s)]>> ELSE <<>>)
      BY Zenon DEF Content!Abandon
    <3>3. QED
      BY <1>12, <3>1, <3>2
  <2>2. v = w \o <<f>>
    BY <1>11, <1>13, AppendIsConcat
  <2>3. Append(v, g) = v \o <<g>>
    BY <1>11, <1>13, AppendIsConcat
  <2>4. v \o <<>> = v
    BY <1>13, ConcatEmptySeq
  <2>5. QED
    BY <2>1, <2>2, <2>3, <2>4
<1>15. PICK F : F = [recv |-> recv, delivered |-> delivered]
  OBVIOUS
<1>16. PICK R : /\ IsTrace(R, w, F)
                /\ \A k \in 1..(Len(w) + 1) : Faithful(R[k])
                /\ Complete(Last(R, w))
  BY <1>1, <1>12, <1>15 DEF Foreseen, Last
<1>17. PICK Q : /\ IsTrace(Q, v, F) /\ Silent(R, w, Q, v, c0)
                /\ Last(Q, v).recv[c0] = Taken(Last(R, w).recv[c0], f)
  <2>1. ~Finishes(Last(R, w).recv[f.ch], f)
    BY <1>11 DEF Finishes
  <2>2. \E Q : /\ IsTrace(Q, Append(w, f), F) /\ Silent(R, w, Q, Append(w, f), f.ch)
               /\ Last(Q, Append(w, f)).recv[f.ch] = Taken(Last(R, w).recv[f.ch], f)
    BY <1>11, <1>16, <2>1, Unfinished
  <2>3. QED
    BY <1>11, <1>13, <2>2
<1>18. Last(Q, v).recv[c0].state = "method"
  <2>1. Taken(Last(R, w).recv[c0], f).state = "method"
    BY <1>11 DEF Taken
  <2>2. QED
    BY <1>17, <2>1
<1>19. PICK P : IsTrace(P, Append(v, g), F) /\ Silent(R, w, P, Append(v, g), c0)
  <2>1. ~Finishes(Last(Q, v).recv[g.ch], g)
    BY <1>11, <1>18 DEF Finishes
  <2>2. PICK P : IsTrace(P, Append(v, g), F) /\ Silent(Q, v, P, Append(v, g), g.ch)
    BY <1>11, <1>13, <1>17, <2>1, Unfinished
  <2>3. Silent(R, w, P, Append(v, g), c0)
    BY <1>11, <1>17, <2>2, SilentTwice
  <2>4. QED
    BY <2>2, <2>3
<1>20. PICK T : IsTrace(T, wire', F) /\ Silent(R, wire, T, wire', c0)
  BY <1>12, <1>14, <1>17, <1>19
<1>21. \A c \in Channels : Promised(c)' = Promised(c)
  BY <1>6, <1>7
<1>22. Foreseen'
  <2>1. (\A k \in 1..(Len(wire) + 1) : Faithful(R[k])) /\ Complete(Last(R, wire))
    BY <1>12, <1>16
  <2>2. IsTrace(T, wire', [recv |-> recv, delivered |-> delivered])
    BY <1>15, <1>20
  <2>3. UNCHANGED <<recv, delivered>>
    BY <1>3
  <2>4. \A c \in Channels : c # c0 /\ sendM'[c] # Content!NoOne =>
          sendM[c] # Content!NoOne /\ \A r : Abreast(r, c) => Abreast(r, c)'
    BY <1>6
  <2>5. sendM'[c0] = Content!NoOne /\ Silent(R, wire, T, wire', c0)
    BY <1>6, <1>20
  <2>6. QED
    BY <1>21, <2>1, <2>2, <2>3, <2>4, <2>5, GivenUp
<1>25. wire' \in Seq(Frames) /\ Content!FramesFit'
  <2>1. \A k \in DOMAIN w : w[k].kind = "body" => Len(w[k].part) \in 1..Content!size
    BY <1>1, <1>12, FitsBySize
  <2>2. \A k \in DOMAIN v : v[k].kind = "body" => Len(v[k].part) \in 1..Content!size
    <3>1. f.kind # "body"
      BY <1>11
    <3>2. QED
      BY <1>11, <1>12, <1>13, <2>1, <3>1, OneMoreFits
  <2>3. CASE ~late
    <3>1. wire' = v
      BY <1>14, <2>3
    <3>2. QED
      BY <1>13, <2>2, <3>1, FitsBySizeNext
  <2>4. CASE late
    <3>1. wire' = Append(v, g)
      BY <1>14, <2>4
    <3>2. /\ Append(v, g) \in Seq(Frames)
          /\ \A k \in DOMAIN Append(v, g) :
               Append(v, g)[k].kind = "body" => Len(Append(v, g)[k].part) \in 1..Content!size
      BY <1>9, <1>11, <1>13, <2>2, OneMoreFits
    <3>3. QED
      BY <3>1, <3>2, FitsBySizeNext
  <2>5. QED
    BY <2>3, <2>4
<1>26. ContentTypeOK'
  BY <1>1, <1>3, <1>6, <1>25 DEF ContentTypeOK
<1>27. QED
  BY <1>6, <1>22, <1>25, <1>26 DEF ContentInv


LEMMA Anew ==
  ASSUME NEW m
  PROVE  [Content!Idle EXCEPT !.state = "header", !.msg = m]
           = [state |-> "header", msg |-> m, need |-> 0, body |-> <<>>]
<1>1. PICK e : e = <<>>
  OBVIOUS
<1>2. PICK i : i = Content!Idle
  OBVIOUS
<1>3. i = [state |-> "method", msg |-> e, need |-> 0, body |-> e]
  BY <1>1, <1>2, Zenon DEF Content!Idle
<1>4. i \in [state : {"method"}, msg : {e}, need : {0}, body : {e}]
  BY <1>3
<1>5. PICK j : j = [i EXCEPT !.state = "header", !.msg = m]
  OBVIOUS
<1>6. j = [state |-> "header", msg |-> m, need |-> 0, body |-> e]
  BY <1>4, <1>5
<1>7. QED
  BY <1>1, <1>2, <1>5, <1>6, Zenon

(* The receiving side with one field changed.                              *)
LEMMA Spelled ==
  ASSUME NEW r \in Receptions
  PROVE  /\ \A x : [r EXCEPT !.state = x] = [state |-> x, msg |-> r.msg, need |-> r.need, body |-> r.body]
         /\ \A n : [r EXCEPT !.need = n] = [state |-> r.state, msg |-> r.msg, need |-> n, body |-> r.body]
         /\ \A b : [r EXCEPT !.body = b] = [state |-> r.state, msg |-> r.msg, need |-> r.need, body |-> b]
         /\ r = [state |-> r.state, msg |-> r.msg, need |-> r.need, body |-> r.body]
  BY DEF Receptions

(* A frame is received: reassembly does what After says.                   *)
LEMMA Receives ==
  ASSUME ContentInv, wire # <<>>, wire' = Tail(wire), UNCHANGED <<sender, sendM, published>>,
         NEW f, f = Head(wire), NEW r, r = recv[f.ch], recv' = [recv EXCEPT ![f.ch] = Taken(r, f)],
         IF Finishes(r, f)
         THEN delivered' = [delivered EXCEPT ![f.ch] = Append(delivered[f.ch], [msg |-> Taken(r, f).msg,
                                                                                body |-> Taken(r, f).body])]
         ELSE delivered' = delivered
  PROVE  ContentInv'
<1>1. ContentTypeOK /\ Holding /\ Cutting /\ Foreseen /\ Content!FramesFit
  BY DEF ContentInv
<1>2. wire \in Seq(Frames) /\ f \in Frames /\ Tail(wire) \in Seq(Frames)
  BY <1>1 DEF ContentTypeOK
<1>3. PICK F \in Receivers : F = [recv |-> recv, delivered |-> delivered]
  BY <1>1 DEF ContentTypeOK, Receivers
<1>4. F.recv = recv /\ F.delivered = delivered
  BY <1>3
<1>5. [recv |-> recv', delivered |-> delivered'] = After(F, f)
  BY <1>4, Zenon DEF After
<1>6. Foreseen'
  BY <1>1, <1>3, <1>5, FrameReceived
<1>7. recv' \in [Channels -> Receptions] /\ delivered' \in [Channels -> Seq(Arrivals)]
  <2>1. [recv |-> recv', delivered |-> delivered'] \in Receivers
    BY <1>2, <1>5, AfterTyped
  <2>2. QED
    BY <2>1 DEF Receivers
<1>8. ContentTypeOK'
  BY <1>1, <1>2, <1>7 DEF ContentTypeOK
<1>9. Holding' /\ Cutting'
  BY <1>1 DEF Holding, Cutting
<1>10. Content!FramesFit'
  <2>1. PICK w \in Seq(Frames) : w = wire /\ w # <<>>
    BY <1>2
  <2>2. \A k \in DOMAIN Tail(w) : k + 1 \in DOMAIN w /\ Tail(w)[k] = w[k + 1]
    BY <2>1
  <2>3. \A k \in DOMAIN w : w[k].kind = "body" => Len(w[k].part) \in 1..Content!size
    BY <1>1, <2>1, FitsBySize
  <2>4. \A k \in DOMAIN Tail(w) : Tail(w)[k].kind = "body" => Len(Tail(w)[k].part) \in 1..Content!size
    BY <2>2, <2>3
  <2>5. QED
    BY <2>1, <2>4, FitsBySizeNext
<1>11. QED
  BY <1>6, <1>8, <1>9, <1>10 DEF ContentInv

LEMMA ReceivingKeeps ==
  ASSUME ContentInv,
         \/ Content!recvMethod \/ Content!recvPlainMethod \/ Content!recvHeader
         \/ Content!recvContent \/ Content!recvDrop
  PROVE  ContentInv'
<1>1. PICK kind, state : Content!Receive(kind, state)
  BY Zenon DEF Content!recvMethod, Content!recvPlainMethod, Content!recvHeader, Content!recvContent, Content!recvDrop
<1>2. wire # <<>> /\ wire' = Tail(wire) /\ UNCHANGED <<sender, sendM, published>>
  BY <1>1 DEF Content!Receive
<1>3. wire \in Seq(Frames) /\ recv \in [Channels -> Receptions] /\ delivered \in [Channels -> Seq(Arrivals)]
  BY DEF ContentInv, ContentTypeOK
<1>4. PICK f \in Frames : f = Head(wire)
  BY <1>2, <1>3
<1>5. PICK r \in Receptions : r = recv[f.ch]
  BY <1>3 DEF Frames
<1>6. f.msg \in Texts /\ f.msg.size \in Nat
  BY DEF Frames, Texts
<1>7. CASE Content!recvMethod
  <2>1. /\ f.kind = "method" /\ delivered' = delivered
        /\ recv' = [recv EXCEPT ![f.ch] = [Content!Idle EXCEPT !.state = "header", !.msg = f.msg]]
    BY <1>4, <1>7 DEF Content!recvMethod, Content!Receive, Content!Becomes
  <2>2. [Content!Idle EXCEPT !.state = "header", !.msg = f.msg] = Taken(r, f) /\ ~Finishes(r, f)
    <3>1. PICK m : m = f.msg
      OBVIOUS
    <3>2. [Content!Idle EXCEPT !.state = "header", !.msg = m]
            = [state |-> "header", msg |-> m, need |-> 0, body |-> <<>>]
      BY Anew
    <3>3. Taken(r, f) = [state |-> "header", msg |-> m, need |-> 0, body |-> <<>>]
      BY <2>1, <3>1, Zenon DEF Taken
    <3>4. ~Finishes(r, f)
      BY <2>1 DEF Finishes
    <3>5. QED
      BY <3>1, <3>2, <3>3, <3>4, Zenon
  <2>3. QED
    BY <1>2, <1>4, <1>5, <2>1, <2>2, Receives
<1>8. CASE Content!recvPlainMethod
  <2>1. /\ f.kind = "plain" /\ delivered' = delivered
        /\ recv' = [recv EXCEPT ![f.ch] = [r EXCEPT !.state = "method"]]
    BY <1>4, <1>5, <1>8 DEF Content!recvPlainMethod, Content!Receive, Content!Becomes
  <2>2. [r EXCEPT !.state = "method"] = Taken(r, f) /\ ~Finishes(r, f)
    BY <2>1 DEF Receptions, Taken, Finishes
  <2>3. recv' = [recv EXCEPT ![f.ch] = Taken(r, f)] /\ ~Finishes(r, f) /\ delivered' = delivered
    BY <2>1, <2>2, Zenon
  <2>4. QED
    BY <1>2, <1>4, <1>5, <2>3, Receives
<1>9. CASE Content!recvHeader
  <2>1. PICK n \in Nat : n = f.msg.size
    BY <1>6
  <2>2. PICK h : h = [r EXCEPT !.need = n]
    OBVIOUS
  <2>3. h = [state |-> r.state, msg |-> r.msg, need |-> n, body |-> r.body]
    BY <2>2, Spelled
  <2>4. h \in Receptions /\ h.need = n /\ h.msg = r.msg /\ h.body = r.body
    BY <2>3 DEF Receptions
  <2>5. h = [recv[Head(wire).ch] EXCEPT !.need = Head(wire).msg.size]
    BY <1>4, <1>5, <2>1, <2>2, ZenonT(40)
  <2>6. /\ f.kind = "header" /\ r.state = "header"
        /\ IF h.need = 0
           THEN /\ delivered' = [delivered EXCEPT ![f.ch] = Append(@, [msg |-> h.msg, body |-> h.body])]
                /\ recv' = [recv EXCEPT ![f.ch] = [h EXCEPT !.state = "method"]]
           ELSE recv' = [recv EXCEPT ![f.ch] = [h EXCEPT !.state = "content"]] /\ delivered' = delivered
    BY <1>4, <1>5, <1>9, <2>5 DEF Content!recvHeader, Content!Receive, Content!Becomes, Content!Dispatch
  <2>7. Finishes(r, f) <=> n = 0
    BY <2>1, <2>6 DEF Finishes
  <2>8. PICK t : t = Taken(r, f)
    OBVIOUS
  <2>9. t = [state |-> IF n = 0 THEN "method" ELSE "content", msg |-> r.msg, need |-> n, body |-> r.body]
    <3>1. f.kind # "method"
      BY <2>6, SMTT(20)
    <3>2. QED
      BY <2>1, <2>6, <2>8, <3>1, Zenon DEF Taken
  <2>10. CASE n = 0
    <3>1. t = [state |-> "method", msg |-> r.msg, need |-> n, body |-> r.body]
      BY <2>9, <2>10, Zenon
    <3>2. t = [h EXCEPT !.state = "method"]
      BY <2>4, <3>1, Spelled
    <3>3. t.msg = r.msg /\ t.body = r.body
      BY <3>1
    <3>4. /\ delivered' = [delivered EXCEPT ![f.ch] = Append(delivered[f.ch], [msg |-> t.msg, body |-> t.body])]
          /\ recv' = [recv EXCEPT ![f.ch] = t]
      BY <2>4, <2>6, <2>10, <3>2, <3>3
    <3>5. QED
      BY <1>2, <1>4, <1>5, <2>7, <2>8, <2>10, <3>4, Receives
  <2>11. CASE n # 0
    <3>1. t = [state |-> "content", msg |-> r.msg, need |-> n, body |-> r.body]
      BY <2>9, <2>11, Zenon
    <3>2. t = [h EXCEPT !.state = "content"]
      BY <2>4, <3>1, Spelled
    <3>3. recv' = [recv EXCEPT ![f.ch] = t] /\ delivered' = delivered
      BY <2>4, <2>6, <2>11, <3>2
    <3>4. QED
      BY <1>2, <1>4, <1>5, <2>7, <2>8, <2>11, <3>3, Receives
  <2>12. QED
    BY <2>10, <2>11
<1>10. CASE Content!recvContent
  <2>1. PICK b : b = r.body \o f.part /\ b \in Seq(Octets)
    <3>1. r.body \in Seq(Octets) /\ f.part \in Seq(Octets)
      BY DEF Receptions, Frames
    <3>2. QED
      BY <3>1, ConcatProperties
  <2>2. PICK h : h = [r EXCEPT !.body = b]
    OBVIOUS
  <2>3. h = [recv[Head(wire).ch] EXCEPT !.body = @ \o Head(wire).part]
    BY <1>4, <1>5, <2>1, <2>2, Zenon
  <2>4. /\ f.kind = "body" /\ r.state = "content"
        /\ IF Len(h.body) >= h.need
           THEN /\ delivered' = [delivered EXCEPT ![f.ch] = Append(@, [msg |-> h.msg, body |-> h.body])]
                /\ recv' = [recv EXCEPT ![f.ch] = [h EXCEPT !.state = "method"]]
           ELSE recv' = [recv EXCEPT ![f.ch] = h] /\ delivered' = delivered
    BY <1>4, <1>5, <1>10, <2>3, Zenon DEF Content!recvContent, Content!Receive, Content!Becomes, Content!Dispatch
  <2>5. h \in Receptions /\ h.need = r.need /\ h.msg = r.msg /\ h.body = b /\ h.state = r.state
    BY <2>1, <2>2 DEF Receptions
  <2>6. Finishes(r, f) <=> Len(h.body) >= h.need
    BY <2>1, <2>4, <2>5 DEF Finishes
  <2>7. PICK t : t = Taken(r, f)
    OBVIOUS
  <2>8. t = [state |-> IF Len(b) >= r.need THEN "method" ELSE "content", msg |-> r.msg, need |-> r.need,
             body |-> b]
    <3>1. f.kind # "method" /\ f.kind # "header"
      BY <2>4, SMTT(20)
    <3>2. QED
      BY <2>1, <2>4, <2>7, <3>1, Zenon DEF Taken
  <2>9. CASE Len(h.body) >= h.need
    <3>1. Len(b) >= r.need
      BY <2>5, <2>9
    <3>2. t = [state |-> "method", msg |-> r.msg, need |-> r.need, body |-> b]
      BY <2>8, <3>1
    <3>3. t = [h EXCEPT !.state = "method"] /\ t.msg = h.msg /\ t.body = h.body
      BY <2>5, <3>2, Spelled
    <3>4. delivered' = [delivered EXCEPT ![f.ch] = Append(delivered[f.ch], [msg |-> t.msg, body |-> t.body])]
          /\ recv' = [recv EXCEPT ![f.ch] = t]
      BY <2>4, <2>9, <3>3
    <3>5. QED
      BY <1>2, <1>4, <1>5, <2>6, <2>7, <2>9, <3>4, Receives
  <2>10. CASE ~(Len(h.body) >= h.need)
    <3>1. ~(Len(b) >= r.need)
      BY <2>5, <2>10
    <3>2. t = [state |-> "content", msg |-> r.msg, need |-> r.need, body |-> b]
      BY <2>8, <3>1
    <3>3. t = h
      BY <2>4, <2>5, <3>2, Spelled
    <3>4. recv' = [recv EXCEPT ![f.ch] = t] /\ delivered' = delivered
      BY <2>4, <2>10, <3>3
    <3>5. QED
      BY <1>2, <1>4, <1>5, <2>6, <2>7, <2>10, <3>4, Receives
  <2>11. QED
    BY <2>9, <2>10
<1>11. CASE Content!recvDrop
  <2>1. /\ \/ f.kind = "header" /\ r.state \in {"method", "content"}
           \/ f.kind = "body" /\ r.state \in {"method", "header"}
        /\ delivered' = delivered /\ recv' = [recv EXCEPT ![f.ch] = [r EXCEPT !.state = "method"]]
    BY <1>4, <1>5, <1>11 DEF Content!recvDrop, Content!OutOfPlace, Content!Receive, Content!Becomes
  <2>2. [r EXCEPT !.state = "method"] = Taken(r, f) /\ ~Finishes(r, f)
    <3>1. f.kind # "method" /\ ~(f.kind = "header" /\ r.state = "header") /\ ~(f.kind = "body" /\ r.state = "content")
      BY <2>1
    <3>2. Taken(r, f) = [state |-> "method", msg |-> r.msg, need |-> r.need, body |-> r.body]
      BY <3>1, Zenon DEF Taken
    <3>3. ~Finishes(r, f)
      BY <3>1, Zenon DEF Finishes
    <3>4. QED
      BY <3>2, <3>3, Spelled
  <2>3. recv' = [recv EXCEPT ![f.ch] = Taken(r, f)] /\ ~Finishes(r, f) /\ delivered' = delivered
    BY <2>1, <2>2, Zenon
  <2>4. QED
    BY <1>2, <1>4, <1>5, <2>3, Receives
<1>12. QED
  BY <1>7, <1>8, <1>9, <1>10, <1>11


(* A step of another part, or of the connection alone.                     *)
LEMMA ContentUntouched ==
  ASSUME ContentInv, UNCHANGED <<sender, sendM, wire, recv, published, delivered>>
  PROVE  ContentInv'
<1>1. ContentTypeOK /\ Holding /\ Cutting /\ Foreseen /\ Content!FramesFit
  BY DEF ContentInv
<1>2. ContentTypeOK' /\ Holding' /\ Cutting'
  BY <1>1 DEF ContentTypeOK, Holding, Cutting
<1>3. \A c \in Channels : /\ Promised(c)' = Promised(c)
                          /\ \A r : Abreast(r, c) => Abreast(r, c)'
  BY DEF Promised, Abreast
<1>4. Foreseen'
  BY <1>1, <1>3, NothingSent
<1>5. Content!FramesFit'
  BY <1>1 DEF Content!FramesFit
<1>6. QED
  BY <1>2, <1>4, <1>5 DEF ContentInv

(* The invariant holds at the beginning.                                   *)
LEMMA ContentInit == Content!Init => ContentInv
<1> SUFFICES ASSUME Content!Init PROVE ContentInv
  OBVIOUS
<1>1. /\ sendM = [c \in Channels |-> Content!NoOne] /\ wire = <<>> /\ recv = [c \in Channels |-> Content!Idle]
      /\ published = [c \in Channels |-> <<>>] /\ delivered = [c \in Channels |-> <<>>]
  BY DEF Content!Init
<1>2. \A s \in Senders : sender[s].pc = "idle"
  BY DEF Content!Init
<1>3. sender \in [Senders -> Progress]
  <2>1. PICK e, x : e = <<>> /\ x = [pc |-> "idle", count |-> 0, ch |-> e, msg |-> e, i |-> 0, j |-> 0]
    OBVIOUS
  <2>2. x \in Progress
    BY <2>1 DEF Progress
  <2>3. sender = [s \in Senders |-> x]
    BY <2>1, Zenon DEF Content!Init
  <2>4. QED
    BY <2>2, <2>3
<1>4. recv \in [Channels -> Receptions]
  <2>1. PICK e, i : e = <<>> /\ i = Content!Idle
    OBVIOUS
  <2>2. i = [state |-> "method", msg |-> e, need |-> 0, body |-> e]
    BY <2>1, Zenon DEF Content!Idle
  <2>3. i \in Receptions
    BY <2>1, <2>2 DEF Receptions
  <2>4. QED
    BY <1>1, <2>1, <2>3
<1>5. /\ delivered \in [Channels -> Seq(Arrivals)] /\ published \in [Channels -> Seq(Texts)]
      /\ wire \in Seq(Frames) /\ sendM \in [Channels -> Senders \cup {Content!NoOne}]
  BY <1>1
<1>6. ContentTypeOK
  BY <1>3, <1>4, <1>5 DEF ContentTypeOK
<1>7. Holding /\ Cutting
  BY <1>1, <1>2 DEF Holding, Cutting, Sending
<1>8. \A c \in Channels : Promised(c) = published[c]
  BY <1>1 DEF Promised
<1>9. PICK F \in Receivers : F = [recv |-> recv, delivered |-> delivered]
  BY <1>4, <1>5 DEF Receivers
<1>10. F.delivered = delivered
  BY <1>9
<1>11. Faithful(F) /\ Complete(F)
  <2>1. ASSUME NEW c \in Channels
        PROVE  /\ F.delivered[c] = <<>> /\ Promised(c) = <<>> /\ sendM[c] = Content!NoOne
    BY <1>1, <1>8, <1>10
  <2>2. ASSUME NEW c \in Channels PROVE Arrived(F.delivered[c], Promised(c))
    <3>1. Arrived(<<>>, <<>>)
      BY DEF Arrived
    <3>2. QED
      BY <2>1, <3>1
  <2>3. QED
    BY <2>1, <2>2 DEF Faithful, Complete
<1>12. Foreseen
  <2>1. PICK R : R = [k \in 1..1 |-> F]
    OBVIOUS
  <2>2. R[1] = F /\ R \in [1..1 -> Receivers] /\ \A k \in 1..1 : R[k] = F
    BY <2>1
  <2>3. Len(wire) = 0 /\ Len(wire) + 1 = 1 /\ \A k \in 1..0 : FALSE
    BY <1>1
  <2>4. IsTrace(R, wire, F)
    BY <2>2, <2>3 DEF IsTrace
  <2>5. QED
    BY <1>9, <1>11, <2>2, <2>3, <2>4 DEF Foreseen
<1>13. Content!FramesFit
  BY <1>1 DEF Content!FramesFit
<1>14. QED
  BY <1>6, <1>7, <1>12, <1>13 DEF ContentInv

(* Every step keeps it, when a body frame has room for an octet.           *)
LEMMA ContentNext ==
  ASSUME Content!size > 0, ContentInv, Content!Next
  PROVE  ContentInv'
<1>1. CASE \E s \in Senders, c \in Channels, n \in Sizes : Content!Publish(s, c, n)
  BY <1>1, PublishKeeps
<1>2. CASE \E s \in Senders : Content!Lock(s)
  BY <1>2, LockKeeps
<1>3. CASE \E s \in Senders : Content!SendMethod(s)
  BY <1>3, MethodKeeps
<1>4. CASE \E s \in Senders : Content!SendHeader(s)
  BY <1>4, HeaderKeeps
<1>5. CASE \E s \in Senders : Content!SendBody(s)
  BY <1>5, BodyKeeps
<1>6. CASE \E s \in Senders : Content!SendFails(s) \/ Content!Sent(s)
  BY <1>6, BeginsAndEnds
<1>7. CASE \E s \in Senders, late \in BOOLEAN : Content!Abandon(s, late)
  BY <1>7, AbandonKeeps
<1>8. CASE UNCHANGED <<sender, sendM, wire, recv, published, delivered>>
  BY <1>8, ContentUntouched
<1>9. CASE \/ Content!recvMethod \/ Content!recvPlainMethod \/ Content!recvHeader
           \/ Content!recvContent \/ Content!recvDrop
  BY <1>9, ReceivingKeeps
<1>10. Content!Break \/ Content!Finished => UNCHANGED <<sender, sendM, wire, recv, published, delivered>>
  BY DEF Content!Break, Content!Finished, Content!vars
<1>11. QED
  BY <1>1, <1>2, <1>3, <1>4, <1>5, <1>6, <1>7, <1>8, <1>9, <1>10, Zenon DEF Content!Next

(* What the invariant says of what has been read so far.                   *)
LEMMA ContentStands == ContentInv => MessagesArrive
<1> SUFFICES ASSUME ContentInv PROVE MessagesArrive
  OBVIOUS
<1>1. ContentTypeOK /\ Holding /\ Cutting /\ Foreseen /\ Content!FramesFit
  BY DEF ContentInv
<1>2. PICK w \in Seq(Frames) : w = wire
  BY <1>1 DEF ContentTypeOK
<1>3. PICK n \in Nat : n = Len(w)
  BY <1>2
<1>4. PICK R : /\ IsTrace(R, w, [recv |-> recv, delivered |-> delivered])
               /\ \A k \in 1..(n + 1) : Faithful(R[k])
               /\ Complete(R[n + 1])
  BY <1>1, <1>2, <1>3 DEF Foreseen
<1>5. R[1].delivered = delivered
  <2>1. R[1] = [recv |-> recv, delivered |-> delivered]
    BY <1>4, Zenon DEF IsTrace
  <2>2. QED
    BY <2>1
<1>6. \A c \in Channels : Arrived(delivered[c], Promised(c))
  <2>1. 1 \in 1..(n + 1)
    OBVIOUS
  <2>2. Faithful(R[1])
    BY <1>4, <2>1
  <2>3. QED
    BY <1>5, <2>2 DEF Faithful
<1>7. ASSUME NEW c \in Channels PROVE Content!Intact(c)
  <2>1. PICK l \in Seq(Arrivals), p \in Seq(Texts), q \in Seq(Texts) :
          l = delivered[c] /\ p = published[c] /\ q = Promised(c)
    BY <1>1, PromisedTyped DEF ContentTypeOK
  <2>2. q = p \/ \E m \in Texts : q = Append(p, m)
    <3>1. ASSUME sendM[c] # Content!NoOne PROVE sender[sendM[c]].msg \in Texts
      <4>1. sendM[c] \in Senders
        BY <1>1, <3>1 DEF ContentTypeOK
      <4>2. sender[sendM[c]].pc \in Sending
        BY <1>1, <3>1, Zenon DEF Holding
      <4>3. QED
        BY <1>1, <4>1, <4>2, Sender
    <3>2. PICK m : m = sender[sendM[c]].msg
      OBVIOUS
    <3>3. q = p \/ (sendM[c] # Content!NoOne /\ q = Append(p, m))
      BY <2>1, <3>2, Zenon DEF Promised
    <3>4. QED
      BY <3>1, <3>2, <3>3, Zenon
  <2>3. Len(q) <= Len(p) + 1 /\ \A k \in 1..Len(p) : q[k] = p[k]
    <3>1. CASE q = p
      BY <3>1
    <3>2. ASSUME NEW m \in Texts, q = Append(p, m) PROVE Len(q) <= Len(p) + 1 /\ \A k \in 1..Len(p) : q[k] = p[k]
      <4>1. Len(Append(p, m)) = Len(p) + 1 /\ \A k \in 1..Len(p) : Append(p, m)[k] = p[k]
        BY AppendProperties
      <4>2. QED
        BY <3>2, <4>1
    <3>3. QED
      BY <2>2, <3>1, <3>2
  <2>4. Len(l) <= Len(q) /\ \A k \in 1..Len(l) : l[k] = [msg |-> q[k], body |-> Content!Body(q[k])]
    BY <1>6, <2>1 DEF Arrived
  <2>5. Len(l) <= Len(p) + 1
    BY <2>3, <2>4
  <2>6. ASSUME NEW k \in DOMAIN l
        PROVE  l[k].body = Content!Body(l[k].msg) /\ (k <= Len(p) => l[k].msg = p[k])
    <3>1. k \in 1..Len(l) /\ k \in Nat /\ k >= 1
      OBVIOUS
    <3>2. PICK m, b : m = q[k] /\ b = Content!Body(q[k])
      OBVIOUS
    <3>3. l[k] = [msg |-> m, body |-> b]
      BY <2>4, <3>1, <3>2, Zenon
    <3>4. l[k].msg = m /\ l[k].body = b
      BY <3>3
    <3>5. k <= Len(p) => k \in 1..Len(p)
      BY <3>1
    <3>6. QED
      BY <2>3, <3>2, <3>4, <3>5
  <2>7. QED
    BY <2>1, <2>5, <2>6 DEF Content!Intact
<1>8. Content!NothingMissing
  <2>1. SUFFICES ASSUME wire = <<>>, \A s \in Senders : sender[s].pc \in {"idle", "lock"}, NEW c \in Channels
                 PROVE  Len(delivered[c]) = Len(published[c])
    BY DEF Content!NothingMissing
  <2>2. n + 1 = 1
    BY <1>2, <1>3, <2>1
  <2>3. sendM[c] = Content!NoOne
    <3>1. SUFFICES ASSUME sendM[c] # Content!NoOne PROVE FALSE
      OBVIOUS
    <3>2. sendM[c] \in Senders
      BY <1>1, <3>1 DEF ContentTypeOK
    <3>3. sender[sendM[c]].pc \in Sending
      BY <1>1, <3>1, Zenon DEF Holding
    <3>4. QED
      BY <2>1, <3>2, <3>3 DEF Sending
  <2>4. Promised(c) = published[c]
    BY <2>3 DEF Promised
  <2>5. Complete(R[1])
    BY <1>4, <2>2
  <2>6. Len(delivered[c]) = Len(Promised(c))
    BY <1>5, <2>5 DEF Complete
  <2>7. QED
    BY <2>4, <2>6
<1>9. QED
  BY <1>1, <1>7, <1>8 DEF MessagesArrive, Content!MessagesArrive, Content!ContentIntact

(* Whatever the frame sizes of the two sides, as long as the negotiated    *)
(* one leaves room for an octet (AMQP asks for at least 4096), and however *)
(* many senders share the channels of a connection: what recvContent hands *)
(* on is what sendOpen was given, whole and in order, though frames of     *)
(* other channels and of abandoned messages come in between.               *)
THEOREM MessagesArriveWhole ==
  ASSUME Content!size > 0
  PROVE  Spec => []MessagesArrive
<1>1. Init => ContentInv
  BY ContentInit DEF Init
<1>2. ContentInv /\ [Next \/ Ends]_vars => ContentInv'
  <2> SUFFICES ASSUME ContentInv, [Next \/ Ends]_vars PROVE ContentInv'
    OBVIOUS
  <2>1. \/ Content!Next
        \/ UNCHANGED contentVars
    BY DEF Next, Ends, vars
  <2>2. CASE UNCHANGED contentVars
    BY <2>2, ContentUntouched DEF contentVars
  <2>3. CASE Content!Next
    BY <2>3, ContentNext
  <2>4. QED
    BY <2>1, <2>2, <2>3
<1>3. ContentInv => MessagesArrive
  BY ContentStands
<1>4. QED
  BY <1>1, <1>2, <1>3, PTL DEF Spec

-----------------------------------------------------------------------------
(* Pools of writers and of readers: what ThrottleProofs proves of them. *)

Pools == INSTANCE ThrottleProofs
  WITH Writers <- Pipes, Readers <- {}, Rates <- WriteRates, Lens <- WriteLens, Failing <- {}
Readings == INSTANCE ThrottleProofs
  WITH Writers <- {}, Readers <- Pipes, Rates <- ReadRates, Lens <- ReadLens, Failing <- {}

(* The pool of writers of this module is one that was proved about.        *)
LEMMA SamePool ==
  /\ Pools!ThrottleAssumption
  /\ Pool!Init => Pools!Init
  /\ Pool!Next => Pools!Next
  /\ Pools!RateKept => Pool!RateKept
<1>1. Pools!ThrottleAssumption
  BY PoolAssumption DEF Pool!ThrottleAssumption, Pools!ThrottleAssumption, Pool!IsFiniteSet,
      Pools!IsFiniteSet
<1>2. Pool!Init => Pools!Init
  BY Zenon DEF Pool!Init, Pools!Init, Pool!NoOp, Pools!NoOp, Pool!Users, Pools!Users, Pool!Long, Pools!Long
<1>3. Pool!Users = Pools!Users /\ Pool!NoOp = Pools!NoOp /\ Pool!Long = Pools!Long /\ Pool!Unlocked = Pools!Unlocked
  BY Zenon DEF Pool!Users, Pools!Users, Pool!NoOp, Pools!NoOp, Pool!Long, Pools!Long, Pool!Unlocked,
      Pools!Unlocked
<1>4. \A u, n : Pool!Pass(u, n) = Pools!Pass(u, n)
  BY Zenon DEF Pool!Pass, Pools!Pass, Pool!Min, Pools!Min, Pool!Counted, Pools!Counted, Pool!Highest,
      Pools!Highest, Pool!Max, Pools!Max
<1>5. Pool!Tick => Pools!Tick
  BY <1>3, Zenon DEF Pool!Tick, Pools!Tick
<1>6. \A rate : Pool!SetRate(rate) => Pools!SetRate(rate)
  BY <1>3, Zenon DEF Pool!SetRate, Pools!SetRate
<1>7. \A u : \/ Pool!Get(u) \/ Pool!Release(u) \/ Pool!setSharedRates(u) \/ \E n \in WriteLens : Pool!Call(u, n)
           => \/ Pools!Get(u) \/ Pools!Release(u) \/ Pools!setSharedRates(u) \/ \E n \in WriteLens : Pools!Call(u, n)
  BY <1>3, Zenon DEF Pool!Get, Pools!Get, Pool!Release, Pools!Release, Pool!setSharedRates,
      Pools!setSharedRates, Pool!Share, Pools!Share, Pool!Cardinality, Pools!Cardinality, Pool!Call,
      Pools!Call
<1>8. \A u : Pool!CanDo(u) \/ Pool!Limit(u) => Pools!CanDo(u) \/ Pools!Limit(u)
  BY <1>3, Zenon DEF Pool!CanDo, Pools!CanDo, Pool!Limit, Pools!Limit
<1>9. \A u : Pool!Unthrottled(u) => Pools!Unthrottled(u)
  BY <1>3, <1>4, Zenon DEF Pool!Unthrottled, Pools!Unthrottled, Pool!Did, Pools!Did, Pool!Returns,
      Pools!Returns
<1>10. \A u : Pool!Write(u) \/ Pool!WriteFails(u) \/ Pool!Read(u) => Pools!Write(u) \/ Pools!WriteFails(u) \/ Pools!Read(u)
  BY <1>3, <1>4, Zenon DEF Pool!Write, Pools!Write, Pool!WriteFails, Pools!WriteFails, Pool!Read,
      Pools!Read, Pool!Returns, Pools!Returns
<1>11. Pool!Next => Pools!Next
  BY <1>3, <1>5, <1>6, <1>7, <1>8, <1>9, <1>10, Zenon DEF Pool!Next, Pools!Next, Pool!Throttled,
      Pools!Throttled
<1>12. Pools!RateKept => Pool!RateKept
  BY Zenon
  DEF Pool!RateKept, Pools!RateKept, Pool!SharesFit, Pools!SharesFit, Pool!TwoBatches, Pools!TwoBatches,
      Pool!Unlocked, Pools!Unlocked, Pool!Users, Pools!Users, Pool!Passed, Pools!Passed, Pool!Highest,
      Pools!Highest, Pool!Max, Pools!Max, Pool!MapThenSumSet, Pools!MapThenSumSet, Pool!MapThenFoldSet,
      Pools!MapThenFoldSet
<1>13. QED
  BY <1>1, <1>2, <1>11, <1>12

(* The pool of readers is another.                                         *)
LEMMA SameReading ==
  /\ Readings!ThrottleAssumption
  /\ Reading!Init => Readings!Init
  /\ Reading!Next => Readings!Next
  /\ Readings!RateKept => Reading!RateKept
<1>1. Readings!ThrottleAssumption
  BY ReadingAssumption DEF Reading!ThrottleAssumption, Readings!ThrottleAssumption, Reading!IsFiniteSet,
      Readings!IsFiniteSet
<1>2. Reading!Init => Readings!Init
  BY Zenon DEF Reading!Init, Readings!Init, Reading!NoOp, Readings!NoOp, Reading!Users, Readings!Users,
      Reading!Long, Readings!Long
<1>3. Reading!Users = Readings!Users /\ Reading!NoOp = Readings!NoOp /\ Reading!Long = Readings!Long /\ Reading!Unlocked = Readings!Unlocked
  BY Zenon DEF Reading!Users, Readings!Users, Reading!NoOp, Readings!NoOp, Reading!Long, Readings!Long,
      Reading!Unlocked, Readings!Unlocked
<1>4. \A u, n : Reading!Pass(u, n) = Readings!Pass(u, n)
  BY Zenon DEF Reading!Pass, Readings!Pass, Reading!Min, Readings!Min, Reading!Counted, Readings!Counted,
      Reading!Highest, Readings!Highest, Reading!Max, Readings!Max
<1>5. Reading!Tick => Readings!Tick
  BY <1>3, Zenon DEF Reading!Tick, Readings!Tick
<1>6. \A rate : Reading!SetRate(rate) => Readings!SetRate(rate)
  BY <1>3, Zenon DEF Reading!SetRate, Readings!SetRate
<1>7. \A u : \/ Reading!Get(u) \/ Reading!Release(u) \/ Reading!setSharedRates(u) \/ \E n \in ReadLens : Reading!Call(u, n)
           => \/ Readings!Get(u) \/ Readings!Release(u) \/ Readings!setSharedRates(u) \/ \E n \in ReadLens : Readings!Call(u, n)
  BY <1>3, Zenon DEF Reading!Get, Readings!Get, Reading!Release, Readings!Release, Reading!setSharedRates,
      Readings!setSharedRates, Reading!Share, Readings!Share, Reading!Cardinality, Readings!Cardinality,
      Reading!Call, Readings!Call
<1>8. \A u : Reading!CanDo(u) \/ Reading!Limit(u) => Readings!CanDo(u) \/ Readings!Limit(u)
  BY <1>3, Zenon DEF Reading!CanDo, Readings!CanDo, Reading!Limit, Readings!Limit
<1>9. \A u : Reading!Unthrottled(u) => Readings!Unthrottled(u)
  BY <1>3, <1>4, Zenon DEF Reading!Unthrottled, Readings!Unthrottled, Reading!Did, Readings!Did,
      Reading!Returns, Readings!Returns
<1>10. \A u : Reading!Write(u) \/ Reading!WriteFails(u) \/ Reading!Read(u) => Readings!Write(u) \/ Readings!WriteFails(u) \/ Readings!Read(u)
  BY <1>3, <1>4, Zenon DEF Reading!Write, Readings!Write, Reading!WriteFails, Readings!WriteFails,
      Reading!Read, Readings!Read, Reading!Returns, Readings!Returns
<1>11. Reading!Next => Readings!Next
  BY <1>3, <1>5, <1>6, <1>7, <1>8, <1>9, <1>10, Zenon DEF Reading!Next, Readings!Next, Reading!Throttled,
      Readings!Throttled
<1>12. Readings!RateKept => Reading!RateKept
  BY Zenon
  DEF Reading!RateKept, Readings!RateKept, Reading!SharesFit, Readings!SharesFit, Reading!TwoBatches,
      Readings!TwoBatches, Reading!Unlocked, Readings!Unlocked, Reading!Users, Readings!Users,
      Reading!Passed, Readings!Passed, Reading!Highest, Readings!Highest, Reading!Max, Readings!Max,
      Reading!MapThenSumSet, Readings!MapThenSumSet, Reading!MapThenFoldSet, Readings!MapThenFoldSet
<1>13. QED
  BY <1>1, <1>2, <1>11, <1>12

RateInv == (part = "writers" => Pools!IInv) /\ (part = "readers" => Readings!IInv)

(* Every step of a pool, or of a part that leaves the pools alone, keeps   *)
(* the invariant of the pool whose turn it is.                             *)
LEMMA RateStep == RateInv /\ [Next \/ Ends]_vars => RateInv'
<1> SUFFICES ASSUME RateInv, [Next \/ Ends]_vars PROVE RateInv'
  OBVIOUS
<1>1. part' = part
  BY Zenon DEF Next, Ends, vars
<1>2. ASSUME part = "writers" PROVE Pools!IInv'
  <2>1. Pool!Next \/ UNCHANGED throttleVars
    BY <1>2, Zenon DEF Next, Ends, vars
  <2>2. [Pools!Next]_(Pools!vars)
    BY <2>1, SamePool, Zenon DEF Pools!vars, throttleVars
  <2>3. Pools!IInv
    BY <1>2 DEF RateInv
  <2>4. QED
    BY <2>2, <2>3, SamePool, Pools!StepInvariant
<1>3. ASSUME part = "readers" PROVE Readings!IInv'
  <2>1. Reading!Next \/ UNCHANGED throttleVars
    BY <1>3, Zenon DEF Next, Ends, vars
  <2>2. [Readings!Next]_(Readings!vars)
    BY <2>1, SameReading, Zenon DEF Readings!vars, throttleVars
  <2>3. Readings!IInv
    BY <1>3 DEF RateInv
  <2>4. QED
    BY <2>2, <2>3, SameReading, Readings!StepInvariant
<1>4. QED
  BY <1>1, <1>2, <1>3 DEF RateInv

(* However writers or readers come and go, the rate changes under their    *)
(* feet and calls, sleeps and the clock interleave: the shares of a pool   *)
(* add up to no more than its rate whenever its lock is free (pool.go:11), *)
(* and nobody passes more than two periods' worth of bytes in one period   *)
(* (limiter.go).                                                           *)
THEOREM PoolsKeepRate == Spec => []RateKept
<1>1. Init => RateInv
  <2>1. Init /\ part = "writers" => Pool!Init
    BY Zenon DEF Init
  <2>2. Init /\ part = "readers" => Reading!Init
    BY DEF Init
  <2>3. QED
    BY <2>1, <2>2, SamePool, SameReading, Pools!InitInvariant, Readings!InitInvariant DEF RateInv
<1>2. RateInv /\ [Next \/ Ends]_vars => RateInv'
  BY RateStep
<1>3. RateInv => RateKept
  <2>1. Pools!IInv => Pool!RateKept
    BY SamePool, Pools!InvariantKeepsRate
  <2>2. Readings!IInv => Reading!RateKept
    BY SameReading, Readings!InvariantKeepsRate
  <2>3. QED
    BY <2>1, <2>2 DEF RateInv, RateKept
<1>4. QED
  BY <1>1, <1>2, <1>3, PTL DEF Spec

-----------------------------------------------------------------------------
(* Addresses *)

(* The last colon of an address (uri.go, strings.LastIndex).               *)
Colon(addr) == Uri!SelectLastInSeq(addr, LAMBDA t : t = ":")
Colons(addr) == {i \in 1..Len(addr) : addr[i] = ":"}

(* The tokens of a part of an address.                                     *)
LEMMA PartOf ==
  ASSUME NEW S, ":" \in S, NEW s \in Seq(S), NEW m \in 1..(Len(s) + 1), NEW n \in 0..Len(s), m <= n + 1
  PROVE  /\ SubSeq(s, m, n) \in Seq(S) /\ Len(SubSeq(s, m, n)) = n - m + 1
         /\ \A j \in 1..(n - m + 1) : SubSeq(s, m, n)[j] = s[m - 1 + j]
<1>1. Len(s) \in Nat /\ m \in Int /\ n \in Int /\ m \in Nat /\ n \in Nat /\ \A i \in m..n : i \in 1..Len(s)
  OBVIOUS
<1>2. \A i \in m..n : s[i] \in S
  BY <1>1
<1>3. /\ SubSeq(s, m, n) \in Seq(S)
      /\ Len(SubSeq(s, m, n)) = IF m <= n THEN n - m + 1 ELSE 0
      /\ \A j \in 1..(n - m + 1) : SubSeq(s, m, n)[j] = s[m + j - 1]
  BY <1>1, <1>2
<1>4. (IF m <= n THEN n - m + 1 ELSE 0) = n - m + 1 /\ \A j \in 1..(n - m + 1) : m + j - 1 = m - 1 + j
  BY <1>1
<1>5. QED
  BY <1>3, <1>4

(* What a port put behind a host gives: the tokens of both around a colon. *)
LEMMA Appended ==
  ASSUME NEW S, ":" \in S, NEW s \in Seq(S), NEW t \in Seq(S)
  PROVE  /\ s \o <<":">> \o t \in Seq(S)
         /\ Len(s \o <<":">> \o t) = Len(s) + 1 + Len(t)
         /\ (s \o <<":">> \o t)[Len(s) + 1] = ":"
         /\ \A j \in 1..Len(s) : (s \o <<":">> \o t)[j] = s[j]
         /\ \A j \in 1..Len(t) : (s \o <<":">> \o t)[Len(s) + 1 + j] = t[j]
<1> DEFINE c == <<":">>
           p == s \o c
           r == p \o t
<1>1. c \in Seq(S) /\ Len(c) = 1 /\ c[1] = ":" /\ Len(s) \in Nat /\ Len(t) \in Nat
  OBVIOUS
<1> HIDE DEF c
<1>2. /\ p \in Seq(S) /\ Len(p) = Len(s) + 1
      /\ \A i \in 1..(Len(s) + 1) : p[i] = IF i <= Len(s) THEN s[i] ELSE c[i - Len(s)]
  <2>1. /\ p \in Seq(S) /\ Len(p) = Len(s) + Len(c)
        /\ \A i \in 1..(Len(s) + Len(c)) : p[i] = IF i <= Len(s) THEN s[i] ELSE c[i - Len(s)]
    BY <1>1, ConcatProperties
  <2>2. QED
    BY <1>1, <2>1
<1> HIDE DEF p
<1>3. /\ r \in Seq(S) /\ Len(r) = Len(s) + 1 + Len(t)
      /\ \A i \in 1..(Len(s) + 1 + Len(t)) : r[i] = IF i <= Len(s) + 1 THEN p[i] ELSE t[i - (Len(s) + 1)]
  <2>1. /\ r \in Seq(S) /\ Len(r) = Len(p) + Len(t)
        /\ \A i \in 1..(Len(p) + Len(t)) : r[i] = IF i <= Len(p) THEN p[i] ELSE t[i - Len(p)]
    <3>1. p \in Seq(S) /\ t \in Seq(S)
      BY <1>2
    <3>2. QED
      BY <3>1, ConcatProperties
  <2>2. QED
    BY <1>1, <1>2, <2>1
<1> HIDE DEF r
<1>4. \A j \in 1..Len(s) : j \in 1..(Len(s) + 1) /\ j \in 1..(Len(s) + 1 + Len(t)) /\ j <= Len(s) + 1
  BY <1>1
<1>5. \A j \in 1..Len(s) : r[j] = s[j]
  BY <1>1, <1>2, <1>3, <1>4
<1>6. r[Len(s) + 1] = ":"
  <2>1. /\ Len(s) + 1 \in 1..(Len(s) + 1) /\ Len(s) + 1 \in 1..(Len(s) + 1 + Len(t))
        /\ Len(s) + 1 - Len(s) = 1 /\ ~(Len(s) + 1 <= Len(s))
    BY <1>1
  <2>2. r[Len(s) + 1] = p[Len(s) + 1] /\ p[Len(s) + 1] = c[1]
    BY <1>2, <1>3, <2>1
  <2>3. QED
    BY <1>1, <2>2
<1>7. ASSUME NEW j \in 1..Len(t) PROVE r[Len(s) + 1 + j] = t[j]
  <2>1. /\ Len(s) + 1 + j \in 1..(Len(s) + 1 + Len(t)) /\ ~(Len(s) + 1 + j <= Len(s) + 1)
        /\ Len(s) + 1 + j - (Len(s) + 1) = j
    BY <1>1
  <2>2. QED
    BY <1>3, <2>1
<1>8. QED
  BY <1>3, <1>5, <1>6, <1>7 DEF r, p, c

(* An address without a colon has none, and any other has a last one.      *)
LEMMA LastColon ==
  ASSUME NEW S, ":" \in S, NEW addr \in Seq(S)
  PROVE  /\ Colons(addr) = {} => Colon(addr) = 0
         /\ Colons(addr) # {} => /\ Colon(addr) \in Colons(addr)
                                 /\ \A i \in Colons(addr) : i <= Colon(addr)
<1>1. Colon(addr) = IF Colons(addr) # {} THEN Uri!Max(Colons(addr)) ELSE 0
  BY Zenon DEF Colon, Colons, Uri!SelectLastInSeq
<1>2. Len(addr) \in Nat /\ Colons(addr) \subseteq 1..Len(addr) /\ Colons(addr) \subseteq Nat
  BY DEF Colons
<1>3. IsFiniteSet(Colons(addr))
  <2>1. IsFiniteSet(1..Len(addr))
    BY <1>2, FS_Interval
  <2>2. QED
    BY <1>2, <2>1, FS_Subset
<1>4. Colons(addr) # {} => /\ Pools!Max(Colons(addr)) \in Colons(addr)
                           /\ \A i \in Colons(addr) : Pools!Max(Colons(addr)) >= i
  BY <1>2, <1>3, Pools!MaxIsGreatest DEF Pools!IsFiniteSet, IsFiniteSet
<1>5. \A T : Pools!Max(T) = Uri!Max(T)
  BY Zenon DEF Pools!Max, Uri!Max
<1>6. QED
  BY <1>1, <1>2, <1>4, <1>5

(* "host": no colon, no port.                                              *)
LEMMA SplitsHost ==
  ASSUME NEW S, ":" \in S, NEW addr \in Seq(S), Colons(addr) = {}
  PROVE  Uri!splitHostPort(addr) = Uri!HostPort(addr, <<>>)
<1>1. Colon(addr) = 0
  BY LastColon
<1>2. QED
  BY <1>1, Zenon DEF Uri!splitHostPort, Colon

(* "[ho:st]": a colon inside of brackets is none.                          *)
LEMMA SplitsBrackets ==
  ASSUME NEW S, ":" \in S, NEW addr \in Seq(S), addr # <<>>, addr[1] = "[", addr[Len(addr)] = "]"
  PROVE  Uri!splitHostPort(addr) = Uri!HostPort(addr, <<>>)
<1> DEFINE i == Colon(addr)
           port == SubSeq(addr, i + 1, Len(addr))
<1>1. CASE Colons(addr) = {}
  BY <1>1, SplitsHost
<1>2. CASE Colons(addr) # {}
  <2>1. i \in 1..Len(addr) /\ addr[i] = ":" /\ Len(addr) \in Nat
    BY <1>2, LastColon DEF Colons
  <2>2. i # Len(addr)
    BY <2>1
  <2>3. port # <<>> /\ Uri!Last(port) = "]"
    <3> HIDE DEF i
    <3>1. i + 1 \in 1..Len(addr) /\ Len(addr) - i \in 1..(Len(addr) - i)
      BY <2>1, <2>2
    <3>2. /\ port \in Seq(S) /\ Len(port) = Len(addr) - i
          /\ \A j \in 1..(Len(addr) - i) : port[j] = addr[i + j]
      BY <2>1, <3>1, PartOf
    <3>3. i + (Len(addr) - i) = Len(addr) /\ Len(addr) - i # 0
      BY <2>1, <2>2
    <3> HIDE DEF port
    <3>4. port[Len(port)] = "]" /\ Len(port) # 0
      BY <3>1, <3>2, <3>3
    <3>5. QED
      BY <3>2, <3>4 DEF Uri!Last
  <2>4. QED
    BY <2>3, Zenon DEF Uri!splitHostPort, Colon
<1>3. QED
  BY <1>1, <1>2

(* "host:port", "[ho:st]:port": the port begins behind the last colon.     *)
LEMMA SplitsPort ==
  ASSUME NEW S, ":" \in S, NEW host \in Seq(S), NEW port \in Seq(S), port # <<>>,
         Colons(port) = {}, port[Len(port)] # "]"
  PROVE  Uri!splitHostPort(host \o <<":">> \o port) = Uri!HostPort(host, port)
<1> DEFINE addr == host \o <<":">> \o port
           i == Colon(addr)
           n == Len(host)
<1>1. /\ n \in Nat /\ Len(port) \in Nat \ {0}
      /\ addr \in Seq(S) /\ Len(addr) = n + 1 + Len(port) /\ addr[n + 1] = ":"
      /\ \A j \in 1..n : addr[j] = host[j]
      /\ \A j \in 1..Len(port) : addr[n + 1 + j] = port[j]
  BY Appended
<1> HIDE DEF addr
<1>2. n + 1 \in Colons(addr)
  BY <1>1 DEF Colons
<1>3. \A j \in Colons(addr) : j <= n + 1
  <2>1. SUFFICES ASSUME NEW j \in Colons(addr), j > n + 1 PROVE FALSE
    BY <1>1 DEF Colons
  <2>2. j - (n + 1) \in 1..Len(port) /\ j = n + 1 + (j - (n + 1)) /\ addr[j] = ":"
    BY <1>1, <2>1 DEF Colons
  <2>3. port[j - (n + 1)] = ":"
    BY <1>1, <2>2
  <2>4. QED
    BY <2>2, <2>3 DEF Colons
<1>4. i = n + 1
  <2>1. i \in Colons(addr) /\ \A j \in Colons(addr) : j <= i
    BY <1>1, <1>2, LastColon
  <2>2. i \in Nat /\ i <= n + 1 /\ n + 1 <= i
    BY <1>1, <1>2, <1>3, <2>1 DEF Colons
  <2>3. QED
    BY <1>1, <2>2
<1>5. SubSeq(addr, i + 1, Len(addr)) = port
  <2> DEFINE t == SubSeq(addr, i + 1, Len(addr))
  <2>1. /\ t \in Seq(S) /\ Len(t) = Len(port)
        /\ \A j \in 1..Len(port) : t[j] = addr[n + 1 + j]
    BY <1>1, <1>4, PartOf
  <2> HIDE DEF t
  <2>2. t = port
    BY <1>1, <2>1, SeqEqual
  <2>3. QED
    BY <2>2 DEF t
<1>6. SubSeq(addr, 1, i - 1) = host
  <2> DEFINE t == SubSeq(addr, 1, i - 1)
  <2>1. /\ t \in Seq(S) /\ Len(t) = n
        /\ \A j \in 1..n : t[j] = addr[j]
    BY <1>1, <1>4, PartOf
  <2> HIDE DEF t
  <2>2. t = host
    BY <1>1, <2>1, SeqEqual
  <2>3. QED
    BY <2>2 DEF t
<1>7. Uri!Last(port) # "]" /\ i # 0
  BY <1>1, <1>4 DEF Uri!Last
<1>8. QED
  BY <1>5, <1>6, <1>7, Zenon DEF Uri!splitHostPort, Colon, addr

-----------------------------------------------------------------------------
(* The four forms of an address are all of them.                           *)
LEMMA FormsSplit ==
  ASSUME NEW S, ":" \in S, NEW addr \in Seq(S), NEW hp \in Uri!Grammar(addr)
  PROVE  /\ Uri!splitHostPort(addr) = hp
         /\ hp.host \in Seq(S) /\ hp.host # <<>>
         /\ Uri!splitHostPort(hp.host) = Uri!HostPort(hp.host, <<>>)
<1>1. Len(addr) \in Nat
  OBVIOUS
<1>2. PICK k \in 0..Len(addr) : hp = Uri!HostPort(SubSeq(addr, 1, k), SubSeq(addr, k + 2, Len(addr)))
  BY DEF Uri!Grammar
<1> DEFINE host == SubSeq(addr, 1, k)
           port == SubSeq(addr, k + 2, Len(addr))
<1>3. hp = Uri!HostPort(host, port) /\ hp.host = host /\ hp.port = port
  BY <1>2 DEF Uri!HostPort
<1>4. host \in Seq(S) /\ Len(host) = k
  BY <1>1, PartOf
<1>5. port \in Seq(S) /\ (k >= Len(addr) - 1 => port = <<>>)
  <2>1. CASE k + 2 <= Len(addr) + 1
    <3>1. k + 2 \in 1..(Len(addr) + 1) /\ Len(addr) \in 0..Len(addr)
      BY <1>1, <2>1
    <3>2. port \in Seq(S) /\ Len(port) = Len(addr) - (k + 2) + 1
      BY <2>1, <3>1, PartOf
    <3>3. k >= Len(addr) - 1 => Len(port) = 0
      BY <1>1, <2>1, <3>2
    <3>4. QED
      BY <3>2, <3>3, EmptySeq
  <2>2. CASE k = Len(addr)
    <3>1. k + 2 \in Int /\ Len(addr) \in Int /\ Len(addr) < k + 2
      BY <1>1, <2>2
    <3>2. port = <<>>
      BY <3>1, SubSeqEmpty
    <3>3. QED
      BY <3>2
  <2>3. QED
    BY <1>1, <2>1, <2>2
<1>6. /\ Uri!Word(host) \/ Uri!Bracketed(host)
      /\ addr = host \/ (Uri!Word(port) /\ addr = host \o <<":">> \o port)
  BY <1>3 DEF Uri!Grammar
<1> HIDE DEF host, port
<1>7. host # <<>> /\ Uri!splitHostPort(host) = Uri!HostPort(host, <<>>)
  <2>1. CASE Uri!Word(host)
    <3>1. host # <<>> /\ Colons(host) = {}
      BY <1>4, <2>1 DEF Uri!Word, Colons
    <3>2. QED
      BY <1>4, <3>1, SplitsHost
  <2>2. CASE Uri!Bracketed(host)
    <3>1. host # <<>> /\ host[1] = "[" /\ host[Len(host)] = "]"
      BY <1>4, <2>2 DEF Uri!Bracketed, Uri!Last
    <3>2. QED
      BY <1>4, <3>1, SplitsBrackets
  <2>3. QED
    BY <1>6, <2>1, <2>2
<1>8. Uri!splitHostPort(addr) = Uri!HostPort(host, port)
  <2>1. CASE addr = host
    <3>1. port = <<>>
      BY <1>1, <1>4, <1>5, <2>1
    <3>2. QED
      BY <1>7, <2>1, <3>1
  <2>2. CASE Uri!Word(port) /\ addr = host \o <<":">> \o port
    <3>1. port # <<>> /\ Colons(port) = {}
      BY <1>5, <2>2 DEF Uri!Word, Colons
    <3>2. Len(port) \in 1..Len(port)
      BY <1>5, <3>1
    <3>3. port[Len(port)] # "]"
      BY <2>2, <3>2 DEF Uri!Word
    <3>4. QED
      BY <1>4, <1>5, <2>2, <3>1, <3>3, SplitsPort
  <2>3. QED
    BY <1>6, <2>1, <2>2
<1>9. QED
  BY <1>3, <1>4, <1>7, <1>8

(* What is split off is a sequence of tokens of the address.               *)
LEMMA PortOf ==
  ASSUME NEW S, ":" \in S, NEW addr \in Seq(S)
  PROVE  Uri!splitHostPort(addr).port \in Seq(S)
<1> DEFINE i == Colon(addr)
           port == SubSeq(addr, i + 1, Len(addr))
<1>1. i \in 0..Len(addr) /\ Len(addr) \in Nat
  BY LastColon DEF Colons
<1>2. port \in Seq(S)
  <2> HIDE DEF i
  <2>1. i + 1 \in 1..(Len(addr) + 1) /\ Len(addr) \in 0..Len(addr) /\ i + 1 <= Len(addr) + 1
    BY <1>1
  <2>2. QED
    BY <2>1, PartOf
<1>3. <<>> \in Seq(S)
  OBVIOUS
<1>4. Uri!splitHostPort(addr) = Uri!HostPort(addr, <<>>)
      \/ Uri!splitHostPort(addr) = Uri!HostPort(SubSeq(addr, 1, i - 1), port)
  BY Zenon DEF Uri!splitHostPort, Colon
<1>5. Uri!splitHostPort(addr).port \in {<<>>, port}
  <2> HIDE DEF port
  <2>1. QED
    BY <1>4 DEF Uri!HostPort
<1>6. QED
  BY <1>2, <1>3, <1>5

(* A number has no colon and ends in no bracket.                           *)
LEMMA Digits ==
  ASSUME NEW S, NEW port \in Seq(S), Uri!IsNumber(port)
  PROVE  port[Len(port)] # "]" /\ Colons(port) = {}
<1>1. Len(port) \in Nat /\ Len(port) # 0 /\ \A i \in 1..Len(port) : port[i] = "1"
  <2>1. Len(port) \in 1..10 /\ \A i \in 1..Len(port) : port[i] = "1"
    BY Zenon DEF Uri!IsNumber
  <2>2. Len(port) \in Nat
    OBVIOUS
  <2>3. Len(port) # 0
    <3>1. 0 \notin 1..10
      OBVIOUS
    <3>2. QED
      BY <2>1, <3>1, Zenon
  <2>4. QED
    BY <2>1, <2>2, <2>3
<1>2. Len(port) \in 1..Len(port)
  BY <1>1
<1>3. QED
  BY <1>1, <1>2 DEF Colons

LEMMA PortAppended ==
  ASSUME NEW S, ":" \in S, NEW host \in Seq(S), NEW port \in Seq(S)
  PROVE  host \o (<<":">> \o port) = host \o <<":">> \o port
<1> DEFINE c == <<":">>
<1>1. c \in Seq(S)
  OBVIOUS
<1> HIDE DEF c
<1>2. (host \o c) \o port = host \o (c \o port)
  BY <1>1, ConcatAssociative
<1>3. QED
  BY <1>2 DEF c

(* The text of a parsed URI parses back to it, whatever was left out.      *)
LEMMA ParsesBack ==
  ASSUME NEW u \in Urls
  PROVE  /\ ~Uri!ParseURI(u).err /\ (Uri!Grammar(u.host) # {} \/ u.host \in {<<>>, <<":", "1">>})
         /\ ~Uri!Torn(Uri!ParseURI(u).uri) /\ "blank" \notin Uri!Range(Uri!ParseURI(u).uri.Vhost)
         => Uri!ParseURI(Uri!StringOf(Uri!ParseURI(u).uri)) = Uri!ParseURI(u)
<1> SUFFICES ASSUME ~Uri!ParseURI(u).err, Uri!Grammar(u.host) # {} \/ u.host \in {<<>>, <<":", "1">>},
                    ~Uri!Torn(Uri!ParseURI(u).uri), "blank" \notin Uri!Range(Uri!ParseURI(u).uri.Vhost)
             PROVE  Uri!ParseURI(Uri!StringOf(Uri!ParseURI(u).uri)) = Uri!ParseURI(u)
  OBVIOUS
<1> DEFINE me == Uri!ParseURI(u).uri
           text == Uri!StringOf(me)
           hp == Uri!splitHostPort(u.host)
           S == STRING \cup {":", "1", "localhost"}
<1>1. /\ u.scheme \in Uri!Schemes /\ (hp.port = <<>> \/ Uri!IsNumber(hp.port))
      /\ Uri!ParseURI(u) = Uri!Ok(me)
      /\ me = [Scheme   |-> u.scheme,
               Host     |-> Uri!Or(hp.host, <<"localhost">>),
               Port     |-> IF hp.port = <<>> THEN Uri!schemePorts[u.scheme] ELSE hp.port,
               Username |-> IF u.user = Uri!None THEN <<"guest">> ELSE u.user,
               Password |-> IF u.password = Uri!None THEN <<"guest">> ELSE u.password,
               Vhost    |-> Uri!vhost(u)]
  <2> DEFINE parsed == [Scheme   |-> u.scheme,
                        Host     |-> Uri!Or(hp.host, <<"localhost">>),
                        Port     |-> IF hp.port = <<>> THEN Uri!schemePorts[u.scheme] ELSE hp.port,
                        Username |-> IF u.user = Uri!None THEN <<"guest">> ELSE u.user,
                        Password |-> IF u.password = Uri!None THEN <<"guest">> ELSE u.password,
                        Vhost    |-> Uri!vhost(u)]
  <2>1. /\ Uri!defaultURI.Host = <<"localhost">> /\ Uri!defaultURI.Username = <<"guest">>
        /\ Uri!defaultURI.Password = <<"guest">>
    BY DEF Uri!defaultURI
  <2>2. Uri!ParseURI(u) = IF u.scheme \notin Uri!Schemes \/ ~(hp.port = <<>> \/ Uri!IsNumber(hp.port))
                          THEN Uri!Failed ELSE Uri!Ok(parsed)
    BY <2>1, Zenon DEF Uri!ParseURI
  <2>3. Uri!Failed.err
    BY DEF Uri!Failed
  <2> HIDE DEF parsed
  <2>4. u.scheme \in Uri!Schemes /\ (hp.port = <<>> \/ Uri!IsNumber(hp.port)) /\ Uri!ParseURI(u) = Uri!Ok(parsed)
    BY <2>2, <2>3, Zenon
  <2>5. me = parsed
    BY <2>4 DEF Uri!Ok
  <2>6. QED
    BY <2>4, <2>5, Zenon DEF parsed
<1>0. "blank" \notin Uri!Range(me.Vhost)
  OBVIOUS
(* The host and its port. *)
<1>2. /\ me.Host \in Seq(S) /\ me.Host # <<>>
      /\ Uri!splitHostPort(me.Host) = Uri!HostPort(me.Host, <<>>)
  <2>1. ":" \in S /\ u.host \in Seq(S)
    <3>1. u.host \in Seq(STRING)
      BY UriAssumption DEF Uri!AmqpUriAssumption
    <3>2. QED
      BY <3>1
  <2> HIDE DEF S
  <2>2. CASE Uri!Grammar(u.host) # {}
    <3>1. PICK g \in Uri!Grammar(u.host) : TRUE
      BY <2>2
    <3>2. /\ hp = g /\ g.host \in Seq(S) /\ g.host # <<>>
          /\ Uri!splitHostPort(g.host) = Uri!HostPort(g.host, <<>>)
      BY <2>1, <3>1, FormsSplit
    <3>3. me.Host = g.host
      BY <1>1, <3>2 DEF Uri!Or
    <3>4. QED
      BY <3>2, <3>3
  <2>3. CASE u.host \in {<<>>, <<":", "1">>}
    <3>1. hp.host = <<>>
      <4>1. <<>> \in Seq(S) /\ <<"1">> \in Seq(S) /\ Colons(<<>>) = {} /\ Colons(<<"1">>) = {}
        BY DEF Colons, S
      <4>2. CASE u.host = <<>>
        <5>1. hp = Uri!HostPort(<<>>, <<>>)
          BY <2>1, <4>1, <4>2, SplitsHost
        <5>2. QED
          BY <5>1 DEF Uri!HostPort
      <4>3. CASE u.host = <<":", "1">>
        <5>1. u.host = <<>> \o <<":">> \o <<"1">>
          BY <4>3
        <5>2. <<"1">> # <<>> /\ <<"1">>[Len(<<"1">>)] # "]"
          OBVIOUS
        <5>3. Uri!splitHostPort(<<>> \o <<":">> \o <<"1">>) = Uri!HostPort(<<>>, <<"1">>)
          BY <2>1, <4>1, <5>2, SplitsPort
        <5>4. hp = Uri!HostPort(<<>>, <<"1">>)
          BY <5>1, <5>3
        <5>5. QED
          BY <5>4 DEF Uri!HostPort
      <4>4. QED
        BY <2>3, <4>2, <4>3
    <3>2. me.Host = <<"localhost">>
      BY <1>1, <3>1 DEF Uri!Or
    <3>3. <<"localhost">> \in Seq(S) /\ Colons(<<"localhost">>) = {} /\ <<"localhost">> # <<>>
      BY DEF Colons, S
    <3>4. QED
      BY <2>1, <3>2, <3>3, SplitsHost
  <2>4. QED
    BY <2>2, <2>3
<1>3. Uri!splitHostPort(text.host) = Uri!HostPort(me.Host, hp.port) /\ text.host # <<>>
  <2> DEFINE default == Uri!schemePorts[u.scheme]
  <2>1. default \in {<<"5672">>, <<"5671">>}
    BY <1>1 DEF Uri!schemePorts, Uri!Schemes
  <2>2. text.host = me.Host \o (IF me.Port # default THEN <<":">> \o me.Port ELSE <<>>)
    <3>1. ~Uri!Torn(me) /\ me.Scheme = u.scheme
      BY <1>1
    <3> HIDE DEF me
    <3>2. QED
      BY <3>1 DEF Uri!StringOf
  <2>3. CASE hp.port = <<>>
    <3> HIDE DEF default, text, S
    <3>1. me.Port = default
      BY <1>1, <2>3 DEF default
    <3>2. text.host = me.Host
      BY <1>2, <2>2, <3>1, ConcatEmptySeq
    <3>3. QED
      BY <1>2, <2>3, <3>2
  <2>4. CASE hp.port # <<>>
    <3> DEFINE port == hp.port
    <3>1. me.Port = port
      BY <1>1, <2>4
    <3>2. /\ Len(port) \in 1..10
          /\ \A i \in 1..Len(port) : port[i] = "1"
      BY <1>1, <2>4 DEF Uri!IsNumber
    <3>0. Uri!IsNumber(port)
      BY <1>1, <2>4
    <3>3. ":" \in S /\ <<":">> \in Seq(S) /\ port \in Seq(S)
      <4>1. u.host \in Seq(STRING)
        BY UriAssumption DEF Uri!AmqpUriAssumption
      <4>2. ":" \in S /\ u.host \in Seq(S)
        BY <4>1
      <4> HIDE DEF S, hp
      <4>3. hp.port \in Seq(S)
        BY <4>2, PortOf DEF hp
      <4>4. QED
        BY <4>2, <4>3
    <3> HIDE DEF default, text, S, port
    <3>4. port # <<>> /\ port # default
      <4>1. port[1] = "1"
        BY <3>2
      <4>2. default[1] # "1"
        BY <2>1
      <4>3. QED
        BY <3>2, <4>1, <4>2
    <3>5. text.host = me.Host \o <<":">> \o port
      <4>1. text.host = me.Host \o (<<":">> \o port)
        BY <2>2, <3>1, <3>4
      <4> HIDE DEF me
      <4>2. me.Host \o (<<":">> \o port) = me.Host \o <<":">> \o port
        BY <1>2, <3>3, PortAppended
      <4>3. QED
        BY <4>1, <4>2
    <3>6. port[Len(port)] # "]" /\ Colons(port) = {}
      BY <3>3, <3>0, Digits
    <3>7. Uri!splitHostPort(text.host) = Uri!HostPort(me.Host, port)
      BY <1>2, <3>3, <3>4, <3>5, <3>6, SplitsPort
    <3>8. Len(text.host) # 0
      <4>1. Len(text.host) = Len(me.Host) + 1 + Len(port) /\ Len(me.Host) \in Nat /\ Len(port) \in Nat
        BY <1>2, <3>3, <3>5, Appended
      <4>2. QED
        BY <4>1
    <3>9. QED
      BY <3>7, <3>8 DEF port
  <2>5. QED
    BY <2>3, <2>4
(* Name, password and vhost. *)
<1>4. /\ (IF text.user = Uri!None THEN <<"guest">> ELSE text.user) = me.Username
      /\ (IF text.password = Uri!None THEN <<"guest">> ELSE text.password) = me.Password
  <2>1. me.Username # Uri!None /\ me.Password # Uri!None
    BY <1>1 DEF Uri!None
  <2>2. /\ text.user = Uri!StringAuthority(me).user /\ text.password = Uri!StringAuthority(me).password
    BY DEF Uri!StringOf
  <2> HIDE DEF me, text
  <2>3. QED
    BY <2>1, <2>2 DEF Uri!StringAuthority, Uri!defaultURI
<1>5. Uri!vhost(text) = me.Vhost
  <2>0. text.path = <<"/">> \o (IF me.Vhost # <<"/">> THEN Uri!Respaced(me.Vhost) ELSE <<>>)
    BY DEF Uri!StringOf, Uri!defaultURI
  <2>2. me.Vhost \in Seq(STRING \cup {"/"}) /\ me.Vhost # <<>>
    <3>1. u.path \in Seq(STRING \cup {"/"})
      <4>1. u.path \in Seq(STRING)
        BY UriAssumption DEF Uri!AmqpUriAssumption
      <4>2. QED
        BY <4>1
    <3> DEFINE P == STRING \cup {"/"}
    <3>2. <<"/">> \in Seq(P)
      OBVIOUS
    <3> HIDE DEF P
    <3>3. u.path \in Seq(P)
      BY <3>1 DEF P
    <3>4. CASE u.path = <<>>
      BY <1>1, <3>2, <3>4 DEF Uri!vhost, Uri!defaultURI, P
    <3>5. CASE u.path # <<>>
      <4>1. Tail(u.path) \in Seq(P) /\ SubSeq(u.path, 4, Len(u.path)) \in Seq(P)
        BY <3>3, <3>5
      <4>2. Uri!vhost(u) \in {u.path, <<"/">>, Tail(u.path), SubSeq(u.path, 4, Len(u.path))} \ {<<>>}
        BY <3>2, <3>5 DEF Uri!vhost, Uri!defaultURI, Uri!Or
      <4>3. me.Vhost = Uri!vhost(u)
        BY <1>1
      <4> HIDE DEF me
      <4>4. me.Vhost \in Seq(P) /\ me.Vhost # <<>>
        BY <3>2, <3>3, <4>1, <4>2, <4>3
      <4>5. QED
        BY <4>4 DEF P
    <3>6. QED
      BY <3>4, <3>5
  <2>1. text.path = <<"/">> \o (IF me.Vhost # <<"/">> THEN me.Vhost ELSE <<>>)
    <3> HIDE DEF me, text
    <3>1. \A i \in 1..Len(me.Vhost) : me.Vhost[i] # "blank"
      BY <2>2, <1>0 DEF Uri!Range
    <3>2. Uri!Respaced(me.Vhost) = me.Vhost
      BY <2>2, <3>1 DEF Uri!Respaced
    <3>3. QED
      BY <2>0, <3>2
  <2>3. text.path # <<>> /\ Head(text.path) = "/"
        /\ Tail(text.path) = IF me.Vhost # <<"/">> THEN me.Vhost ELSE <<>>
    <3> DEFINE v == IF me.Vhost # <<"/">> THEN me.Vhost ELSE <<>>
    <3>1. v \in Seq(STRING \cup {"/"}) /\ text.path = <<"/">> \o v
      BY <2>1, <2>2
    <3> HIDE DEF v, text, me
    <3>2. text.path # <<>> /\ Head(text.path) = "/" /\ Tail(text.path) = v
      BY <3>1
    <3>3. QED
      BY <3>2 DEF v
  <2>4. Uri!vhost(text) = Uri!Or(Tail(text.path), <<"/">>)
    BY <1>3, <2>3 DEF Uri!vhost, Uri!defaultURI
  <2> HIDE DEF text, me
  <2>5. QED
    BY <2>2, <2>3, <2>4 DEF Uri!Or
<1>6. text.scheme = me.Scheme /\ me.Scheme = u.scheme
  BY <1>1 DEF Uri!StringOf
<1>7. Uri!ParseURI(text) = Uri!Ok(me)
  <2>1. Uri!Or(me.Host, <<"localhost">>) = me.Host
    BY <1>2 DEF Uri!Or
  <2>2. (IF hp.port = <<>> THEN Uri!schemePorts[u.scheme] ELSE hp.port) = me.Port
    BY <1>1
  <2>3. me = [Scheme |-> me.Scheme, Host |-> me.Host, Port |-> me.Port, Username |-> me.Username,
              Password |-> me.Password, Vhost |-> me.Vhost]
    BY <1>1
  <2> HIDE DEF text, me, hp
  <2>4. /\ Uri!splitHostPort(text.host).port = hp.port
        /\ Uri!splitHostPort(text.host).host = me.Host
    BY <1>3 DEF Uri!HostPort
  <2>5. /\ text.scheme \in Uri!Schemes
        /\ Uri!splitHostPort(text.host).port = <<>> \/ Uri!IsNumber(Uri!splitHostPort(text.host).port)
    BY <1>1, <1>6, <2>4
  <2>6. Uri!ParseURI(text) =
          Uri!Ok([Scheme   |-> text.scheme,
                  Host     |-> Uri!Or(me.Host, <<"localhost">>),
                  Port     |-> IF hp.port = <<>> THEN Uri!schemePorts[text.scheme] ELSE hp.port,
                  Username |-> IF text.user = Uri!None THEN <<"guest">> ELSE text.user,
                  Password |-> IF text.password = Uri!None THEN <<"guest">> ELSE text.password,
                  Vhost    |-> Uri!vhost(text)])
    BY <2>4, <2>5 DEF Uri!ParseURI, Uri!defaultURI
  <2>7. QED
    BY <1>4, <1>5, <1>6, <2>1, <2>2, <2>3, <2>6
<1>8. QED
  BY <1>1, <1>7

-----------------------------------------------------------------------------
(* Dialing: the configuration is that of the URL and of the caller, whose  *)
(* own tls.Config stays as it was, and a connection with TLS is open only  *)
(* after the handshake with the server it names.                           *)
ServerNamed ==
  config.serverName = IF given.tls /\ given.serverName # Uri!None THEN given.serverName
                      ELSE Uri!ParseURI(url).uri.Host

UriConfigured ==
  /\ ~Uri!ParseURI(url).err
  /\ {"tls", "serverName"} \subseteq DOMAIN config
  /\ config.tls = (given.tls \/ Uri!ParseURI(url).uri.Scheme = "amqps")
  /\ dialing = "dialing" /\ config.tls => config.serverName = IF given.tls THEN given.serverName ELSE Uri!None
  /\ dialing \in {"handshake", "open"} /\ config.tls => ServerNamed

UriInv ==
  /\ url \in Urls
  /\ tlsName = given.serverName
  /\ dialing \in {"dial", "failed", "dialing", "handshake", "open"}
  /\ dialing \in {"dialing", "handshake", "open"} => UriConfigured
  /\ dialing = "open" /\ config.tls => secure

(* The scheme of a URL that parses is the URL's.                           *)
LEMMA SchemeKept ==
  ASSUME NEW u, ~Uri!ParseURI(u).err
  PROVE  Uri!ParseURI(u).uri.Scheme = u.scheme
<1> DEFINE hp == Uri!splitHostPort(u.host)
           rest == [Scheme   |-> u.scheme,
                    Host     |-> Uri!Or(hp.host, Uri!defaultURI.Host),
                    Port     |-> IF hp.port = <<>> THEN Uri!schemePorts[u.scheme] ELSE hp.port,
                    Username |-> IF u.user = Uri!None THEN Uri!defaultURI.Username ELSE u.user,
                    Password |-> IF u.password = Uri!None THEN Uri!defaultURI.Password ELSE u.password,
                    Vhost    |-> Uri!vhost(u)]
<1>1. Uri!ParseURI(u) \in {Uri!Failed, Uri!Ok(rest)}
  BY Zenon DEF Uri!ParseURI
<1>2. Uri!Failed.err
  BY DEF Uri!Failed
<1>3. rest.Scheme = u.scheme
  OBVIOUS
<1> HIDE DEF rest
<1>4. Uri!ParseURI(u) = Uri!Ok(rest)
  BY <1>1, <1>2
<1>5. QED
  BY <1>3, <1>4 DEF Uri!Ok

(* Every step of a dial keeps it so.                                       *)
LEMMA UriStep ==
  ASSUME UriInv, Uri!Next
  PROVE  UriInv'
<1> USE DEF UriInv
<1>1. CASE Uri!DialFails
  BY <1>1 DEF Uri!DialFails
<1>2. CASE Uri!Dial
  <2> DEFINE uri == Uri!ParseURI(url).uri
             tls == given.tls \/ uri.Scheme = "amqps"
  <2>1. /\ config' = [addr       |-> Uri!JoinHostPort(uri.Host, uri.Port),
                      sasl       |-> IF given.sasl = Uri!None THEN <<uri.Username, uri.Password>> ELSE given.sasl,
                      vhost      |-> IF given.vhost = Uri!None THEN uri.Vhost ELSE given.vhost,
                      tls        |-> tls,
                      serverName |-> IF given.tls THEN tlsName ELSE Uri!None]
        /\ dialing = "dial" /\ dialing' = "dialing"
        /\ url' = url /\ given' = given /\ tlsName' = tlsName /\ ~Uri!ParseURI(url).err
    BY <1>2 DEF Uri!Dial
  <2>2. config'.tls = tls /\ config'.serverName = IF given.tls THEN given.serverName ELSE Uri!None
    BY <2>1
  <2>3. UriConfigured'
    BY <2>1, <2>2 DEF UriConfigured
  <2>4. QED
    BY <2>1, <2>3
<1>3. CASE Uri!Connects
  <2> DEFINE host == Uri!ParseURI(url).uri.Host
  <2>1. /\ dialing = "dialing" /\ dialing' = IF config.tls THEN "handshake" ELSE "open"
        /\ url' = url /\ given' = given /\ tlsName' = tlsName
        /\ config' = IF config.tls /\ config.serverName = Uri!None THEN [config EXCEPT !.serverName = host] ELSE config
    BY <1>3 DEF Uri!Connects, Uri!CopiedName
  <2>2. config'.tls = config.tls /\ DOMAIN config' = DOMAIN config /\ "serverName" \in DOMAIN config
    BY <2>1 DEF UriConfigured
  <2>3. config.tls => config'.serverName = IF config.serverName = Uri!None THEN host ELSE config.serverName
    <3>1. CASE config.tls /\ config.serverName = Uri!None
      <4>1. config' = [config EXCEPT !.serverName = host]
        BY <2>1, <3>1
      <4>2. "serverName" \in DOMAIN config
        BY <2>2
      <4>3. QED
        BY <3>1, <4>1, <4>2
    <3>2. QED
      BY <2>1, <3>1
  <2>4. UriConfigured'
    BY <2>1, <2>2, <2>3 DEF UriConfigured, ServerNamed
  <2>5. QED
    BY <2>1, <2>2, <2>4
<1>4. CASE Uri!Handshake
  BY <1>4 DEF Uri!Handshake, UriConfigured, ServerNamed
<1>5. CASE Uri!GivesUp
  BY <1>5 DEF Uri!GivesUp
<1>6. CASE Uri!DialAgain
  BY <1>6, UriAssumption DEF Uri!DialAgain, Uri!AmqpUriAssumption
<1>7. QED
  BY <1>1, <1>2, <1>3, <1>4, <1>5, <1>6 DEF Uri!Next

(* In such a state all that is said of addresses holds.                    *)
LEMMA UriInvHolds ==
  ASSUME UriInv
  PROVE  Uri!AddressesHold
<1>1. Uri!SplitsByGrammar
  <2> DEFINE S == STRING \cup {":"}
  <2>1. url.host \in Seq(STRING)
    BY UriAssumption DEF Uri!AmqpUriAssumption, UriInv
  <2>2. url.host \in Seq(S) /\ ":" \in S
    BY <2>1
  <2> HIDE DEF S
  <2>3. QED
    BY <2>2, FormsSplit DEF Uri!SplitsByGrammar
<1>2. Uri!StringParsesBack
  BY ParsesBack DEF UriInv, Uri!StringParsesBack
<1>3. Uri!NeverInTheClear
  BY SchemeKept DEF UriInv, UriConfigured, ServerNamed, Uri!NeverInTheClear
<1>4. QED
  BY <1>1, <1>2, <1>3 DEF Uri!AddressesHold

(* Addresses are split as their grammar says, the text of a URI parses     *)
(* back to it, and amqps is never opened in the clear: for every set of    *)
(* URLs, of hosts and paths of any length.                                 *)
THEOREM AddressesAlwaysHold == Spec => []AddressesHold
<1> DEFINE Inv == part = "uri" => UriInv
<1>1. Init => Inv
  BY DEF Init, Uri!Init, UriInv
<1>2. Inv /\ [Next \/ Ends]_vars => Inv'
  <2> SUFFICES ASSUME Inv, [Next \/ Ends]_vars, part' = "uri" PROVE UriInv'
    OBVIOUS
  <2>1. CASE Next
    <3>1. part = "uri" /\ UriInv
      BY <2>1 DEF Next
    <3>2. Uri!Next
      BY <2>1, <3>1 DEF Next
    <3>3. QED
      BY <3>1, <3>2, UriStep
  <2>2. CASE UNCHANGED vars \/ Ends
    BY <2>2 DEF Ends, vars, uriVars, UriInv, UriConfigured, ServerNamed
  <2>3. QED
    BY <2>1, <2>2
<1>3. Inv => AddressesHold
  BY UriInvHolds DEF AddressesHold
<1>4. QED
  BY <1>1, <1>2, <1>3, PTL DEF Spec

-----------------------------------------------------------------------------
(* Host *)

(* The release files by name, and where each stands in the search.         *)
LEMMA ReleaseNames ==
  /\ Host!Range(Host!Releases) = {"oracle-release", "enterprise-release", "debian_version", "redhat-release",
                                  "system-release", "gentoo-release", "SuSE-release", "arch-release"}
  /\ Host!Range(Host!Releases) \subseteq Host!Names
  /\ {"lsb-release", "raspi-config", "stat"} \subseteq Host!Names
<1>1. /\ DOMAIN Host!Releases = 1..8
      /\ Host!Releases[1] = "oracle-release" /\ Host!Releases[2] = "enterprise-release"
      /\ Host!Releases[3] = "debian_version" /\ Host!Releases[4] = "redhat-release"
      /\ Host!Releases[5] = "system-release" /\ Host!Releases[6] = "gentoo-release"
      /\ Host!Releases[7] = "SuSE-release" /\ Host!Releases[8] = "arch-release"
  BY DEF Host!Releases
<1>2. 1..8 = {1, 2, 3, 4, 5, 6, 7, 8}
  OBVIOUS
<1> DEFINE R == Host!Releases
<1>3. {R[x] : x \in {1, 2, 3, 4, 5, 6, 7, 8}} = {R[1], R[2], R[3], R[4], R[5], R[6], R[7], R[8]}
  OBVIOUS
<1>4. Host!Range(R) = {R[x] : x \in {1, 2, 3, 4, 5, 6, 7, 8}}
  BY <1>1, <1>2, Zenon DEF Host!Range
<1>5. Host!Range(Host!Releases) = {"oracle-release", "enterprise-release", "debian_version", "redhat-release",
                                  "system-release", "gentoo-release", "SuSE-release", "arch-release"}
  BY <1>1, <1>3, <1>4
<1>6. QED
  BY <1>5 DEF Host!Names

(* The rank of a release file is its place in the list, for each is there  *)
(* once.                                                                   *)
LEMMA RankOf ==
  ASSUME NEW i \in 1..8, NEW f, f = Host!Releases[i]
  PROVE  Host!Rank(f) = i
<1> DEFINE Same == {j \in 1..Len(Host!Releases) : Host!Releases[j] = f}
<1>1. Len(Host!Releases) = 8
  BY DEF Host!Releases
<1>2. \A j \in 1..8 : Host!Releases[j] = Host!Releases[i] => j = i
  BY DEF Host!Releases
<1>3. Same = {i}
  BY <1>1, <1>2
<1>4. Host!Rank(f) = IF Same # {} THEN Host!Min(Same) ELSE 0
  BY Zenon DEF Host!Rank, Host!SelectInSeq
<1>5. Host!Min({i}) = i
  BY DEF Host!Min
<1>6. QED
  BY <1>3, <1>4, <1>5

(* The order in which the code asks for them.                              *)
LEMMA Ranks ==
  /\ Host!Rank("oracle-release") = 1 /\ Host!Rank("enterprise-release") = 2
  /\ Host!Rank("debian_version") = 3 /\ Host!Rank("redhat-release") = 4
  /\ Host!Rank("system-release") = 5 /\ Host!Rank("gentoo-release") = 6
  /\ Host!Rank("SuSE-release") = 7 /\ Host!Rank("arch-release") = 8
<1>1. /\ Host!Releases[1] = "oracle-release" /\ Host!Releases[2] = "enterprise-release"
      /\ Host!Releases[3] = "debian_version" /\ Host!Releases[4] = "redhat-release"
      /\ Host!Releases[5] = "system-release" /\ Host!Releases[6] = "gentoo-release"
      /\ Host!Releases[7] = "SuSE-release" /\ Host!Releases[8] = "arch-release"
  BY DEF Host!Releases
<1>2. \A k \in {1, 2, 3, 4, 5, 6, 7, 8} : k \in 1..8
  OBVIOUS
<1>3. \A k \in {1, 2, 3, 4, 5, 6, 7, 8} : Host!Rank(Host!Releases[k]) = k
  BY <1>2, RankOf
<1>4. QED
  BY <1>1, <1>3

-----------------------------------------------------------------------------
(* A file is whole, or the package manager has just emptied it.            *)
HostFiles ==
  /\ whole \in Hosts
  /\ DOMAIN files = Host!Names
  /\ \A f \in Host!Names : \/ files[f] = whole[f]
                           \/ f \in Replaced /\ whole[f].state = "readable" /\ files[f] = Host!Truncated

(* The machines with a platform of their own.                              *)
IsOracle == Host!Exists("oracle-release") \/ Host!Exists("enterprise-release")
IsRaspbian == Host!Exists("raspi-config")
IsRedHat == Host!Exists("redhat-release") /\ Host!Exists("system-release") /\ ~IsOracle

(* The release file that was found is the right one, and so is what is     *)
(* said of the platform before it is read; and what is said in the end.    *)
ReleaseFound ==
  /\ IsOracle => release \in {"oracle-release", "enterprise-release"} /\ info.platform = "oracle"
  /\ IsRaspbian => release = "debian_version" /\ info.platform \in {"raspbian", "ubuntu"}
  /\ IsRedHat => release = "redhat-release" /\ info.platform = ""

DebianFound == release = "debian_version" => info.platform \in {"debian", "raspbian"}

PlatformKnown ==
  /\ IsOracle => info.platform = "oracle"
  /\ IsRaspbian => info.platform \in {"raspbian", "ubuntu"}
  /\ IsRedHat => info.platform \in {"", Host!NameOn(whole["redhat-release"].lines)}

HostInv ==
  /\ HostFiles
  /\ DOMAIN info = {"platform", "version", "system", "role", "boot"}
  /\ looking \in {"lsb", "platform", "release", "virtualization", "boot", "done", "panicked"}
  /\ looking # "lsb" /\ IsRaspbian => lsb # "LinuxMint"
  /\ looking = "release" => ReleaseFound /\ DebianFound
  /\ looking \in {"virtualization", "boot", "done"} => PlatformKnown
  /\ looking \in {"done", "panicked"} => Host!PartsIndependent

(* Emptying a file does not hide it.                                       *)
LEMMA StillThere ==
  ASSUME HostFiles, NEW f \in Host!Names
  PROVE  Host!PathExists(f) <=> Host!Exists(f)
BY DEF HostFiles, Host!PathExists, Host!Exists, Host!Truncated, Host!File

(* What the code reads of a file that ends with a newline.                 *)
LEMMA ReadsWhole ==
  ASSUME HostFiles, NEW f \in Host!Names, whole[f].ended
  PROVE  Host!ReadLines(f) \in {whole[f].lines, <<>>} /\ (f \notin Replaced => Host!ReadLines(f) = whole[f].lines)
BY DEF HostFiles, Host!ReadLines, Host!Complete, Host!Truncated, Host!File

(* A name read off some lines is a word on them.                           *)
LEMMA NameRead ==
  ASSUME NEW lines
  PROVE  Host!NameOn(lines) = "" \/ Host!NameOn(lines) \in Host!Words(lines)
BY Zenon DEF Host!NameOn, Host!The

(* An empty file names nothing.                                            *)
LEMMA NoName == Host!NameOn(<<>>) = ""
<1>1. Host!Range(<<>>) = {}
  BY DEF Host!Range
<1>2. Host!Words(<<>>) = {}
  BY <1>1 DEF Host!Words
<1>3. QED
  BY <1>2 DEF Host!NameOn

(* A machine of these is of the kinds that Distributed leaves.             *)
LEMMA HostKinds ==
  ASSUME HostFiles
  PROVE  /\ IsRaspbian => Host!Exists("debian_version") /\ ~IsOracle
                          /\ "LinuxMint" \notin Host!Words(whole["lsb-release"].lines)
         /\ IsRedHat => ~Host!Exists("debian_version")
         /\ whole["redhat-release"].ended /\ whole["stat"].ended /\ "stat" \notin Replaced
         /\ \A f \in Host!Names : /\ whole[f].lines \in Seq(Host!Lines)
                                  /\ whole[f].state # "readable" => whole[f].lines = <<>>
<1>1. whole \in Hosts
  BY DEF HostFiles
<1>2. Host!Distributed(whole) /\ \A f \in Host!Names : whole[f].state # "readable" => whole[f].lines = <<>>
  BY <1>1, HostAssumption DEF Host!HostInfoAssumption
<1>3. \A f \in Host!Names : whole[f] \in [state : Host!States, lines : Seq(Host!Lines), ended : BOOLEAN]
  BY <1>1, HostAssumption DEF Host!HostInfoAssumption
<1>4. "stat" \notin Replaced
  BY HostAssumption DEF Host!HostInfoAssumption
<1>5. QED
  BY <1>2, <1>3, <1>4, Zenon DEF Host!Distributed, Host!Exists, IsOracle, IsRaspbian, IsRedHat

(* Dropping the last line adds no word.                                    *)
LEMMA FrontWords ==
  ASSUME NEW S, NEW lines \in Seq(S)
  PROVE  Host!Words(Host!Front(lines)) \subseteq Host!Words(lines)
<1> DEFINE n == Len(lines)
           t == SubSeq(lines, 1, n - 1)
<1>1. n \in Nat /\ DOMAIN lines = 1..n
  OBVIOUS
<1>2. DOMAIN t \subseteq DOMAIN lines /\ \A j \in DOMAIN t : t[j] = lines[j]
  <2>1. CASE n = 0
    <3>1. t = <<>>
      <4>1. 1 \in Int /\ n - 1 \in Int /\ n - 1 < 1
        BY <1>1, <2>1
      <4>2. QED
        BY <4>1, SubSeqEmpty
    <3>2. DOMAIN t = {}
      BY <3>1
    <3>3. QED
      BY <3>2
  <2>2. CASE n # 0
    <3>1. /\ \A i \in 1..(n - 1) : lines[i] \in S
          /\ 1 \in Int /\ n - 1 \in Int
      BY <1>1, <2>2
    <3>2. /\ t \in Seq(S) /\ Len(t) = IF 1 <= n - 1 THEN (n - 1) - 1 + 1 ELSE 0
          /\ \A i \in 1..((n - 1) - 1 + 1) : t[i] = lines[1 + i - 1]
      BY <3>1, SubSeqProperties
    <3>3. Len(t) = n - 1 /\ \A i \in 1..(n - 1) : t[i] = lines[i]
      BY <1>1, <2>2, <3>2
    <3>4. DOMAIN t = 1..(n - 1)
      BY <3>2, <3>3
    <3>5. QED
      BY <1>1, <2>2, <3>3, <3>4
  <2>3. QED
    BY <2>1, <2>2
<1> HIDE DEF t
<1>3. Host!Range(t) \subseteq Host!Range(lines)
  BY <1>2 DEF Host!Range
<1>4. Host!Front(lines) = t
  BY Zenon DEF Host!Front, t
<1>5. QED
  BY <1>3, <1>4 DEF Host!Words

(* The distribution of a Raspberry Pi is not taken for a Mint.             *)
LEMMA ReadsLSB ==
  ASSUME HostInv, Host!getLSB
  PROVE  HostInv'
<1> DEFINE lines == Host!ReadLines("lsb-release")
<1>1. /\ lsb' = IF Host!Readable("lsb-release") THEN Host!NameOn(lines) ELSE ""
      /\ looking' = "platform" /\ UNCHANGED <<files, whole, release, info>>
  BY DEF Host!getLSB
<1>2. HostFiles /\ "lsb-release" \in Host!Names
  BY ReleaseNames DEF HostInv
<1>3. IsRaspbian => lsb' # "LinuxMint"
  <2>1. Host!Words(lines) \subseteq Host!Words(whole["lsb-release"].lines)
    <3> DEFINE now == files["lsb-release"]
    <3>1. lines \in {now.lines, Host!Front(now.lines)}
      BY DEF Host!ReadLines, Host!Complete
    <3>2. now = whole["lsb-release"] \/ now = Host!Truncated
      BY <1>2 DEF HostFiles
    <3>3. CASE now = whole["lsb-release"]
      <4>1. now.lines \in Seq(Host!Lines)
        BY <1>2, <3>3, HostKinds
      <4>2. Host!Words(Host!Front(now.lines)) \subseteq Host!Words(now.lines)
        BY <4>1, FrontWords
      <4>3. QED
        BY <3>1, <3>3, <4>2
    <3>4. CASE now = Host!Truncated
      <4>1. now.lines = <<>> /\ now.ended
        BY <3>4 DEF Host!Truncated, Host!File
      <4>2. lines = <<>>
        BY <4>1 DEF Host!ReadLines, Host!Complete
      <4>3. Host!Words(<<>>) = {}
        BY DEF Host!Words, Host!Range
      <4>4. QED
        BY <4>2, <4>3
    <3>5. QED
      BY <3>2, <3>3, <3>4
  <2>2. IsRaspbian => "LinuxMint" \notin Host!Words(lines)
    BY <1>2, <2>1, HostKinds
  <2> HIDE DEF lines
  <2>3. QED
    BY <1>1, <2>2, NameRead
<1>4. QED
  BY <1>1, <1>2, <1>3 DEF HostInv, HostFiles, IsRaspbian, Host!Exists

(* The first release file in the order of the code is the right one.       *)
LEMMA FindsRelease ==
  ASSUME HostInv, NEW f \in Host!Range(Host!Releases), Host!FindRelease(f)
  PROVE  HostInv'
<1> DEFINE has(g) == Host!Exists(g)
           p == Host!Fixed(f)
<1>1. /\ looking = "platform" /\ Host!Existing(f) /\ release' = f
      /\ info' = [info EXCEPT !.platform = p, !.version = p \in {"ubuntu", "linuxmint"}]
      /\ looking' \in {"release", "virtualization"}
      /\ (looking' = "virtualization" => f = "arch-release" \/ p \in {"ubuntu", "linuxmint"})
      /\ UNCHANGED <<files, whole, lsb>>
  BY DEF Host!FindRelease
<1>2. HostFiles /\ DOMAIN info = {"platform", "version", "system", "role", "boot"}
  BY DEF HostInv
<1>3. info'.platform = p /\ DOMAIN info' = DOMAIN info
  <2> HIDE DEF p
  <2>1. QED
    BY <1>1, <1>2
<1>4. /\ has(f) /\ \A g \in Host!Range(Host!Releases) : has(g) => Host!Rank(f) <= Host!Rank(g)
  BY <1>1, <1>2, ReleaseNames, StillThere DEF Host!Existing
<1>5. f \in {"oracle-release", "enterprise-release", "debian_version", "redhat-release",
             "system-release", "gentoo-release", "SuSE-release", "arch-release"}
  BY ReleaseNames
<1>6. IsOracle => f \in {"oracle-release", "enterprise-release"} /\ p = "oracle"
  <2>1. IsOracle => f \in {"oracle-release", "enterprise-release"}
    BY <1>4, <1>5, Ranks, ReleaseNames DEF IsOracle
  <2>2. QED
    BY <2>1 DEF Host!Fixed
<1>7. IsRaspbian => f = "debian_version" /\ p \in {"raspbian", "ubuntu"}
  <2> SUFFICES ASSUME IsRaspbian PROVE f = "debian_version" /\ p \in {"raspbian", "ubuntu"}
    OBVIOUS
  <2>1. has("debian_version") /\ ~has("oracle-release") /\ ~has("enterprise-release")
    BY <1>2, HostKinds DEF IsOracle
  <2>2. f = "debian_version"
    BY <1>4, <1>5, <2>1, Ranks, ReleaseNames
  <2>3. Host!PathExists("raspi-config")
    BY <1>2, ReleaseNames, StillThere DEF IsRaspbian
  <2>4. lsb # "LinuxMint"
    BY <1>1 DEF HostInv
  <2>5. p \in {"raspbian", "ubuntu"}
    <3>1. CASE lsb = "Ubuntu"
      BY <2>2, <3>1 DEF Host!Fixed
    <3>2. CASE lsb # "Ubuntu"
      BY <2>2, <2>3, <2>4, <3>2 DEF Host!Fixed
    <3>3. QED
      BY <3>1, <3>2
  <2>6. QED
    BY <2>2, <2>5
<1>8. IsRedHat => f = "redhat-release" /\ p = ""
  <2>1. IsRedHat => f = "redhat-release"
    BY <1>2, <1>4, <1>5, HostKinds, Ranks, ReleaseNames DEF IsRedHat, IsOracle
  <2>2. f = "redhat-release" => p = ""
    BY DEF Host!Fixed
  <2>3. QED
    BY <2>1, <2>2
<1> HIDE DEF p
<1>9. (IsOracle' <=> IsOracle) /\ (IsRaspbian' <=> IsRaspbian) /\ (IsRedHat' <=> IsRedHat)
  BY <1>1 DEF IsOracle, IsRaspbian, IsRedHat, Host!Exists
<1>10. ReleaseFound' /\ PlatformKnown'
  BY <1>1, <1>3, <1>6, <1>7, <1>8, <1>9 DEF ReleaseFound, PlatformKnown
<1>11. looking' = "release" => DebianFound'
  <2>1. f = "debian_version" => p \in {"ubuntu", "linuxmint", "raspbian", "debian"}
    BY Zenon DEF Host!Fixed, p
  <2>2. looking' = "release" => p \notin {"ubuntu", "linuxmint"}
    BY DEF Host!FindRelease, p
  <2>3. QED
    BY <1>1, <1>3, <2>1, <2>2 DEF DebianFound
<1>12. QED
  BY <1>1, <1>2, <1>3, <1>9, <1>10, <1>11 DEF HostInv, HostFiles

(* Without a release file there is none of these machines.                 *)
LEMMA FindsNone ==
  ASSUME HostInv, Host!NoRelease
  PROVE  HostInv'
<1> DEFINE platform == Host!ByLSB(lsb)
<1>1. /\ looking = "platform" /\ \A f \in Host!Range(Host!Releases) : ~Host!PathExists(f)
      /\ info' = [info EXCEPT !.platform = platform, !.version = lsb # ""]
      /\ looking' = "virtualization" /\ UNCHANGED <<files, whole, lsb, release>>
  BY DEF Host!NoRelease
<1> HIDE DEF platform
<1>2. HostFiles /\ DOMAIN info = {"platform", "version", "system", "role", "boot"}
  BY DEF HostInv
<1>3. ~IsOracle /\ ~IsRaspbian /\ ~IsRedHat
  BY <1>1, <1>2, HostKinds, ReleaseNames, StillThere DEF IsOracle, IsRedHat
<1>4. (IsOracle' <=> IsOracle) /\ (IsRaspbian' <=> IsRaspbian) /\ (IsRedHat' <=> IsRedHat)
  BY <1>1 DEF IsOracle, IsRaspbian, IsRedHat, Host!Exists
<1>5. DOMAIN info' = DOMAIN info
  BY <1>1, <1>2
<1>6. QED
  BY <1>1, <1>2, <1>3, <1>4, <1>5 DEF HostInv, HostFiles, PlatformKnown

(* Reading the release file keeps what is known, and names a Red Hat.      *)
LEMMA ReadsRelease ==
  ASSUME HostInv, Host!ReadRelease
  PROVE  HostInv'
<1> DEFINE lines == Host!ReadLines(release)
<1>1. /\ looking = "release" /\ UNCHANGED <<files, whole, lsb, release>>
      /\ looking' \in {"virtualization", "panicked"}
      /\ \/ UNCHANGED info
         \/ info' = [info EXCEPT !.version = lines # <<>>, !.platform = Host!Named(release, lines)]
  BY Zenon DEF Host!ReadRelease
<1>2. HostFiles /\ ReleaseFound /\ DOMAIN info = {"platform", "version", "system", "role", "boot"}
  BY <1>1 DEF HostInv
<1>3. (IsOracle' <=> IsOracle) /\ (IsRaspbian' <=> IsRaspbian) /\ (IsRedHat' <=> IsRedHat)
  BY <1>1 DEF IsOracle, IsRaspbian, IsRedHat, Host!Exists
<1>4. DOMAIN info' = DOMAIN info /\ info'.platform \in {info.platform, Host!Named(release, lines)}
  <2> HIDE DEF lines
  <2> DEFINE n == Host!Named(release, lines)
             v == lines # <<>>
  <2>1. UNCHANGED info \/ info' = [info EXCEPT !.version = v, !.platform = n]
    BY <1>1
  <2> HIDE DEF n, v
  <2>2. DOMAIN info' = DOMAIN info /\ info'.platform \in {info.platform, n}
    BY <1>2, <2>1
  <2>3. QED
    BY <2>2 DEF n
<1>5. release \in {"oracle-release", "enterprise-release", "debian_version"} => Host!Named(release, lines) = info.platform
  <2> HIDE DEF lines
  <2>1. QED
    BY DEF Host!Named
<1>6. IsRedHat => Host!Named(release, lines) \in {"", Host!NameOn(whole["redhat-release"].lines)}
  <2> SUFFICES ASSUME IsRedHat PROVE Host!Named(release, lines) \in {"", Host!NameOn(whole["redhat-release"].lines)}
    OBVIOUS
  <2>1. release = "redhat-release"
    BY <1>2 DEF ReleaseFound
  <2>2. lines \in {whole["redhat-release"].lines, <<>>}
    <3>1. "redhat-release" \in Host!Names
      BY ReleaseNames
    <3>2. QED
      BY <1>2, <2>1, <3>1, HostKinds, ReadsWhole
  <2> HIDE DEF lines
  <2>3. Host!Named(release, lines) = Host!NameOn(lines)
    BY <2>1 DEF Host!Named
  <2>4. QED
    BY <2>2, <2>3, NoName
<1> HIDE DEF lines
<1>7. PlatformKnown'
  <2>1. IsOracle => info'.platform = "oracle"
    BY <1>2, <1>4, <1>5 DEF ReleaseFound
  <2>2. IsRaspbian => info'.platform \in {"raspbian", "ubuntu"}
    BY <1>2, <1>4, <1>5 DEF ReleaseFound
  <2>3. IsRedHat => info'.platform \in {"", Host!NameOn(whole["redhat-release"].lines)}
    BY <1>2, <1>4, <1>6 DEF ReleaseFound
  <2>4. QED
    BY <1>1, <1>3, <2>1, <2>2, <2>3 DEF PlatformKnown
<1>8. looking' = "panicked" => Host!PartsIndependent'
  <2> SUFFICES ASSUME looking' = "panicked"
               PROVE  /\ info'.platform \in {"debian", "raspbian"}
                      /\ "debian_version" \in Replaced \/ Host!Complete(whole["debian_version"]) = <<>>
    BY <1>1 DEF Host!PartsIndependent, Host!Done
  <2>1. release = "debian_version" /\ lines = <<>> /\ UNCHANGED info
    BY Zenon DEF Host!ReadRelease, lines
  <2>2. info'.platform \in {"debian", "raspbian"}
    BY <1>1, <2>1 DEF HostInv, DebianFound
  <2>3. "debian_version" \in Host!Names
    BY ReleaseNames
  <2>4. "debian_version" \in Replaced \/ files["debian_version"] = whole["debian_version"]
    BY <1>2, <2>3 DEF HostFiles
  <2>5. QED
    BY <2>1, <2>2, <2>4 DEF Host!ReadLines, lines
<1>9. QED
  BY <1>1, <1>2, <1>3, <1>4, <1>7, <1>8 DEF HostInv, HostFiles

(* Whatever is found of the virtualization, the platform stays.            *)
LEMMA Virtualized ==
  ASSUME HostInv, Host!GetVirtualization
  PROVE  HostInv'
<1>1. PICK v : info' = [info EXCEPT !.system = v.system, !.role = v.role]
  BY Zenon DEF Host!GetVirtualization
<1>2. looking = "virtualization" /\ looking' = "boot" /\ UNCHANGED <<files, whole, lsb, release>>
  BY DEF Host!GetVirtualization
<1>3. HostFiles /\ PlatformKnown /\ DOMAIN info = {"platform", "version", "system", "role", "boot"}
  BY <1>2 DEF HostInv
<1>4. DOMAIN info' = DOMAIN info /\ info'.platform = info.platform
  BY <1>1, <1>3
<1>5. QED
  BY <1>2, <1>3, <1>4 DEF HostInv, HostFiles, PlatformKnown, IsOracle, IsRaspbian, IsRedHat, Host!Exists

(* The boot time is that of /proc/stat, which nobody replaces.             *)
LEMMA BootRead ==
  ASSUME HostInv, Host!BootTime
  PROVE  HostInv'
<1> DEFINE b == Host!StringsContains("stat", "btime")
<1>1. /\ looking = "boot" /\ looking' = "done" /\ UNCHANGED <<files, whole, lsb, release>>
      /\ info' = [info EXCEPT !.boot = b]
  BY DEF Host!BootTime
<1>2. HostFiles /\ PlatformKnown /\ DOMAIN info = {"platform", "version", "system", "role", "boot"}
  BY <1>1 DEF HostInv
<1>3. b <=> "btime" \in Host!Words(whole["stat"].lines)
  <2>1. "stat" \in Host!Names /\ whole["stat"].ended /\ "stat" \notin Replaced
    BY <1>2, HostKinds, ReleaseNames
  <2>2. files["stat"] = whole["stat"] /\ Host!ReadLines("stat") = whole["stat"].lines
    BY <1>2, <2>1, ReadsWhole DEF HostFiles
  <2>3. CASE Host!Readable("stat")
    BY <2>2, <2>3 DEF Host!StringsContains
  <2>4. CASE ~Host!Readable("stat")
    <3>1. whole["stat"].lines = <<>>
      BY <1>2, <2>1, <2>2, <2>4, HostKinds DEF Host!Readable
    <3>2. Host!Words(<<>>) = {}
      BY DEF Host!Words, Host!Range
    <3>3. QED
      BY <2>4, <3>1, <3>2 DEF Host!StringsContains
  <2>5. QED
    BY <2>3, <2>4
<1> HIDE DEF b
<1>4. DOMAIN info' = DOMAIN info /\ info'.platform = info.platform /\ info'.boot = b
  BY <1>1, <1>2
<1>5. Host!PartsIndependent'
  BY <1>1, <1>3, <1>4 DEF Host!PartsIndependent, Host!Done
<1>6. QED
  BY <1>1, <1>2, <1>4, <1>5 DEF HostInv, HostFiles, PlatformKnown, IsOracle, IsRaspbian, IsRedHat, Host!Exists

(* The package manager empties files and fills them again.                 *)
LEMMA FilesRewritten ==
  ASSUME HostInv, NEW f \in Replaced, Host!Truncate(f) \/ Host!Rewrite(f)
  PROVE  HostInv'
<1>1. /\ looking \notin {"done", "panicked"} /\ whole[f].state = "readable"
      /\ UNCHANGED <<whole, looking, lsb, release, info>>
      /\ \/ files' = [files EXCEPT ![f] = Host!Truncated]
         \/ files' = [files EXCEPT ![f] = whole[f]]
  BY DEF Host!Truncate, Host!Rewrite, Host!Rewriting
<1>2. HostFiles'
  <2> DEFINE t == Host!Truncated
  <2>1. HostFiles /\ DOMAIN files' = DOMAIN files
    BY <1>1 DEF HostInv, HostFiles
  <2>2. \A g \in Host!Names : files'[g] = files[g] \/ (g = f /\ files'[g] \in {whole[f], t})
    <3> HIDE DEF t
    <3>1. files' = [files EXCEPT ![f] = t] \/ files' = [files EXCEPT ![f] = whole[f]]
      BY <1>1 DEF t
    <3>2. \A g \in DOMAIN files : files'[g] = files[g] \/ (g = f /\ files'[g] \in {whole[f], t})
      BY <3>1
    <3>3. QED
      BY <2>1, <3>2 DEF HostFiles
  <2>3. QED
    BY <1>1, <2>1, <2>2 DEF HostFiles
<1>3. QED
  BY <1>1, <1>2 DEF HostInv, ReleaseFound, DebianFound, PlatformKnown, IsOracle, IsRaspbian, IsRedHat, Host!Exists

(* The description of a machine is as good as the files it can read: for   *)
(* every set of machines that a distribution has put together, whatever    *)
(* may be rewritten meanwhile.                                             *)
THEOREM HostAlwaysDescribed == Spec => []HostDescribed
<1> DEFINE Inv == part = "host" => HostInv
<1>1. Init => Inv
  <2> SUFFICES ASSUME Init, part = "host" PROVE HostInv
    OBVIOUS
  <2>1. Host!Init
    BY DEF Init
  <2>2. whole \in Hosts /\ files = whole /\ looking = "lsb"
        /\ info = [platform |-> "", version |-> FALSE, system |-> "", role |-> "", boot |-> FALSE]
    BY <2>1 DEF Host!Init
  <2>3. DOMAIN files = Host!Names
    BY <2>2, HostAssumption DEF Host!HostInfoAssumption
  <2>4. QED
    BY <2>2, <2>3 DEF HostInv, HostFiles
<1>2. Inv /\ [Next \/ Ends]_vars => Inv'
  <2> SUFFICES ASSUME Inv, [Next \/ Ends]_vars, part' = "host" PROVE HostInv'
    OBVIOUS
  <2>1. CASE Next
    <3>1. part = "host" /\ HostInv
      BY <2>1 DEF Next
    <3>2. Host!Next
      BY <2>1, <3>1 DEF Next
    <3>3. QED
      BY <3>1, <3>2, ReadsLSB, FindsRelease, FindsNone, ReadsRelease, Virtualized, BootRead, FilesRewritten
      DEF Host!Next
  <2>2. CASE UNCHANGED vars \/ Ends
    <3>1. UNCHANGED <<part, files, whole, looking, lsb, release, info>>
      BY <2>2 DEF Ends, vars, hostVars
    <3>2. (HostFiles' <=> HostFiles) /\ (IsRaspbian' <=> IsRaspbian)
      BY <3>1, Zenon DEF HostFiles, IsRaspbian, Host!Exists
    <3>3. (ReleaseFound' <=> ReleaseFound) /\ (DebianFound' <=> DebianFound)
      BY <3>1, Zenon DEF ReleaseFound, DebianFound, IsOracle, IsRaspbian, IsRedHat, Host!Exists
    <3>4. PlatformKnown' <=> PlatformKnown
      BY <3>1, Zenon DEF PlatformKnown, IsOracle, IsRaspbian, IsRedHat, Host!Exists
    <3>5. Host!PartsIndependent' <=> Host!PartsIndependent
      BY <3>1, Zenon DEF Host!PartsIndependent, Host!Done
    <3>6. QED
      BY <3>1, <3>2, <3>3, <3>4, <3>5 DEF HostInv
  <2>3. QED
    BY <2>1, <2>2
<1>3. Inv => HostDescribed
  <2> SUFFICES ASSUME HostInv PROVE Host!HostDescribed
    BY DEF HostDescribed
  <2>1. Host!DerivedIsReported
    BY DEF HostInv, PlatformKnown, IsOracle, IsRaspbian, IsRedHat, Host!DerivedIsReported, Host!Done
  <2>2. Host!PartsIndependent
    BY DEF HostInv, Host!PartsIndependent, Host!Done
  <2>3. QED
    BY <2>1, <2>2 DEF Host!HostDescribed
<1>4. QED
  BY <1>1, <1>2, <1>3, PTL DEF Spec
=============================================================================
