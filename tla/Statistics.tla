----------------------------- MODULE Statistics -----------------------------
(***************************************************************************)
(* Sampling (process_stats.go: Sample, NewTicker; the router in redial;    *)
(* monitor's non-blocking requests): the goroutines that listen to the     *)
(* tickers, the router that serves "sample" and "change_sample_rate", the  *)
(* timeout of a sample whose publication stalls.  Connecting is Redial's   *)
(* subject, the figures of a sample are ProcessSample's.                   *)
(***************************************************************************)
EXTENDS Integers

CONSTANTS
  StatsInterval, \* the duration of the first ticker (sint)
  Rates,        \* durations asked for by change_sample_rate
  MsgTimeout,   \* whether a sample has a timeout (msgtimeout > 0)
  MaxChanges    \* bound: change_sample_rate commands

Gens == 1..(MaxChanges + 1)
Callers == Gens \cup {0}   \* of Sample: the goroutine of each NewTicker, 0 is the router

VARIABLES
  ready,      \* stats is not nil
  gen,        \* psc.ticker: the number of the ticker made last
  tick,       \* tickers whose channel holds a tick
  listens,    \* goroutine -> the ticker its select waits for, 0 before it runs
  caller,     \* caller of Sample -> "idle", "collect" (waiting), "collected"
  late,       \* there are collectSample goroutines whose caller timed out
  stalled,    \* publications block
  panicked,
  changes

vars == <<ready, gen, tick, listens, caller, late, stalled, panicked, changes>>

Init ==
  /\ ready = FALSE
  /\ gen = 0 /\ changes = 0
  /\ tick = {}
  /\ listens = [k \in Gens |-> 0]
  /\ caller = [c \in Callers |-> "idle"]
  /\ late = FALSE
  /\ stalled = FALSE /\ panicked = FALSE

-----------------------------------------------------------------------------
(* time.NewTicker panics unless the duration is positive; the old ticker   *)
(* is not stopped.                                                         *)
NewTicker(d) ==
  IF d > 0
  THEN /\ gen' = gen + 1
       /\ listens' = [listens EXCEPT ![gen + 1] = gen + 1]
       /\ UNCHANGED panicked
  ELSE panicked' = TRUE /\ UNCHANGED <<gen, listens>>

(* NewProcessStats succeeded: the first ticker.                            *)
NewProcessStats ==
  /\ ~panicked /\ ~ready
  /\ ready' = TRUE
  /\ NewTicker(StatsInterval)
  /\ UNCHANGED <<tick, caller, late, stalled, changes>>

Fire(g) ==
  /\ ~panicked /\ g <= gen /\ g \notin tick
  /\ tick' = tick \cup {g}
  /\ UNCHANGED <<ready, gen, listens, caller, late, stalled, panicked, changes>>

(* The goroutine of NewTicker: a tick of the ticker it waits for, Sample,  *)
(* then the select looks at psc.ticker again.                              *)
OnTick(k) ==
  /\ ~panicked /\ caller[k] = "idle" /\ listens[k] \in tick
  /\ tick' = tick \ {listens[k]}
  /\ caller' = [caller EXCEPT ![k] = "collect"]
  /\ UNCHANGED <<ready, gen, listens, late, stalled, panicked, changes>>

Returns(c) == caller' = [caller EXCEPT ![c] = "idle"]
SelectCaptured(c) == UNCHANGED listens
Select(c) == listens' = IF c = 0 THEN listens ELSE [listens EXCEPT ![c] = gen]

(* collectSample, to the end of its Publish.                               *)
collectSample(c) ==
  /\ ~panicked /\ caller[c] = "collect" /\ ~stalled
  /\ caller' = [caller EXCEPT ![c] = "collected"]
  /\ UNCHANGED <<ready, gen, tick, listens, late, stalled, panicked, changes>>

SampleDone(c) ==
  /\ ~panicked /\ caller[c] = "collected"
  /\ Returns(c) /\ Select(c)
  /\ UNCHANGED <<ready, gen, tick, late, stalled, panicked, changes>>

(* The collector of a sample that timed out is left to itself and may      *)
(* still publish.                                                          *)
SampleStuck(c) ==
  /\ ~panicked /\ caller[c] = "collect" /\ MsgTimeout /\ ~stalled
  /\ late' = TRUE
  /\ Returns(c) /\ Select(c)
  /\ UNCHANGED <<ready, gen, tick, stalled, panicked, changes>>

SampleTimesOut(c) ==
  /\ ~panicked /\ caller[c] = "collect" /\ MsgTimeout
  /\ late' = TRUE
  /\ Returns(c) /\ Select(c)
  /\ UNCHANGED <<ready, gen, tick, stalled, panicked, changes>>

LatePublishes ==
  /\ ~panicked /\ late /\ ~stalled
  /\ late' \in BOOLEAN
  /\ UNCHANGED <<ready, gen, tick, listens, caller, stalled, panicked, changes>>

-----------------------------------------------------------------------------
(* monitor's requests: received by the router if it is back at its range,  *)
(* dropped otherwise, and dropped by the router while stats is nil.        *)
Free == caller[0] = "idle" /\ ready

RequestSample ==
  /\ ~panicked
  /\ caller' = IF Free THEN [caller EXCEPT ![0] = "collect"] ELSE caller
  /\ UNCHANGED <<ready, gen, tick, listens, late, stalled, panicked, changes>>

ChangeRate(d) ==
  /\ ~panicked /\ changes < MaxChanges
  /\ changes' = changes + 1
  /\ IF Free THEN NewTicker(d) ELSE UNCHANGED <<gen, listens, panicked>>
  /\ UNCHANGED <<ready, tick, caller, late, stalled>>

(* The connection's TCP window closes, and opens again.                    *)
Stall ==
  /\ stalled' = ~stalled
  /\ UNCHANGED <<ready, gen, tick, listens, caller, late, panicked, changes>>

-----------------------------------------------------------------------------
Sampling(c) == collectSample(c) \/ SampleDone(c) \/ SampleTimesOut(c)

Next ==
  \/ NewProcessStats \/ \E d \in Rates : ChangeRate(d)
  \/ \E g \in Gens : Fire(g) \/ OnTick(g)
  \/ \E c \in Callers : Sampling(c)
  \/ LatePublishes \/ RequestSample \/ Stall

Spec == Init /\ [][Next]_vars

(* Tickers tick, goroutines run, a timeout fires.  Nothing is assumed of   *)
(* publications: they may stall for ever.                                  *)
FairSpec ==
  /\ Spec
  /\ \A g \in Gens : WF_vars(Fire(g)) /\ WF_vars(OnTick(g))
  /\ \A c \in Callers : WF_vars(SampleTimesOut(c)) /\ WF_vars(SampleDone(c))

-----------------------------------------------------------------------------
(* Sample returns within its timeout however long the publication stalls,  *)
(* so the router and the tickers' goroutines come back to their loops.     *)
SampleReturns == \A c \in Callers : caller[c] # "idle" ~> (caller[c] = "idle" \/ panicked)

(* After a change of the sample rate the old one dies out: in the end no   *)
(* goroutine waits for a ticker that was replaced.                         *)
OldRateDies == \A k \in Gens : <>[](panicked \/ listens[k] \in {0, gen})

(* Statistics go on at the rate asked for: samples return and tickers that *)
(* were replaced are left.                                                 *)
StatisticsGoOn == SampleReturns /\ OldRateDies
=============================================================================
