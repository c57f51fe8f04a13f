------------------------------ MODULE Throttle ------------------------------
(***************************************************************************)
(* iocontrol: readers and writers whose rate a limiter keeps (throttle.go, *)
(* limiter.go), and pools that share a rate among those they gave out      *)
(* (pool.go) and change it under their feet.  A second has Batches periods *)
(* of maxBurst, a period has Resolution ticks of the clock.                *)
(***************************************************************************)
EXTENDS Naturals, FiniteSets, FiniteSetsExt

CONSTANTS
  Writers,     \* writers a WriterPool gives out
  Readers,     \* readers a ReaderPool gives out: the same code, and one of the two sets is empty
  Rates,       \* rates of the pool, bytes per second; NewWriterPool takes one of them
  Batches,     \* time.Second / maxBurst
  Resolution,  \* maxBurst in ticks
  Lens,        \* sizes of the buffers
  Failing      \* writers whose wrapped writer may fail

ThrottleAssumption ==
  /\ Rates \subseteq Nat /\ Rates # {} /\ IsFiniteSet(Rates)
  /\ Batches \in Nat \ {0} /\ Resolution \in Nat \ {0} /\ Lens \subseteq Nat \ {0}
  /\ Failing \subseteq Writers /\ (Writers = {} \/ Readers = {})

Users == Writers \cup Readers
Long == Resolution   \* an age that stands for itself and all longer ones

VARIABLES
  maxRate,      \* of the pool
  givenOut,     \* users of the pool
  locked,       \* users setSharedRates has not reached yet; {} when pool.mu is free
  maxPerBatch,  \* user -> its share of a period
  batchDone,    \* user -> bytes counted in this period
  sinceBatch,   \* user -> age of lastBatch
  op,           \* user -> its call: pc, bytes to go, what CanDo allowed
  recent        \* history: user -> bytes passed in each of the last Resolution ticks

vars == <<maxRate, givenOut, locked, maxPerBatch, batchDone, sinceBatch, op, recent>>

NoOp == [pc |-> "idle", left |-> 0, can |-> 0]

(* lastBatch is the zero time. *)
Init ==
  /\ maxRate \in Rates /\ givenOut = {} /\ locked = {}
  /\ maxPerBatch = [u \in Users |-> 0]
  /\ batchDone = [u \in Users |-> 0]
  /\ sinceBatch = [u \in Users |-> Long]
  /\ op = [u \in Users |-> NoOp]
  /\ recent = [u \in Users |-> [k \in 1..Resolution |-> 0]]

-----------------------------------------------------------------------------
(* The pool.  setSharedRates stores the shares one by one while it holds   *)
(* the lock; the users load theirs without it.                             *)

Unlocked == locked = {}

ShareOfAll(rate, users) == rate \div Batches
Share(rate, users) == (rate \div Cardinality(users)) \div Batches

Get(u) ==
  /\ Unlocked /\ u \notin givenOut /\ op[u].pc = "idle"
  /\ givenOut' = givenOut \cup {u}
  /\ locked' = givenOut'
  /\ maxPerBatch' = [maxPerBatch EXCEPT ![u] = 0]
  /\ batchDone' = [batchDone EXCEPT ![u] = 0]
  /\ sinceBatch' = [sinceBatch EXCEPT ![u] = Long]
  /\ recent' = [recent EXCEPT ![u] = [k \in 1..Resolution |-> 0]]
  /\ UNCHANGED <<maxRate, op>>

(* Users are done with a writer when they release it.                      *)
Release(u) ==
  /\ Unlocked /\ u \in givenOut /\ op[u].pc = "idle"
  /\ givenOut' = givenOut \ {u}
  /\ locked' = givenOut'
  /\ UNCHANGED <<maxRate, maxPerBatch, batchDone, sinceBatch, op, recent>>

SetRate(rate) ==
  /\ Unlocked /\ rate # maxRate
  /\ maxRate' = rate
  /\ locked' = givenOut
  /\ UNCHANGED <<givenOut, maxPerBatch, batchDone, sinceBatch, op, recent>>

setSharedRates(u) ==
  /\ u \in locked
  /\ maxPerBatch' = [maxPerBatch EXCEPT ![u] = Share(maxRate, givenOut)]
  /\ locked' = locked \ {u}
  /\ UNCHANGED <<maxRate, givenOut, batchDone, sinceBatch, op, recent>>

-----------------------------------------------------------------------------
(* The limiter and its users. *)

Call(u, n) ==
  /\ u \in givenOut /\ op[u].pc = "idle"
  /\ op' = [op EXCEPT ![u] = [pc |-> "can", left |-> n, can |-> 0]]
  /\ UNCHANGED <<maxRate, givenOut, locked, maxPerBatch, batchDone, sinceBatch, recent>>

CanDo(u) ==
  /\ op[u].pc = "can"
  /\ op' = [op EXCEPT ![u].pc = "do",
                      ![u].can = IF maxPerBatch[u] > batchDone[u] THEN maxPerBatch[u] - batchDone[u] ELSE 0]
  /\ UNCHANGED <<maxRate, givenOut, locked, maxPerBatch, batchDone, sinceBatch, recent>>

(* The history stops counting where TwoBatches is already broken. *)
Highest == Max(Rates) \div Batches
Counted == 2 * Highest + 1

Pass(u, n) == recent' = [recent EXCEPT ![u][1] = Min({@ + n, Counted})]
Did(u, n) == batchDone' = [batchDone EXCEPT ![u] = @ + n]
Returns(u) == op' = [op EXCEPT ![u] = NoOp]

(* All that is left fits: it is passed on, a reader may get less, a        *)
(* failing writer takes less.                                              *)
Unthrottled(u) ==
  /\ op[u].pc = "do" /\ op[u].left <= op[u].can
  /\ \E n \in 0..op[u].left :
       /\ u \in Writers \ Failing => n = op[u].left
       /\ Pass(u, n) /\ Did(u, n) /\ Returns(u)
  /\ UNCHANGED <<maxRate, givenOut, locked, maxPerBatch, sinceBatch>>

(* Otherwise as much as fits, then Limit; for a reader the call ends       *)
(* there.                                                                  *)
Write(u) ==
  /\ u \in Writers /\ op[u].pc = "do" /\ op[u].left > op[u].can
  /\ Pass(u, op[u].can)
  /\ op' = [op EXCEPT ![u].pc = "limit", ![u].left = @ - op[u].can]
  /\ UNCHANGED <<maxRate, givenOut, locked, maxPerBatch, batchDone, sinceBatch>>

(* A write that fails half way is not counted. *)
WriteFails(u) ==
  /\ u \in Failing /\ op[u].pc = "do" /\ op[u].left > op[u].can
  /\ \E n \in 0..op[u].can : Pass(u, n)
  /\ Returns(u)
  /\ UNCHANGED <<maxRate, givenOut, locked, maxPerBatch, batchDone, sinceBatch>>

Read(u) ==
  /\ u \in Readers /\ op[u].pc = "do" /\ op[u].left > op[u].can
  /\ \E n \in 0..op[u].can : Pass(u, n)
  /\ op' = [op EXCEPT ![u].pc = "limit", ![u].left = 0]
  /\ UNCHANGED <<maxRate, givenOut, locked, maxPerBatch, batchDone, sinceBatch>>

(* Sleep to the end of the period that began at lastBatch.                 *)
LimitAwake(u) ==
  /\ op[u].pc = "limit"
  /\ sinceBatch' = [sinceBatch EXCEPT ![u] = 0]
  /\ batchDone' = [batchDone EXCEPT ![u] = 0]
  /\ op' = [op EXCEPT ![u] = IF u \in Writers THEN [@ EXCEPT !.pc = "can"] ELSE NoOp]
  /\ UNCHANGED <<maxRate, givenOut, locked, maxPerBatch, recent>>

LimitForgets(u) ==
  /\ op[u].pc = "limit" /\ sinceBatch[u] >= Resolution
  /\ sinceBatch' = [sinceBatch EXCEPT ![u] = 0]
  /\ op' = [op EXCEPT ![u] = IF u \in Writers THEN [@ EXCEPT !.pc = "can"] ELSE NoOp]
  /\ UNCHANGED <<maxRate, givenOut, locked, maxPerBatch, batchDone, recent>>

Limit(u) ==
  /\ op[u].pc = "limit" /\ sinceBatch[u] >= Resolution
  /\ sinceBatch' = [sinceBatch EXCEPT ![u] = 0]
  /\ batchDone' = [batchDone EXCEPT ![u] = 0]
  /\ op' = [op EXCEPT ![u] = IF u \in Writers THEN [@ EXCEPT !.pc = "can"] ELSE NoOp]
  /\ UNCHANGED <<maxRate, givenOut, locked, maxPerBatch, recent>>

Tick ==
  /\ sinceBatch' = [u \in Users |-> IF sinceBatch[u] < Long THEN sinceBatch[u] + 1 ELSE Long]
  /\ recent' = [u \in Users |-> [k \in 1..Resolution |-> IF k = 1 THEN 0 ELSE recent[u][k - 1]]]
  /\ UNCHANGED <<maxRate, givenOut, locked, maxPerBatch, batchDone, op>>

-----------------------------------------------------------------------------
Throttled(u) == CanDo(u) \/ Unthrottled(u) \/ Write(u) \/ WriteFails(u) \/ Read(u) \/ Limit(u)

Next ==
  \/ Tick
  \/ \E rate \in Rates : SetRate(rate)
  \/ \E u \in Users : Get(u) \/ Release(u) \/ setSharedRates(u) \/ Throttled(u)
                      \/ \E n \in Lens : Call(u, n)

Spec == Init /\ [][Next]_vars

(* Goroutines run and the clock ticks. *)
FairSpec == Spec /\ WF_vars(Tick) /\ \A u \in Users : WF_vars(Throttled(u)) /\ WF_vars(setSharedRates(u))

-----------------------------------------------------------------------------
(* pool.go:11: the writers of a pool "collectively do not exceed a certain *)
(* rate": however writers come and go and the rate changes, the shares     *)
(* given out add up to no more than the rate of the pool.                  *)
SharesFit == Unlocked => MapThenSumSet(LAMBDA u : maxPerBatch[u], givenOut) <= maxRate \div Batches

Passed(u) == MapThenSumSet(LAMBDA k : recent[u][k], 1..Resolution)

(* No user passes more than two periods' worth of bytes in one period,     *)
(* however its calls, its rate and the clock interleave.  What a failing   *)
(* writer wrote of a chunk is not counted, and it may pass more.           *)
TwoBatches == \A u \in Users \ Failing : Passed(u) <= 2 * Highest

(* A call returns in the end: where every share is at least one byte.      *)
Busy(u) == op[u].pc # "idle"
CallsReturn == \A u \in Users : Busy(u) ~> ~Busy(u)

(* The rate of a pool is kept by its shares and by each of its users.      *)
RateKept == SharesFit /\ TwoBatches
=============================================================================
