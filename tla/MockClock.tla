----------------------------- MODULE MockClock -----------------------------
(***************************************************************************)
(* The clock the rate limiter takes its time from (benbjohnson/clock): a   *)
(* mock whose time Add and Set move, from one goroutine, running the       *)
(* timers that fall due on the way, while other goroutines create and stop *)
(* timers.  Every critical section of Mock.mu is one step.                 *)
(***************************************************************************)
EXTENDS Naturals

CONSTANTS
  Ids,        \* timers and tickers a test may create
  Durations,  \* durations of timers, and by which Add moves the clock
  Horizon,    \* bound: the clock is not moved further
  Late        \* may a timer be created while Add runs, other than by a function Add runs

MockClockAssumption == Durations \subseteq Nat \ {0} /\ Horizon \in Nat /\ Late \in BOOLEAN

None == "none"

VARIABLES
  now,      \* Mock.now
  timers,   \* Mock.timers
  timer,    \* id -> kind, next tick, period, is fn set; kind None before it is created
  c,        \* id -> does its channel of capacity 1 hold a time
  run       \* Add or Set: pc, the time to reach, the timer it executes, is that time past

vars == <<now, timers, timer, c, run>>

Uncreated == [kind |-> None, next |-> 0, d |-> 0, fn |-> FALSE]
Idle == [pc |-> "idle", max |-> 0, cur |-> None, past |-> FALSE]

Init ==
  /\ now = 0 /\ timers = {} /\ run = Idle
  /\ timer = [i \in Ids |-> Uncreated]
  /\ c = [i \in Ids |-> FALSE]

-----------------------------------------------------------------------------
(* Creating, receiving from and stopping timers.                           *)

MayCreate == run.pc = "idle" \/ run.pc = "callback" \/ Late

(* Timer and Ticker; After and Sleep are a Timer, Tick is a Ticker.        *)
Create(i, kind, d) ==
  /\ MayCreate /\ timer[i].kind = None
  /\ timer' = [timer EXCEPT ![i] = [kind |-> kind, next |-> now + d, d |-> d, fn |-> FALSE]]
  /\ timers' = timers \cup {i}
  /\ UNCHANGED <<now, c, run>>

(* AfterFunc sets the function of a timer that is already in the list.     *)
AfterFunc(i, d) ==
  /\ MayCreate /\ timer[i].kind = None
  /\ timer' = [timer EXCEPT ![i] = [kind |-> "func", next |-> now + d, d |-> d, fn |-> FALSE]]
  /\ timers' = timers \cup {i}
  /\ UNCHANGED <<now, c, run>>

AfterFuncReturns(i) ==
  /\ timer[i].kind = "func" /\ ~timer[i].fn
  /\ timer' = [timer EXCEPT ![i].fn = TRUE]
  /\ UNCHANGED <<now, timers, c, run>>

(* Unless Late, whoever moves the clock waits for AfterFunc to return.     *)
Settled == Late \/ \A i \in Ids : timer[i].kind = "func" => timer[i].fn

Receive(i) ==
  /\ c[i] /\ timer[i].kind # "func"
  /\ c' = [c EXCEPT ![i] = FALSE]
  /\ UNCHANGED <<now, timers, timer, run>>

removeClockTimer(i) == timers' = timers \ {i}

Stop(i) ==
  /\ i \in timers
  /\ removeClockTimer(i)
  /\ UNCHANGED <<now, timer, c, run>>

-----------------------------------------------------------------------------
(* Moving the clock. *)

Run(t) ==
  /\ run.pc = "idle" /\ Settled /\ t \in 0..Horizon
  /\ run' = [pc |-> "run", max |-> t, cur |-> None, past |-> t < now]
  /\ UNCHANGED <<now, timers, timer, c>>

Add(d) == Run(now + d)
Set(t) == Run(t)

(* Less and Sort: among equals any may come first.                         *)
AnyFirst(i) == i \in timers
First(i) == i \in timers /\ \A j \in timers : timer[i].next <= timer[j].next

DueBefore(i) == timer[i].next < run.max
Due(i) == timer[i].next <= run.max

runNextTimer(i) ==
  /\ run.pc = "run" /\ First(i) /\ Due(i)
  /\ now' = timer[i].next
  /\ run' = [run EXCEPT !.cur = i,
                        !.pc = IF timer[i].kind = "ticker" THEN "ticker"
                               ELSE IF timer[i].fn THEN "callback" ELSE "send"]
  /\ UNCHANGED <<timers, timer, c>>

NoneDue ==
  /\ run.pc = "run" /\ \A i \in timers : First(i) => ~Due(i)
  /\ run' = [run EXCEPT !.pc = "arrive"]
  /\ UNCHANGED <<now, timers, timer, c>>

Arrive ==
  /\ run.pc = "arrive"
  /\ now' = run.max
  /\ run' = Idle
  /\ UNCHANGED <<timers, timer, c>>

(* internalTimer.Tick: the function or the send, then the removal.         *)
Callback ==
  /\ run.pc = "callback" /\ Settled
  /\ run' = [run EXCEPT !.pc = "remove"]
  /\ UNCHANGED <<now, timers, timer, c>>

Send ==
  /\ run.pc = "send" /\ ~c[run.cur]
  /\ c' = [c EXCEPT ![run.cur] = TRUE]
  /\ run' = [run EXCEPT !.pc = "remove"]
  /\ UNCHANGED <<now, timers, timer>>

LeaveListed ==
  /\ run.pc = "remove"
  /\ run' = [run EXCEPT !.pc = "run", !.cur = None]
  /\ UNCHANGED <<now, timers, timer, c>>

Remove ==
  /\ run.pc = "remove"
  /\ removeClockTimer(run.cur)
  /\ run' = [run EXCEPT !.pc = "run", !.cur = None]
  /\ UNCHANGED <<now, timer, c>>

(* internalTicker.Tick: a full channel loses the tick.                     *)
TickerTick ==
  /\ run.pc = "ticker"
  /\ c' = [c EXCEPT ![run.cur] = TRUE]
  /\ timer' = [timer EXCEPT ![run.cur].next = now + timer[run.cur].d]
  /\ run' = [run EXCEPT !.pc = "run", !.cur = None]
  /\ UNCHANGED <<now, timers>>

Adder == NoneDue \/ Arrive \/ Callback \/ Send \/ Remove \/ TickerTick \/ \E i \in Ids : runNextTimer(i)

Next ==
  \/ Adder
  \/ \E d \in Durations : Add(d)
  \/ \E t \in 0..Horizon : Set(t)
  \/ \E i \in Ids :
       \/ \E d \in Durations : Create(i, "timer", d) \/ Create(i, "ticker", d) \/ AfterFunc(i, d)
       \/ AfterFuncReturns(i) \/ Receive(i) \/ Stop(i)

Spec == Init /\ [][Next]_vars

(* The goroutines inside Add and AfterFunc run; nobody has to receive or   *)
(* to stop.                                                                *)
FairSpec == Spec /\ WF_vars(Adder) /\ \A i \in Ids : WF_vars(AfterFuncReturns(i))

-----------------------------------------------------------------------------
(* clock.go:74: Add runs timers "until there are no more before the new    *)
(* time": between two calls nothing in the list is overdue, tickers that   *)
(* tick several times in one Add and timers a function starts included.    *)
NothingOverdue == run.pc = "idle" => \A i \in timers : timer[i].next > now

(* On its way to a later time the clock is never set back, whichever       *)
(* timers are executed and created before it gets there; Set to an earlier *)
(* time turns it back (clock.go:92).                                       *)
ForwardOnTheWay == [][now' >= now \/ run.past]_now

(* Add returns although nobody receives: no channel is sent to twice, and  *)
(* a ticker does not wait.                                                 *)
AddReturns == run.pc # "idle" ~> run.pc = "idle"
=============================================================================
