---------------------------- MODULE WallclockTimer ----------------------------
(***************************************************************************)
(* The wall-clock timer of src/agents/timer.go: the goroutine timerTicker, *)
(* the buffered channel of commands it serves and the unbuffered channel   *)
(* `done` on which it reports that the limit was exceeded.                 *)
(*                                                                         *)
(* The clock is the integer `now`.  The two readings of the clock in       *)
(* incrementTimer (time.Since, then time.Now) are two steps, so time may   *)
(* pass between them, as it does when the goroutine is preempted.          *)
(***************************************************************************)
EXTENDS Integers, Sequences

CONSTANTS Timeout,    \* timeoutTime; the flag accepts any duration
          MaxTime     \* bound on the clock

ASSUME TimerAssumption == Timeout \in Int /\ MaxTime \in Nat

VARIABLES
    now,              \* the wall clock
    elapsedTime, previousTime, tick,
    command,          \* contents of the channel `command`
    tickC,            \* is a tick waiting in the channel ticker.C?
    tpc,              \* where the goroutine timerTicker is
    ran               \* history: time for which tick was true since zeroed

tvars == <<now, elapsedTime, previousTime, tick, command, tickC, tpc, ran>>

TimerCommands == {"reset", "start", "stop", "resume"}

\* make(chan string, 1)
CommandCap == 1

\* range: waiting for a tick; stamp: between the two clock readings of
\* incrementTimer; select: about to poll `command`; check: about to compare
\* with the limit; done: blocked sending on `done`; clamp: the send completed.
TickerLocations == {"range", "stamp", "select", "check", "done", "clamp"}

TypeOK ==
    /\ now \in Nat
    /\ elapsedTime \in Int
    /\ previousTime \in Nat
    /\ tick \in BOOLEAN
    /\ command \in Seq(TimerCommands)
    /\ Len(command) <= CommandCap
    /\ tickC \in BOOLEAN
    /\ tpc \in TickerLocations
    /\ ran \in Nat

\* The struct NewTimer builds, and the goroutine it starts.
NewTimer ==
    /\ now = 0
    /\ elapsedTime = 0
    /\ previousTime = 0
    /\ tick = FALSE
    /\ command = <<>>
    /\ tickC = FALSE
    /\ tpc = "range"
    /\ ran = 0

-------------------------------------------------------------------------------
\* The environment: the clock and package time's ticker, which drops a tick
\* when the previous one has not been taken.

Advance ==
    /\ now < MaxTime
    /\ now' = now + 1
    /\ ran' = IF tick THEN ran + 1 ELSE ran
    /\ UNCHANGED <<elapsedTime, previousTime, tick, command, tickC, tpc>>

TickerFires ==
    /\ ~tickC
    /\ tickC' = TRUE
    /\ UNCHANGED <<now, elapsedTime, previousTime, tick, command, tpc, ran>>

-------------------------------------------------------------------------------
\* The methods of the interface.  A send blocks while the channel is full: the
\* caller's step is disabled.

Send(c) ==
    /\ Len(command) < CommandCap
    /\ command' = Append(command, c)
    /\ UNCHANGED <<now, elapsedTime, previousTime, tick, tickC, tpc, ran>>

Reset  == Send("reset")
Start  == Send("start")
Stop   == Send("stop")
Resume == Send("resume")

\* A receive on Done() completes the goroutine's blocked send.
Done ==
    /\ tpc = "done"
    /\ tpc' = "clamp"
    /\ UNCHANGED <<now, elapsedTime, previousTime, tick, command, tickC, ran>>

-------------------------------------------------------------------------------
\* timerTicker

IncrementUngated ==
    /\ elapsedTime' = elapsedTime + (now - previousTime)
    /\ tpc' = "stamp"

\* incrementTimer up to the addition; previousTime is stamped by Stamp.
incrementTimer ==
    \/ /\ tick
       /\ elapsedTime' = elapsedTime + (now - previousTime)
       /\ tpc' = "stamp"
    \/ /\ ~tick
       /\ tpc' = "select"
       /\ UNCHANGED elapsedTime

\* The loop receives a tick and calls incrementTimer.
Range ==
    /\ tpc = "range"
    /\ tickC
    /\ tickC' = FALSE
    /\ incrementTimer
    /\ UNCHANGED <<now, previousTime, tick, command, ran>>

\* timer.previousTime = time.Now() at the end of incrementTimer.
Stamp ==
    /\ tpc = "stamp"
    /\ previousTime' = now
    /\ tpc' = "select"
    /\ UNCHANGED <<now, elapsedTime, tick, command, tickC, ran>>

ApplyKeepingStamp(c) ==
    /\ tick' = (c \in {"start", "resume"})
    /\ elapsedTime' = IF c \in {"reset", "start"} THEN 0 ELSE elapsedTime
    /\ ran' = IF c \in {"reset", "start"} THEN 0 ELSE ran
    /\ previousTime' = IF c = "start" THEN now ELSE previousTime

\* The switch over the command; `ran` is zeroed with elapsedTime.
Apply(c) ==
    /\ tick' = (c \in {"start", "resume"})
    /\ elapsedTime' = IF c \in {"reset", "start"} THEN 0 ELSE elapsedTime
    /\ ran' = IF c \in {"reset", "start"} THEN 0 ELSE ran
    /\ previousTime' = IF c \in {"start", "resume"} THEN now ELSE previousTime

\* The non-blocking receive from `command`: one command per tick at most.
SelectCommand ==
    /\ tpc = "select"
    /\ command # <<>>
    /\ Apply(Head(command))
    /\ command' = Tail(command)
    /\ tpc' = "check"
    /\ UNCHANGED <<now, tickC>>

SelectDefault ==
    /\ tpc = "select"
    /\ command = <<>>
    /\ tpc' = "check"
    /\ UNCHANGED <<now, elapsedTime, previousTime, tick, command, tickC, ran>>

CheckExactly ==
    /\ tpc = "check"
    /\ tpc' = IF elapsedTime = Timeout THEN "done" ELSE "range"
    /\ UNCHANGED <<now, elapsedTime, previousTime, tick, command, tickC, ran>>

\* Above the limit the goroutine starts a blocking send on `done`.
Check ==
    /\ tpc = "check"
    /\ tpc' = IF elapsedTime > Timeout THEN "done" ELSE "range"
    /\ UNCHANGED <<now, elapsedTime, previousTime, tick, command, tickC, ran>>

ClampAndLeave ==
    /\ tpc = "clamp"
    /\ tick' = FALSE
    /\ elapsedTime' = Timeout
    /\ tpc' = "clamp"
    /\ UNCHANGED <<now, previousTime, command, tickC, ran>>

ClampStillTicking ==
    /\ tpc = "clamp"
    /\ elapsedTime' = Timeout
    /\ tpc' = "range"
    /\ UNCHANGED <<now, previousTime, tick, command, tickC, ran>>

\* After the send: pause, and fall back to the limit.
Clamp ==
    /\ tpc = "clamp"
    /\ tick' = FALSE
    /\ elapsedTime' = Timeout
    /\ tpc' = "range"
    /\ UNCHANGED <<now, previousTime, command, tickC, ran>>

timerTicker ==
    Range \/ Stamp \/ SelectCommand \/ SelectDefault \/ Check \/ Clamp

-------------------------------------------------------------------------------
\* The timer with a user that calls the methods in any order.

Init == NewTimer

Client == Reset \/ Start \/ Stop \/ Resume \/ Done

Next == Advance \/ TickerFires \/ Client \/ timerTicker

Spec == Init /\ [][Next]_tvars

\* Package time keeps ticking, the runtime keeps scheduling the goroutine, and
\* the user keeps receiving from Done(): the last is the duty of the user.
Fairness ==
    /\ WF_tvars(TickerFires)
    /\ WF_tvars(timerTicker)
    /\ WF_tvars(Done)

FairSpec == Spec /\ Fairness

-------------------------------------------------------------------------------
\* The timer reports a timeout (timer.go:81) only when it has really run for
\* longer than the limit since it was last zeroed: paused time is not charged,
\* whatever commands were interleaved with the ticks.
NeverEarly == tpc = "done" => ran > Timeout

\* Strengthening of NeverEarly that is inductive: the elapsed time, with the
\* part of the current interval that is not added yet, is covered by the time
\* run; between the two clock readings that part is already added; and above
\* the limit is where the goroutine is while it reports (timer.go:79).
Covered ==
    /\ previousTime <= now
    /\ elapsedTime <= ran
    /\ tick /\ tpc # "stamp" => elapsedTime + (now - previousTime) <= ran
    /\ tpc = "stamp" => tick
    /\ tpc \in {"done", "clamp"} => elapsedTime > Timeout

\* The timer is a stopwatch with an alarm; the alarm is on from the start of
\* the blocked send on `done` until the clamp that follows it (timer.go:80-84).
Watch == INSTANCE Stopwatch WITH
             running <- tick,
             reading <- elapsedTime,
             ringing <- tpc \in {"done", "clamp"}

IsStopwatch == Watch!Spec

\* Every command that entered the channel is taken out by the ticker goroutine,
\* even when it arrives while the goroutine is blocked reporting a timeout.
CommandsServed == (command # <<>>) ~> (command = <<>>)

\* A counting timer that has passed its limit when a tick is awaited reports
\* the timeout, unless a reset or start that was already queued zeroes it.
ExpiryReported ==
    (tpc = "range" /\ tick /\ elapsedTime + (now - previousTime) > Timeout)
        ~> (tpc = "done" \/ elapsedTime = 0)
===============================================================================
