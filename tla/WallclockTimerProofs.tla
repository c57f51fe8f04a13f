-------------------------- MODULE WallclockTimerProofs --------------------------
(***************************************************************************)
(* Proofs about WallclockTimer, for every limit and every bound of the     *)
(* clock.                                                                  *)
(***************************************************************************)
EXTENDS WallclockTimer, TLAPS

\* The channel of commands holds at most one command (timer.go:38): it is empty
\* or a single command, whose removal leaves it empty.
LEMMA CommandShape ==
    ASSUME TypeOK
    PROVE  /\ command # <<>> => Head(command) \in TimerCommands
           /\ command # <<>> => Tail(command) = <<>>
           /\ Len(command) < CommandCap => command = <<>>
  BY DEF TypeOK, CommandCap

\* Every reachable state is well typed, whatever the clock and the user do; in
\* particular the channel of commands never exceeds its capacity (timer.go:38).
THEOREM TypeCorrect == Spec => []TypeOK
<1>1. Init => TypeOK
  <2>1. <<>> \in Seq(TimerCommands) /\ Len(<<>>) = 0
    OBVIOUS
  <2>2. Init => tick \in BOOLEAN /\ tickC \in BOOLEAN
    BY Zenon DEF Init, NewTimer
  <2>3. QED
    BY <2>1, <2>2 DEF Init, NewTimer, TypeOK, TickerLocations, CommandCap
<1>2. TypeOK /\ [Next]_tvars => TypeOK'
  <2> SUFFICES ASSUME TypeOK, [Next]_tvars
               PROVE  TypeOK'
    OBVIOUS
  <2> USE TimerAssumption DEF TypeOK, TickerLocations, TimerCommands, CommandCap
  <2>1. CASE Advance
    BY <2>1 DEF Advance
  <2>2. CASE TickerFires
    BY <2>2 DEF TickerFires
  <2>3. ASSUME NEW c \in TimerCommands, Send(c)
        PROVE  TypeOK'
    BY <2>3 DEF Send
  <2>4. CASE Done
    BY <2>4 DEF Done
  <2>5. CASE Range
    <3>1. tickC' \in BOOLEAN
      BY <2>5, Zenon DEF Range
    <3>2. elapsedTime' \in Int /\ tpc' \in TickerLocations
      BY <2>5 DEF Range, incrementTimer
    <3>3. QED
      BY <2>5, <3>1, <3>2 DEF Range
  <2>6. CASE Stamp
    BY <2>6 DEF Stamp
  <2>7. CASE SelectCommand
    <3>1. /\ command' = <<>>
          /\ Head(command) \in TimerCommands
      BY <2>7, CommandShape DEF SelectCommand
    <3>2. QED
      BY <2>7, <3>1 DEF SelectCommand, Apply
  <2>8. CASE SelectDefault
    BY <2>8 DEF SelectDefault
  <2>9. CASE Check
    BY <2>9 DEF Check
  <2>10. CASE Clamp
    BY <2>10 DEF Clamp
  <2>11. CASE UNCHANGED tvars
    BY <2>11 DEF tvars
  <2>12. QED
    BY <2>1, <2>2, <2>3, <2>4, <2>5, <2>6, <2>7, <2>8, <2>9, <2>10, <2>11
    DEF Next, Client, Reset, Start, Stop, Resume, timerTicker
<1>3. QED
  BY <1>1, <1>2, PTL DEF Spec

\* The elapsed time never exceeds the time really run, and stays covered by it
\* between a tick and the next (timer.go:48-94).
LEMMA CoveredStep == TypeOK /\ Covered /\ [Next]_tvars => Covered'
<1> SUFFICES ASSUME TypeOK, Covered, [Next]_tvars
             PROVE  Covered'
  OBVIOUS
<1> USE TimerAssumption DEF TypeOK, Covered
<1>1. CASE Advance
  BY <1>1 DEF Advance
<1>2. CASE TickerFires
  BY <1>2 DEF TickerFires
<1>3. ASSUME NEW c \in TimerCommands, Send(c)
      PROVE  Covered'
  BY <1>3 DEF Send
<1>4. CASE Done
  BY <1>4 DEF Done
<1>5. CASE Range
  BY <1>5 DEF Range, incrementTimer
<1>6. CASE Stamp
  BY <1>6 DEF Stamp
<1>7. CASE SelectCommand
  <2>1. CASE Head(command) \in {"start", "resume"}
    <3>1. previousTime' = now /\ tick'
      BY <1>7, <2>1 DEF SelectCommand, Apply
    <3>2. elapsedTime' <= ran'
      BY <1>7 DEF SelectCommand, Apply
    <3>3. QED
      BY <1>7, <3>1, <3>2 DEF SelectCommand, Apply
  <2>2. CASE Head(command) \notin {"start", "resume"}
    <3>1. ~tick' /\ previousTime' = previousTime
      BY <1>7, <2>2 DEF SelectCommand, Apply
    <3>2. elapsedTime' <= ran'
      BY <1>7 DEF SelectCommand, Apply
    <3>3. QED
      BY <1>7, <3>1, <3>2 DEF SelectCommand, Apply
  <2>3. QED
    BY <2>1, <2>2
<1>8. CASE SelectDefault
  BY <1>8 DEF SelectDefault
<1>9. CASE Check
  BY <1>9 DEF Check
<1>10. CASE Clamp
  BY <1>10 DEF Clamp
<1>11. CASE UNCHANGED tvars
  BY <1>11 DEF tvars
<1>12. QED
  BY <1>1, <1>2, <1>3, <1>4, <1>5, <1>6, <1>7, <1>8, <1>9, <1>10, <1>11
  DEF Next, Client, Reset, Start, Stop, Resume, timerTicker, TimerCommands

\* The elapsed time is covered by the time run in every reachable state.
THEOREM CoveredInvariant == Spec => []Covered
<1>1. Init => Covered
  BY DEF Init, NewTimer, Covered
<1>2. QED
  BY <1>1, TypeCorrect, CoveredStep, PTL DEF Spec

\* A timeout is reported only after more than the limit of real counting time:
\* the wall-clock timer never ends a job early (timer.go:79-81).
THEOREM TimerNeverEarly == Spec => []NeverEarly
<1>1. TypeOK /\ Covered => NeverEarly
  BY TimerAssumption DEF TypeOK, Covered, NeverEarly
<1>2. QED
  BY <1>1, TypeCorrect, CoveredInvariant, PTL

\* The timer implements the stopwatch: every step of the goroutine, of the
\* clock and of the user is a step of the stopwatch or leaves it alone.
THEOREM TimerIsStopwatch == Spec => IsStopwatch
<1>1. Init => Watch!Init
  BY DEF Init, NewTimer, Watch!Init
<1>2. TypeOK /\ TypeOK' /\ Covered /\ [Next]_tvars => [Watch!Next]_(Watch!svars)
  <2> SUFFICES ASSUME TypeOK, TypeOK', Covered, [Next]_tvars
               PROVE  Watch!Next \/ UNCHANGED Watch!svars
    OBVIOUS
  <2> USE TimerAssumption DEF TypeOK, Covered, Watch!svars
  <2>1. CASE Advance
    BY <2>1 DEF Advance, Watch!Next, Watch!Pass
  <2>2. CASE TickerFires
    BY <2>2 DEF TickerFires
  <2>3. ASSUME NEW c \in TimerCommands, Send(c)
        PROVE  UNCHANGED Watch!svars
    BY <2>3 DEF Send
  <2>4. CASE Done
    BY <2>4 DEF Done
  <2>5. CASE Range
    BY <2>5 DEF Range, incrementTimer, Watch!Next, Watch!Show
  <2>6. CASE Stamp
    BY <2>6 DEF Stamp
  <2>7. CASE SelectCommand
    <3>1. \E on \in BOOLEAN : Watch!Zero(on) \/ Watch!Switch(on)
      <4>1. Head(command) \in TimerCommands
        BY <2>7, CommandShape DEF SelectCommand
      <4>2. CASE Head(command) \in {"reset", "start"}
        <5>1. Watch!Zero(tick')
          BY <2>7, <4>2 DEF SelectCommand, Apply, Watch!Zero
        <5>2. QED
          BY <5>1, tick' \in BOOLEAN, Zenon
      <4>3. CASE Head(command) \in {"stop", "resume"}
        <5>1. Watch!Switch(tick')
          BY <2>7, <4>3 DEF SelectCommand, Apply, Watch!Switch
        <5>2. QED
          BY <5>1, tick' \in BOOLEAN, Zenon
      <4>4. QED
        BY <4>1, <4>2, <4>3 DEF TimerCommands
    <3>2. QED
      BY <3>1 DEF Watch!Next
  <2>8. CASE SelectDefault
    BY <2>8 DEF SelectDefault
  <2>9. CASE Check
    BY <2>9 DEF Check, Watch!Next, Watch!Ring
  <2>10. CASE Clamp
    BY <2>10 DEF Clamp, Watch!Next, Watch!Acknowledge
  <2>11. CASE UNCHANGED tvars
    BY <2>11 DEF tvars
  <2>12. QED
    BY <2>1, <2>2, <2>3, <2>4, <2>5, <2>6, <2>7, <2>8, <2>9, <2>10, <2>11
    DEF Next, Client, Reset, Start, Stop, Resume, timerTicker, TimerCommands
<1>3. QED
  BY <1>1, <1>2, TypeCorrect, CoveredInvariant, PTL
  DEF Spec, IsStopwatch, Watch!Spec
=================================================================================
