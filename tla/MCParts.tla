------------------------------- MODULE MCParts -------------------------------
(* The wall-clock timer with any sequence of commands, on a clock of       *)
(* MaxTime steps; frames on the wire; and the writers of a pool of which   *)
(* one may fail: each on an instance of its own.  The parts share no       *)
(* variable: `part` names the one that moves.                              *)
EXTENDS WallclockTimer

Parts == {"timer", "wire", "writers"}

VARIABLES
  part,
  stream, sent, got,                                                                 \* wire
  maxRate, givenOut, locked, maxPerBatch, batchDone, sinceBatch, op, recent          \* writers

wireVars == <<stream, sent, got>>
throttleVars == <<maxRate, givenOut, locked, maxPerBatch, batchDone, sinceBatch, op, recent>>
vars == <<part, tvars, wireVars, throttleVars>>

(* Frames to choose from. *)
Choice == INSTANCE MCAmqpWire WITH Frames <- <<>>, Followers <- <<>>, MaxFrames <- 0

Wire == INSTANCE AmqpWire
  WITH Frames <- Choice!MCFrames, Followers <- Choice!OtherFrames, MaxFrames <- 2
Pool == INSTANCE Throttle
  WITH Writers <- {"u", "v"}, Readers <- {}, Rates <- {4}, Batches <- 2, Resolution <- 1,
       Lens <- {3}, Failing <- {"v"}

ASSUME Pool!ThrottleAssumption

PartsInit == part \in Parts /\ Init /\ Wire!Init /\ Pool!Init

PartsNext ==
  /\ \/ part = "timer" /\ Next /\ UNCHANGED <<wireVars, throttleVars>>
     \/ part = "wire" /\ Wire!Next /\ UNCHANGED <<tvars, throttleVars>>
     \/ part = "writers" /\ Pool!Next /\ UNCHANGED <<tvars, wireVars>>
  /\ UNCHANGED part

(* A stream of frames comes to an end; the other parts never do.           *)
Ends == part = "wire" /\ UNCHANGED vars

(* The fairness of the timer (WallclockTimer!Fairness) and of the writers. *)
PartsFairness ==
  /\ WF_tvars(part = "timer" /\ TickerFires)
  /\ WF_tvars(part = "timer" /\ timerTicker)
  /\ WF_tvars(part = "timer" /\ Done)
  /\ WF_throttleVars(part = "writers" /\ Pool!Tick)
  /\ \A u \in Pool!Users : /\ WF_throttleVars(part = "writers" /\ Pool!Throttled(u))
                           /\ WF_throttleVars(part = "writers" /\ Pool!setSharedRates(u))

PartsSpec == PartsInit /\ [][PartsNext \/ Ends]_vars /\ PartsFairness

-----------------------------------------------------------------------------
(* What one end of a connection writes the other reads (read.go, write.go, *)
(* spec091.go).                                                            *)
WrittenIsRead == Wire!FramesSurvive

(* Throttled writes come to their end although writers fail (iocontrol).   *)
WritesEnd == Pool!CallsReturn
=============================================================================
