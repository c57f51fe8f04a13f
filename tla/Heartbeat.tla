----------------------------- MODULE Heartbeat -----------------------------
(***************************************************************************)
(* Heartbeats in both directions (connection.go: openTune, heartbeater,    *)
(* send, reader; defaultDial's first deadline), in whole seconds from the  *)
(* moment the heartbeater starts.  Goroutines are scheduled within the     *)
(* second: time waits for a due tick, a due deadline and a reset.          *)
(***************************************************************************)
EXTENDS Integers

CONSTANTS
  ClientHeartbeat,   \* Config.Heartbeat; proc_box leaves it 0
  ServerHeartbeat,   \* what the server proposes in connection.tune
  DialDeadline,      \* defaultConnectionTimeout
  MaxGap             \* bound: the longest time between two frames of a live server

VARIABLES
  tickIn,      \* time to the next tick of sendTicks
  sentAge,     \* age of the last frame written
  lastSent,    \* age of the last frame the heartbeater was told of
  deadline,    \* time left to the read deadline
  deadlines,   \* items in the channel deadlines, which holds one
  silence,     \* age of the last frame read
  server,      \* "alive" or "dead"
  connection   \* "up", or "down" once the reader met its deadline

vars == <<tickIn, sentAge, lastSent, deadline, deadlines, silence, server, connection>>

Smaller(a, b) == IF a > b THEN b ELSE a
Larger(a, b) == IF a > b THEN a ELSE b
pick(client, server0) ==
  IF client = 0 \/ server0 = 0 THEN Larger(client, server0) ELSE Smaller(client, server0)

interval == pick(ClientHeartbeat, ServerHeartbeat)
twoServerHeartbeats == 2
maxServerHeartbeatsInFlight == 3

(* Some heartbeat is agreed on, the dialer gives the handshake time, and a *)
(* live server is silent for less than the deadline that every frame sets. *)
HeartbeatAssumption ==
  /\ ClientHeartbeat \in Nat /\ ServerHeartbeat \in Nat
  /\ ClientHeartbeat > 0 \/ ServerHeartbeat > 0
  /\ DialDeadline \in Nat \ {0}
  /\ MaxGap \in Nat /\ MaxGap < 3 * interval

(* The frames of the handshake have filled deadlines. *)
Init ==
  /\ tickIn = interval
  /\ sentAge = 0 /\ lastSent = 0 /\ silence = 0
  /\ deadline = DialDeadline /\ deadlines = 1
  /\ server = "alive" /\ connection = "up"

(* Ages are followed as far as the properties and the code look at them.   *)
Older(age, bound) == Smaller(age + 1, bound)

Second ==
  /\ connection = "up" /\ deadlines = 0 /\ deadline > 0
  /\ interval > 0 => tickIn > 0
  /\ server = "alive" /\ interval > 0 => silence < MaxGap
  /\ tickIn' = IF interval > 0 THEN tickIn - 1 ELSE 0
  /\ deadline' = deadline - 1
  /\ sentAge' = Older(sentAge, 2 * interval)
  /\ lastSent' = Older(lastSent, 2 * interval)
  /\ silence' = Older(silence, 3 * interval + 1)
  /\ UNCHANGED <<deadlines, server, connection>>

(* Another goroutine sends a frame; the heartbeater is told unless it is   *)
(* busy.                                                                   *)
sendExtends ==
  /\ connection = "up" /\ sentAge' = 0 /\ lastSent' \in {0, lastSent}
  /\ deadline' = maxServerHeartbeatsInFlight * interval
  /\ UNCHANGED <<tickIn, deadlines, silence, server, connection>>

send ==
  /\ connection = "up"
  /\ sentAge' = 0
  /\ lastSent' \in {0, lastSent}
  /\ UNCHANGED <<tickIn, deadline, deadlines, silence, server, connection>>

(* The heartbeater's own frame is not reported to itself.                  *)
TickIntolerant ==
  /\ connection = "up" /\ interval > 0 /\ tickIn = 0
  /\ tickIn' = interval
  /\ sentAge' = IF lastSent > interval THEN 0 ELSE sentAge
  /\ UNCHANGED <<lastSent, deadline, deadlines, silence, server, connection>>

Tick ==
  /\ connection = "up" /\ interval > 0 /\ tickIn = 0
  /\ tickIn' = interval
  /\ sentAge' = IF lastSent > interval - 1 THEN 0 ELSE sentAge
  /\ UNCHANGED <<lastSent, deadline, deadlines, silence, server, connection>>

ReadFrame ==
  /\ connection = "up" /\ server = "alive" /\ deadlines = 0
  /\ silence' = 0
  /\ deadlines' = 1
  /\ UNCHANGED <<tickIn, sentAge, lastSent, deadline, server, connection>>

ResetDeadline ==
  /\ deadlines = 1
  /\ deadlines' = 0
  /\ deadline' = IF interval > 0 THEN maxServerHeartbeatsInFlight * interval ELSE deadline
  /\ UNCHANGED <<tickIn, sentAge, lastSent, silence, server, connection>>

ReadFails ==
  /\ connection = "up" /\ deadline = 0
  /\ connection' = "down"
  /\ UNCHANGED <<tickIn, sentAge, lastSent, deadline, deadlines, silence, server>>

ServerDies ==
  /\ server = "alive"
  /\ server' = "dead"
  /\ UNCHANGED <<tickIn, sentAge, lastSent, deadline, deadlines, silence, connection>>

Next == Second \/ send \/ Tick \/ ReadFrame \/ ResetDeadline \/ ReadFails \/ ServerDies
Spec == Init /\ [][Next]_vars

-----------------------------------------------------------------------------
(* The server never goes two intervals without a frame, when it would give *)
(* the client up, whatever the client sends and when.  The interval and    *)
(* one second that connection.go:470 speaks of do not suffice: a frame     *)
(* sent after a tick makes the next tick pass without one.                 *)
KeepsTalking == connection = "up" /\ interval > 0 => sentAge < 2 * interval

(* A dead server is noticed after three intervals, however much the client *)
(* goes on sending.                                                        *)
DeadServerFound == connection = "up" /\ interval > 0 => silence <= 3 * interval

(* The connection to a live server is kept.  connection.go:140 says of     *)
(* DialConfig "Defaults to a server heartbeat interval of 10 seconds".     *)
LiveServerKept == connection = "down" => server = "dead"

(* Both directions of connection.go's heartbeat: the client is heard, and  *)
(* judges the server right.                                                *)
HeartbeatHolds == KeepsTalking /\ DeadServerFound /\ LiveServerKept
=============================================================================
