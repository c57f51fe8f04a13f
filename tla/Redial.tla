------------------------------- MODULE Redial -------------------------------
(***************************************************************************)
(* The connection loop redial of main.go with what it sets up on every new *)
(* connection: NewRemoteControl and its goroutine handle, the channel of   *)
(* commands that monitor reads, NewProcessStats / ReinitializeConnection.  *)
(* Connections are numbered; a call on a broken one returns an error, but  *)
(* Connection.Channel, which registers a new channel, may wait for ever    *)
(* (AmqpConnection, LossIsNotified), and so may monitor (ProcBox,          *)
(* TimeoutStopsJob).  The broker is external: it routes a command to every *)
(* bound queue, keeps it until it is acknowledged, and deletes an          *)
(* auto-delete queue with its only consumer.                               *)
(***************************************************************************)
EXTENDS Naturals, Sequences, SequencesExt

CONSTANTS
  Commands,        \* remote commands, each published once
  MaxConns,        \* bound: connections made
  ExchangeExists,  \* the exchange is there before proc_box connects
  Shutdowns        \* somebody calls RemoteControl.Shutdown

RedialAssumption == MaxConns \in Nat /\ ExchangeExists \in BOOLEAN /\ Shutdowns \in BOOLEAN

Conns == 1..MaxConns

VARIABLES
  redial,     \* "dial", "sleep", the calls of the set-up, "hand", "listen", "wait", "hangs"
  monitor,    \* "runs", or "stuck" between the timer and its own channels
  conn,       \* the current connection, 0 before the first
  up,         \* connection -> the client can use it
  exchange,   \* the exchange exists
  queue,      \* connection -> messages in its queue (the broker's side)
  declared,   \* connections whose queue exists
  bound,      \* connections whose queue is bound to the exchange
  unacked,    \* connection -> delivered, not acknowledged
  acked,      \* messages acknowledged
  buffer,     \* connection -> deliveries the client holds for the consumer
  handle,     \* connection -> goroutine handle: "none", "range", "send", "ack", "done"
  current,    \* connection -> the message handle works on
  rcChan,     \* the connection whose commands monitor reads, 0 for none
  executed,   \* what monitor received, in order
  stats,      \* the connection of the statistics channel, 0 while stats is nil
  published,
  shutdown    \* Shutdown: "no", "waiting"

vars == <<redial, monitor, conn, up, exchange, queue, declared, bound, unacked, acked, buffer, handle,
          current, rcChan, executed, stats, published, shutdown>>

none == "none"

Init ==
  /\ redial = "dial" /\ monitor = "runs" /\ conn = 0
  /\ up = [n \in Conns |-> FALSE]
  /\ exchange = ExchangeExists
  /\ queue = [n \in Conns |-> <<>>] /\ declared = {} /\ bound = {}
  /\ unacked = [n \in Conns |-> {}] /\ acked = {}
  /\ buffer = [n \in Conns |-> <<>>]
  /\ handle = [n \in Conns |-> "none"] /\ current = [n \in Conns |-> none]
  /\ rcChan = 0 /\ executed = <<>>
  /\ stats = 0
  /\ published = {} /\ shutdown = "no"

-----------------------------------------------------------------------------
(* redial. *)

(* A failed attempt is followed by five seconds of sleep and another one.  *)
Dial ==
  /\ redial = "dial" /\ conn < MaxConns
  /\ conn' = conn + 1
  /\ up' = [up EXCEPT ![conn + 1] = TRUE]
  /\ redial' = "channel"
  /\ UNCHANGED <<monitor, exchange, queue, declared, bound, unacked, acked, buffer, handle, current, rcChan,
                 executed, stats, published, shutdown>>

DialFails ==
  /\ redial = "dial"
  /\ redial' = "sleep"
  /\ UNCHANGED <<monitor, conn, up, exchange, queue, declared, bound, unacked, acked, buffer, handle, current,
                 rcChan, executed, stats, published, shutdown>>

Wake ==
  /\ redial = "sleep"
  /\ redial' = "dial"
  /\ UNCHANGED <<monitor, conn, up, exchange, queue, declared, bound, unacked, acked, buffer, handle, current,
                 rcChan, executed, stats, published, shutdown>>

RemoteControlDeclareFails ==
  /\ redial \in {"channel", "declare"} /\ ~up[conn]
  /\ redial' = "stats"
  /\ UNCHANGED <<monitor, conn, up, exchange, queue, declared, bound, unacked, acked, buffer, handle, current,
                 rcChan, executed, stats, published, shutdown>>

(* Calls of NewRemoteControl (Channel, QueueDeclare, QueueBind, Consume):  *)
(* the first that fails ends it, and redial goes on to the statistics.     *)
RemoteControlFails ==
  /\ redial \in {"channel", "declare", "bind", "consume"}
  /\ ~up[conn] \/ (redial = "bind" /\ ~exchange)
  /\ redial' = "stats"
  /\ UNCHANGED <<monitor, conn, up, exchange, queue, declared, bound, unacked, acked, buffer, handle, current,
                 rcChan, executed, stats, published, shutdown>>

Channel ==
  /\ redial = "channel" /\ up[conn]
  /\ redial' = "declare"
  /\ UNCHANGED <<monitor, conn, up, exchange, queue, declared, bound, unacked, acked, buffer, handle, current,
                 rcChan, executed, stats, published, shutdown>>

(* A channel that is registered after shutdown took the others away is     *)
(* never shut down: its open waits for ever, and redial with it.           *)
ChannelHangs ==
  /\ redial \in {"channel", "stats"} /\ ~up[conn]
  /\ redial' = "hangs"
  /\ UNCHANGED <<monitor, conn, up, exchange, queue, declared, bound, unacked, acked, buffer, handle, current,
                 rcChan, executed, stats, published, shutdown>>

QueueDeclare ==
  /\ redial = "declare" /\ up[conn]
  /\ declared' = declared \cup {conn}
  /\ redial' = "bind"
  /\ UNCHANGED <<monitor, conn, up, exchange, queue, bound, unacked, acked, buffer, handle, current, rcChan,
                 executed, stats, published, shutdown>>

QueueBind ==
  /\ redial = "bind" /\ up[conn] /\ exchange
  /\ bound' = IF conn \in declared THEN bound \cup {conn} ELSE bound
  /\ redial' = "consume"
  /\ UNCHANGED <<monitor, conn, up, exchange, queue, declared, unacked, acked, buffer, handle, current, rcChan,
                 executed, stats, published, shutdown>>

Consume ==
  /\ redial = "consume" /\ up[conn]
  /\ handle' = [handle EXCEPT ![conn] = "range"]
  /\ redial' = "hand"
  /\ UNCHANGED <<monitor, conn, up, exchange, queue, declared, bound, unacked, acked, buffer, current, rcChan,
                 executed, stats, published, shutdown>>

(* sess.rcChan <- rc.Commands, and monitor's first case: the two meet.     *)
HandOver ==
  /\ redial = "hand" /\ monitor = "runs"
  /\ rcChan' = conn
  /\ redial' = "stats"
  /\ UNCHANGED <<monitor, conn, up, exchange, queue, declared, bound, unacked, acked, buffer, handle, current,
                 executed, stats, published, shutdown>>

(* NewProcessStats the first time, ReinitializeConnection later: a channel *)
(* and the declaration of the exchange.  The channel is replaced even when *)
(* it could not be opened, but for the first time, when stats stays nil.   *)
SetUpStatsOnce ==
  /\ redial = "stats"
  /\ exchange' = (exchange \/ up[conn])
  /\ stats' = IF stats = 0 /\ up[conn] THEN conn ELSE stats
  /\ redial' = "listen"
  /\ UNCHANGED <<monitor, conn, up, queue, declared, bound, unacked, acked, buffer, handle, current, rcChan,
                 executed, published, shutdown>>

SetUpStats ==
  /\ redial = "stats"
  /\ exchange' = (exchange \/ up[conn])
  /\ stats' = IF stats # 0 \/ up[conn] THEN conn ELSE 0
  /\ redial' = "listen"
  /\ UNCHANGED <<monitor, conn, up, queue, declared, bound, unacked, acked, buffer, handle, current, rcChan,
                 executed, published, shutdown>>

(* NotifyClose and the wait for it: at once when the connection is down    *)
(* already.                                                                *)
Listen ==
  /\ redial = "listen"
  /\ redial' = "wait"
  /\ UNCHANGED <<monitor, conn, up, exchange, queue, declared, bound, unacked, acked, buffer, handle, current,
                 rcChan, executed, stats, published, shutdown>>

Closed ==
  /\ redial = "wait" /\ ~up[conn]
  /\ redial' = "dial"
  /\ UNCHANGED <<monitor, conn, up, exchange, queue, declared, bound, unacked, acked, buffer, handle, current,
                 rcChan, executed, stats, published, shutdown>>

-----------------------------------------------------------------------------
(* handle, one goroutine for every connection, and monitor. *)

ReceiveAndAck(n) ==
  /\ handle[n] = "range" /\ buffer[n] # <<>>
  /\ current' = [current EXCEPT ![n] = Head(buffer[n])]
  /\ buffer' = [buffer EXCEPT ![n] = Tail(@)]
  /\ handle' = [handle EXCEPT ![n] = "send"]
  /\ acked' = acked \cup {Head(buffer[n])}
  /\ UNCHANGED <<redial, monitor, conn, up, exchange, queue, declared, bound, unacked, rcChan, executed,
                 stats, published, shutdown>>

Receive(n) ==
  /\ handle[n] = "range" /\ buffer[n] # <<>>
  /\ current' = [current EXCEPT ![n] = Head(buffer[n])]
  /\ buffer' = [buffer EXCEPT ![n] = Tail(@)]
  /\ handle' = [handle EXCEPT ![n] = "send"]
  /\ UNCHANGED <<redial, monitor, conn, up, exchange, queue, declared, bound, unacked, acked, rcChan, executed,
                 stats, published, shutdown>>

(* commands <- cmd, received by monitor. *)
Execute(n) ==
  /\ handle[n] = "send" /\ rcChan = n /\ monitor = "runs"
  /\ executed' = Append(executed, current[n])
  /\ handle' = [handle EXCEPT ![n] = "ack"]
  /\ UNCHANGED <<redial, monitor, conn, up, exchange, queue, declared, bound, unacked, acked, buffer, current,
                 rcChan, stats, published, shutdown>>

(* A timer method waits for timerTicker, which waits for monitor.          *)
MonitorSticks ==
  /\ monitor = "runs"
  /\ monitor' = "stuck"
  /\ UNCHANGED <<redial, conn, up, exchange, queue, declared, bound, unacked, acked, buffer, handle, current,
                 rcChan, executed, stats, published, shutdown>>

(* d.Ack(false); its error is dropped. *)
Ack(n) ==
  /\ handle[n] = "ack"
  /\ acked' = IF up[n] THEN acked \cup {current[n]} ELSE acked
  /\ unacked' = IF up[n] THEN [unacked EXCEPT ![n] = @ \ {current[n]}] ELSE unacked
  /\ handle' = [handle EXCEPT ![n] = "range"]
  /\ UNCHANGED <<redial, monitor, conn, up, exchange, queue, declared, bound, buffer, current, rcChan, executed,
                 stats, published, shutdown>>

(* The deliveries are closed and drained: done <- nil blocks for ever, the *)
(* channel is nil.                                                         *)
Drained(n) ==
  /\ handle[n] = "range" /\ buffer[n] = <<>>
  /\ ~up[n] \/ (shutdown # "no" /\ n = rcChan)
  /\ handle' = [handle EXCEPT ![n] = "done"]
  /\ UNCHANGED <<redial, monitor, conn, up, exchange, queue, declared, bound, unacked, acked, buffer, current,
                 rcChan, executed, stats, published, shutdown>>

(* Shutdown: basic.cancel without waiting, then <-rc.done, which is nil:   *)
(* it does not return.  The broker deletes the queue with its consumer.    *)
Shutdown ==
  /\ Shutdowns /\ shutdown = "no" /\ rcChan # 0 /\ up[rcChan]
  /\ shutdown' = "waiting"
  /\ declared' = declared \ {rcChan} /\ bound' = bound \ {rcChan}
  /\ queue' = [queue EXCEPT ![rcChan] = <<>>]
  /\ UNCHANGED <<redial, monitor, conn, up, exchange, unacked, acked, buffer, handle, current, rcChan, executed,
                 stats, published>>

-----------------------------------------------------------------------------
(* The broker, the network, and whoever publishes commands. *)

Publish(c) ==
  /\ c \notin published
  /\ published' = published \cup {c}
  /\ queue' = [n \in Conns |-> IF n \in bound THEN Append(queue[n], c) ELSE queue[n]]
  /\ UNCHANGED <<redial, monitor, conn, up, exchange, declared, bound, unacked, acked, buffer, handle, current,
                 rcChan, executed, stats, shutdown>>

Deliver(n) ==
  /\ up[n] /\ handle[n] # "none" /\ n \in declared /\ queue[n] # <<>>
  /\ buffer' = [buffer EXCEPT ![n] = Append(@, Head(queue[n]))]
  /\ unacked' = [unacked EXCEPT ![n] = @ \cup {Head(queue[n])}]
  /\ queue' = [queue EXCEPT ![n] = Tail(@)]
  /\ UNCHANGED <<redial, monitor, conn, up, exchange, declared, bound, acked, handle, current, rcChan, executed,
                 stats, published, shutdown>>

Lose ==
  /\ conn # 0 /\ up[conn]
  /\ up' = [up EXCEPT ![conn] = FALSE]
  /\ UNCHANGED <<redial, monitor, conn, exchange, queue, declared, bound, unacked, acked, buffer, handle, current,
                 rcChan, executed, stats, published, shutdown>>

(* What becomes of a connection's queue when the broker notices its loss:  *)
(* auto-delete drops it with what it holds; otherwise the next connection  *)
(* that declares it by name would find the messages again.                 *)
KeptByName == FALSE
AutoDelete == TRUE

BrokerNotices(n) ==
  /\ ~up[n] /\ n \in declared
  /\ declared' = declared \ {n} /\ bound' = bound \ {n}
  /\ unacked' = [unacked EXCEPT ![n] = {}]
  /\ queue' = IF AutoDelete \/ conn = n THEN [queue EXCEPT ![n] = <<>>]
              ELSE [queue EXCEPT ![n] = <<>>, ![conn] = @ \o SetToSeq(unacked[n]) \o queue[n]]
  /\ UNCHANGED <<redial, monitor, conn, up, exchange, acked, buffer, handle, current, rcChan, executed, stats,
                 published, shutdown>>

-----------------------------------------------------------------------------
Loop == Dial \/ Wake \/ RemoteControlFails \/ Channel \/ ChannelHangs \/ QueueDeclare \/ QueueBind \/ Consume \/ HandOver
        \/ SetUpStats \/ Listen \/ Closed
Handling(n) == Receive(n) \/ Execute(n) \/ Ack(n) \/ Drained(n)
Broking(n) == Deliver(n) \/ BrokerNotices(n)

Next ==
  \/ Loop \/ DialFails \/ Shutdown \/ Lose \/ MonitorSticks
  \/ \E n \in Conns : Handling(n) \/ Broking(n)
  \/ \E c \in Commands : Publish(c)

Spec == Init /\ [][Next]_vars

(* The goroutines run; the broker, asked often enough, accepts.            *)
FairSpec ==
  /\ Spec
  /\ WF_vars(Loop) /\ SF_vars(Dial)
  /\ \A n \in Conns : WF_vars(Handling(n)) /\ WF_vars(Broking(n))

-----------------------------------------------------------------------------
(* No command is executed twice, although it is acknowledged only after    *)
(* the hand-over and the connection may break in between: its queue dies   *)
(* with the connection.                                                    *)
ExecutedOnce == IsInjective(executed)

(* What the broker forgets because of an acknowledgement was received by   *)
(* monitor.                                                                *)
AckedIsExecuted == acked \subseteq Range(executed)

(* redial asks for a new connection whenever one is lost (as far as the    *)
(* bound lets it): always when it waits for that, and at whatever call of  *)
(* the set-up it happens, unless Channel hangs or monitor, which is stuck, *)
(* does not take the commands.                                             *)
Hangs == redial = "hangs" \/ (redial = "hand" /\ monitor = "stuck")
Redials ==
  \A n \in Conns :
    /\ (conn = n /\ ~up[n] /\ n < MaxConns) ~> conn > n \/ Hangs
    /\ (conn = n /\ ~up[n] /\ n < MaxConns /\ redial = "wait") ~> conn > n

(* On a connection that lasts, while monitor runs, commands are received   *)
(* in the end: monitor listens to that connection's handle, its queue is   *)
(* bound, and the statistics use it.  remote_control.go:26 says            *)
(* NewRemoteControl "creates a new watcher for external commands through   *)
(* AMQP to control the boxed process", README.md:48 that commands "can be  *)
(* issued through the AMQP broker to the topic exchange specified".        *)
Controlled == shutdown # "no" \/ (rcChan = conn /\ conn \in bound /\ handle[conn] # "none")
SetUpCompletes == \A n \in Conns : <>[](conn = n /\ up[n] /\ monitor = "runs") => <>[](Controlled /\ stats = n)

(* Commands survive the loss of connections: none is executed twice and    *)
(* none is acknowledged in vain.                                           *)
CommandsOnce == ExecutedOnce /\ AckedIsExecuted

(* The loop goes on: a loss is followed by a connection unless a call of   *)
(* the set-up hangs, a lasting connection by all that is set up on it.     *)
LoopGoesOn == Redials /\ SetUpCompletes
=============================================================================
