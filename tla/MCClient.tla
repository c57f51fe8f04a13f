------------------------------ MODULE MCClient ------------------------------
(* The goroutines of the AMQP client, each group on an instance of its     *)
(* own: the buffers of consumers, one channel with its callers, the        *)
(* listeners of a channel, one connection from the dial to its end.  They  *)
(* share no variable: `part` names the one that moves.                     *)
EXTENDS Naturals, Sequences

CONSTANTS
  Tags, MaxSent,                            \* of Consumers
  Callers, Ops, NoWaitOps, MaxAsync,        \* of AmqpRpc
  Registrations, Capacity, MaxMessages,     \* of Listeners
  Users                                     \* of AmqpConnection

Parts == {"consumers", "rpc", "listeners", "connection"}

VARIABLES
  part,
  chans, offer, buffer, inClosed, outClosed, waiting, sent, got,                     \* consumers
  caller, requests, replies, closed, errors, server, asyncs, serial, outcome, stuck, \* rpc
  pending, lists, mutex, buffered, closedChans, heard, owed, dispatching, count, closeCall,
  ending, panicked,                                                                  \* listeners
  opener, reader, heartbeater, deadlines, user, closer, channels, sendClosed, chErrors,
  removed, shut, spawned, connErrors, listener, socket, wire                         \* connection

consumersVars == <<chans, offer, buffer, inClosed, outClosed, waiting, sent, got>>
rpcVars == <<caller, requests, replies, closed, errors, server, asyncs, serial, outcome, stuck>>
listenersVars == <<pending, lists, mutex, buffered, closedChans, heard, owed, dispatching, count, closeCall,
                   ending, panicked>>
connectionVars == <<opener, reader, heartbeater, deadlines, user, closer, channels, sendClosed, chErrors,
                    removed, shut, spawned, connErrors, listener, socket, wire>>
vars == <<part, consumersVars, rpcVars, listenersVars, connectionVars>>

Consuming == INSTANCE Consumers
Rpc == INSTANCE AmqpRpc
Notified == INSTANCE Listeners
Connection == INSTANCE AmqpConnection
  WITH Mechanisms <- {{"PLAIN", "AMQPLAIN"}, {"EXTERNAL"}}, Closes <- TRUE, errors <- connErrors

ASSUME ConsumersAssumption == Consuming!ConsumersAssumption
ASSUME RpcAssumption == Rpc!RpcAssumption
ASSUME ListenersAssumption == Notified!ListenersAssumption

(* Values for the constants.  redial calls; handle, or a sample,           *)
(* acknowledges and publishes.                                             *)
Method == INSTANCE AmqpRpc WITH Ops <- <<>>, NoWaitOps <- {}, MaxAsync <- 0
ClientOps == [redial |-> <<Method!AllCalls, {Method!Close, Method!Get}>>, handle |-> <<Method!AllSends>>]
ButConfirm == Method!ButConfirm
ClientListeners == {[close |-> "c"], [return |-> "r"], [ack |-> "a", nack |-> "a"]}

Init == part \in Parts /\ Consuming!Init /\ Rpc!Init /\ Notified!Init /\ Connection!Init

Next ==
  /\ \/ part = "consumers" /\ Consuming!Next /\ UNCHANGED <<rpcVars, listenersVars, connectionVars>>
     \/ part = "rpc" /\ Rpc!Next /\ UNCHANGED <<consumersVars, listenersVars, connectionVars>>
     \/ part = "listeners" /\ Notified!Next /\ UNCHANGED <<consumersVars, rpcVars, connectionVars>>
     \/ part = "connection" /\ Connection!Next /\ UNCHANGED <<consumersVars, rpcVars, listenersVars>>
  /\ UNCHANGED part

Spec == Init /\ [][Next]_vars

(* The fairness of the parts, for the one that moves.                      *)
Fairness ==
  /\ \A t \in Tags : WF_consumersVars(part = "consumers" /\ Consuming!bufferDeliveries(t))
  /\ WF_rpcVars(part = "rpc" /\ Rpc!Reader) /\ WF_rpcVars(part = "rpc" /\ Rpc!Server)
  /\ \A c \in Callers : WF_rpcVars(part = "rpc" /\ Rpc!CallFails(c))
  /\ WF_listenersVars(part = "listeners" /\ Notified!Reading)
  /\ WF_listenersVars(part = "listeners" /\ Notified!Ending)
  /\ \A c \in Notified!Chans : WF_listenersVars(part = "listeners" /\ Notified!Receive(c))
  /\ WF_connectionVars(part = "connection" /\ Connection!Opening)
  /\ WF_connectionVars(part = "connection" /\ Connection!Reading)
  /\ WF_connectionVars(part = "connection" /\ Connection!Beating)
  /\ WF_connectionVars(part = "connection" /\ Connection!Shutting)
  /\ WF_connectionVars(part = "connection" /\ Connection!Closing)
  /\ WF_connectionVars(part = "connection" /\ Connection!Listen)
  /\ WF_connectionVars(part = "connection" /\ (opener # "ready" \/ socket = "silent")
                                           /\ Connection!DeadlineExpires)
  /\ \A u \in Users : WF_connectionVars(part = "connection" /\ Connection!Using(u))

FairSpec == Spec /\ Fairness

-----------------------------------------------------------------------------
(* The buffer of a consumer is an unbounded queue (consumers.go).          *)
IsDeliveryQueues == Consuming!IsDeliveryQueues

(* Each call on a channel gets its own answer and waits for nothing that   *)
(* is not on its way, but for a Confirm that keeps the reader from it, and *)
(* the reader is not caught in closeWith                                   *)
(* (channel.go, call, shutdown; connection.go, dispatchClosed).            *)
RpcInStep == Rpc!RpcInStep

(* Listeners of a channel are sent all their messages and how it ended,    *)
(* and are closed once (channel.go, dispatch and shutdown).                *)
ListenersTold == Notified!ListenersTold

(* The shutdown of a connection leaves no listener without its news, and,  *)
(* when it has an error, no waiting call (connection.go, shutdown).        *)
NobodyForgotten == Connection!NobodyForgotten

(* Nobody is stuck: a consumer never keeps the reader waiting, and every   *)
(* call on a channel returns, but for a Confirm the reader waits for       *)
(* (consumers.go, buffer; channel.go, call).                               *)
NobodyIsStuck == Consuming!ReaderNeverStuck /\ Rpc!CallsReturn

(* Open returns, whatever the peer does (connection.go, Open).             *)
OpenEnds == part = "connection" => Connection!OpenEnds

(* Listeners are closed at the end of a channel or connection, and calls   *)
(* return when it is a loss (shutdown in both files).                      *)
EndReachesAll == Connection!RemovedReturn /\ Connection!ListenersClosed /\ Notified!AllClosed
=============================================================================
