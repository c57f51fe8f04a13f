------------------------------ MODULE AmqpRpc ------------------------------
(***************************************************************************)
(* Requests and answers on one AMQP channel: the public methods of         *)
(* channel.go, Channel.call, Channel.dispatch, Connection.dispatchClosed.  *)
(* An answer carries no reference to its request: call takes whatever      *)
(* arrives next on the channel rpc, and reader and caller stay in step     *)
(* only as long as every request that waits is answered and none that does *)
(* not wait is.  Whether a request waits is decided by the generated       *)
(* wait(), whether it is answered by the server.  Confirm keeps the mutex  *)
(* of the channel while it waits; shutdown and what confirms publishings   *)
(* take it on the reader.                                                  *)
(***************************************************************************)
EXTENDS AmqpMethods, Sequences

(* What each method of Channel sends, the answers it accepts, and whether  *)
(* it has a parameter noWait.                                              *)
Calls(req, res, noWait) == [req |-> req, res |-> res, noWait |-> noWait, waits |-> TRUE]
Sends(req) == [req |-> req, res |-> {}, noWait |-> FALSE, waits |-> FALSE]

open                   == Calls(channelOpen, {channelOpenOk}, FALSE)
Close                  == Calls(channelClose, {channelCloseOk}, FALSE)
Qos                    == Calls(basicQos, {basicQosOk}, FALSE)
Cancel                 == Calls(basicCancel, {basicCancelOk}, TRUE)
QueueDeclare           == Calls(queueDeclare, {queueDeclareOk}, TRUE)
QueueDeclarePassive    == Calls(queueDeclare, {queueDeclareOk}, TRUE)
QueueInspect           == Calls(queueDeclare, {queueDeclareOk}, FALSE)
QueueBind              == Calls(queueBind, {queueBindOk}, TRUE)
QueueUnbind            == Calls(queueUnbind, {queueUnbindOk}, FALSE)
QueuePurge             == Calls(queuePurge, {queuePurgeOk}, TRUE)
QueueDelete            == Calls(queueDelete, {queueDeleteOk}, TRUE)
Consume                == Calls(basicConsume, {basicConsumeOk}, TRUE)
ExchangeDeclare        == Calls(exchangeDeclare, {exchangeDeclareOk}, TRUE)
ExchangeDeclarePassive == Calls(exchangeDeclare, {exchangeDeclareOk}, TRUE)
ExchangeDelete         == Calls(exchangeDelete, {exchangeDeleteOk}, TRUE)
ExchangeBind           == Calls(exchangeBind, {exchangeBindOk}, TRUE)
ExchangeUnbind         == Calls(exchangeUnbind, {exchangeUnbindOk}, TRUE)
GetOrFail              == Calls(basicGet, {basicGetOk}, FALSE)
Get                    == Calls(basicGet, {basicGetOk, basicGetEmpty}, FALSE)
Tx                     == Calls(txSelect, {txSelectOk}, FALSE)
TxCommit               == Calls(txCommit, {txCommitOk}, FALSE)
TxRollback             == Calls(txRollback, {txRollbackOk}, FALSE)
Flow                   == Calls(channelFlow, {channelFlowOk}, FALSE)
Confirm                == Calls(confirmSelect, {confirmSelectOk}, TRUE)
Recover                == Calls(basicRecover, {basicRecoverOk}, FALSE)
Publish                == Sends(basicPublish)
Ack                    == Sends(basicAck)
Nack                   == Sends(basicNack)
Reject                 == Sends(basicReject)

AllCalls ==
  {open, Close, Qos, Cancel, QueueDeclare, QueueDeclarePassive, QueueInspect, QueueBind, QueueUnbind,
   QueuePurge, QueueDelete, Consume, ExchangeDeclare, ExchangeDeclarePassive, ExchangeDelete,
   ExchangeBind, ExchangeUnbind, Get, Tx, TxCommit, TxRollback, Flow, Confirm, Recover}
AllSends == {Publish, Ack, Nack, Reject}
ButConfirm == AllCalls \ {Confirm}

CONSTANTS
  Callers,    \* goroutines that use the channel
  Ops,        \* bound: caller -> the methods of Channel to choose from, call by call
  NoWaitOps,  \* the methods called with noWait = true, too
  MaxAsync    \* bound: messages the server sends of its own accord

(* As proc_box uses a channel: one goroutine at a time makes calls that    *)
(* wait, the others only send; Confirm is not called with noWait.          *)
RpcAssumption ==
  /\ Ops \in [Callers -> Seq(SUBSET (AllCalls \cup AllSends))]
  /\ NoWaitOps \subseteq ButConfirm
  /\ \A c, d \in Callers : c # d =>
       (\A i \in 1..Len(Ops[c]) : Ops[c][i] \subseteq AllSends)
       \/ (\A i \in 1..Len(Ops[d]) : Ops[d][i] \subseteq AllSends)

VARIABLES
  caller,     \* caller -> what it is doing: pc, op, its request's number, calls made
  requests,   \* under way to the server
  replies,    \* under way to the client
  closed,     \* shutdown ran: sends fail and the channel is not registered
  errors,     \* the channel `errors` holds one
  server,     \* the server's side: "open", "closing" (sent channel.close), "closed"
  asyncs,     \* messages sent by the server of its own accord
  serial,     \* number of the last request
  outcome,    \* how each request ended, for those that have
  stuck       \* the reader waits in closeWith for an answer only it could read

vars == <<caller, requests, replies, closed, errors, server, asyncs, serial, outcome, stuck>>

(* wait() as if it did not look at NoWait.                                 *)
WaitsAlways(op, noWait) == op.waits

Waits(op, noWait) ==
  op.waits /\ (op.req.wait = Always \/ (op.req.wait = Unless /\ ~noWait))

(* The server's answers.  In AMQP the answer's id follows its request's,   *)
(* but for exchange.unbind and basic.get.                                  *)
AnswersTo(req) ==
  IF req = basicGet THEN {basicGetOk, basicGetEmpty}
  ELSE IF req = exchangeUnbind THEN {exchangeUnbindOk}
  ELSE {Class[req.class][req.id + 1]}

Asynchronous == {basicDeliver, basicReturn, basicAck, basicNack, basicCancel, channelFlow}

Init ==
  /\ caller = [c \in Callers |-> [pc |-> "idle", op |-> open, serial |-> 0, calls |-> 0]]
  /\ requests = <<>> /\ replies = <<>>
  /\ closed = FALSE /\ errors = FALSE
  /\ server = "open"
  /\ asyncs = 0 /\ serial = 0
  /\ outcome = <<>>
  /\ stuck = FALSE

-----------------------------------------------------------------------------
(* The client. *)

(* After shutdown only close-ok is sent (sendClosed).                      *)
Send(msg) == requests' = IF closed /\ msg.req # channelCloseOk THEN requests ELSE Append(requests, msg)
Request(req, answered, n) == [req |-> req, answered |-> answered, serial |-> n]

Ends(n, how) ==
  outcome' = [k \in DOMAIN outcome \cup {n} |-> IF k = n THEN how ELSE outcome[k]]

(* Channel.m is held over the whole call of Confirm.  Other steps take and *)
(* leave it at once: shutdown, confimOne, confimMultiple.                  *)
Locks(c) == caller[c].pc = "wait" /\ caller[c].op = Confirm
Locked == \E c \in Callers : Locks(c)
TakesLock(msg) == msg \in {channelClose, basicAck, basicNack}

(* shutdown(nil) follows the call in Close, whatever it returned; only the *)
(* goroutine that is in Close makes calls that wait, and m is free.        *)
CloseIf(op) == closed' = (closed \/ op = Close)

Call(c, op, noWait) ==
  LET n == serial + 1 IN
  /\ caller[c].pc = "idle" /\ (op = Confirm => ~Locked)
  /\ serial' = n
  /\ Send(Request(op.req, op.waits /\ ~noWait, n))
  /\ IF ~closed /\ Waits(op, noWait)
     THEN /\ caller' = [caller EXCEPT ![c] = [pc |-> "wait", op |-> op, serial |-> n, calls |-> @.calls + 1]]
          /\ UNCHANGED <<outcome, closed>>
     ELSE /\ caller' = [caller EXCEPT ![c].calls = @ + 1]
          /\ Ends(n, IF closed THEN "ErrClosed" ELSE "sent")
          /\ CloseIf(op)
  /\ UNCHANGED <<replies, errors, server, asyncs, stuck>>

CallFails(c) ==
  /\ caller[c].pc = "wait" /\ errors
  /\ errors' = FALSE
  /\ caller' = [caller EXCEPT ![c].pc = "idle"]
  /\ Ends(caller[c].serial, "exception")
  /\ CloseIf(caller[c].op)
  /\ UNCHANGED <<requests, replies, server, asyncs, serial, stuck>>

(* dispatch, default branch: rpc is unbuffered, the reader waits for a     *)
(* caller; call compares the type with those it accepts.                   *)
Reply(c) ==
  LET r == Head(replies)
      how == IF r.msg \notin caller[c].op.res THEN "ErrCommandInvalid"
             ELSE IF r.serial = caller[c].serial THEN "answered" ELSE "answer to another request"
  IN
  /\ ~stuck /\ ~closed /\ replies # <<>> /\ r.msg \notin Asynchronous \cup {channelClose}
  /\ caller[c].pc = "wait"
  /\ replies' = Tail(replies)
  /\ caller' = [caller EXCEPT ![c].pc = "idle"]
  /\ Ends(caller[c].serial, how)
  /\ CloseIf(caller[c].op)
  /\ UNCHANGED <<requests, errors, server, asyncs, serial, stuck>>

(* channel.close: shutdown with the error, then close-ok.  A second        *)
(* shutdown does nothing.                                                  *)
ClosedWithoutError ==
  /\ ~stuck /\ ~closed /\ replies # <<>> /\ Head(replies).msg = channelClose /\ ~Locked
  /\ closed' = TRUE
  /\ requests' = Append(requests, Request(channelCloseOk, FALSE, 0))
  /\ replies' = Tail(replies)
  /\ UNCHANGED <<caller, errors, server, asyncs, serial, outcome, stuck>>

ClosedByServer ==
  /\ ~stuck /\ ~closed /\ replies # <<>> /\ Head(replies).msg = channelClose /\ ~Locked
  /\ closed' = TRUE /\ errors' = TRUE
  /\ requests' = Append(requests, Request(channelCloseOk, FALSE, 0))
  /\ replies' = Tail(replies)
  /\ UNCHANGED <<caller, server, asyncs, serial, outcome, stuck>>

(* flow and cancel are answered at once, the others go to listeners and    *)
(* consumers, which do not block here; confirmations wait for m.           *)
DispatchAsync ==
  LET m == Head(replies).msg IN
  /\ ~stuck /\ ~closed /\ replies # <<>> /\ m \in Asynchronous /\ (TakesLock(m) => ~Locked)
  /\ replies' = Tail(replies)
  /\ IF m = channelFlow THEN Send(Request(channelFlowOk, FALSE, 0))
     ELSE IF m = basicCancel THEN Send(Request(basicCancelOk, FALSE, 0))
     ELSE UNCHANGED requests
  /\ UNCHANGED <<caller, closed, errors, server, asyncs, serial, outcome, stuck>>

(* A frame for a channel that is no longer registered.                     *)
dispatchClosedStrict ==
  /\ ~stuck /\ closed /\ replies # <<>>
  /\ replies' = Tail(replies)
  /\ stuck' = (Head(replies).msg # channelClose)
  /\ requests' = IF stuck' THEN requests ELSE Append(requests, Request(channelCloseOk, FALSE, 0))
  /\ UNCHANGED <<caller, closed, errors, server, asyncs, serial, outcome>>

dispatchClosed ==
  LET m == Head(replies).msg IN
  /\ ~stuck /\ closed /\ replies # <<>>
  /\ replies' = Tail(replies)
  /\ requests' = IF m = channelClose THEN Append(requests, Request(channelCloseOk, FALSE, 0)) ELSE requests
  /\ stuck' = (m \notin {channelClose, channelCloseOk})
  /\ UNCHANGED <<caller, closed, errors, server, asyncs, serial, outcome>>

-----------------------------------------------------------------------------
(* The server. *)

Answering(msg, n) == replies' = Append(replies, [msg |-> msg, serial |-> n])

ServerAnswers ==
  LET r == Head(requests) IN
  /\ requests # <<>> /\ server = "open"
  /\ requests' = Tail(requests)
  /\ IF r.answered THEN \E m \in AnswersTo(r.req) : Answering(m, r.serial) ELSE UNCHANGED replies
  /\ server' = IF r.req = channelClose THEN "closed" ELSE "open"
  /\ UNCHANGED <<caller, closed, errors, asyncs, serial, outcome, stuck>>

(* A request that cannot be carried out closes the channel; until close-ok *)
(* comes back everything but a close is ignored.                           *)
ServerRefuses ==
  /\ requests # <<>> /\ server = "open" /\ Head(requests).serial # 0
  /\ Head(requests).req # channelClose
  /\ requests' = Tail(requests)
  /\ Answering(channelClose, 0)
  /\ server' = "closing"
  /\ UNCHANGED <<caller, closed, errors, asyncs, serial, outcome, stuck>>

ServerIgnores ==
  LET r == Head(requests) IN
  /\ requests # <<>> /\ server # "open"
  /\ requests' = Tail(requests)
  /\ server' = IF r.req \in {channelClose, channelCloseOk} THEN "closed" ELSE server
  /\ IF r.req = channelClose THEN Answering(channelCloseOk, r.serial) ELSE UNCHANGED replies
  /\ UNCHANGED <<caller, closed, errors, asyncs, serial, outcome, stuck>>

ServerSends(m) ==
  /\ server = "open" /\ asyncs < MaxAsync
  /\ asyncs' = asyncs + 1
  /\ Answering(m, 0)
  /\ UNCHANGED <<caller, requests, closed, errors, server, serial, outcome, stuck>>

-----------------------------------------------------------------------------
Reader == ClosedByServer \/ DispatchAsync \/ dispatchClosed \/ \E c \in Callers : Reply(c)
Server == ServerAnswers \/ ServerIgnores

CallSome(c) ==
  /\ caller[c].calls < Len(Ops[c])
  /\ \E op \in Ops[c][caller[c].calls + 1] : \E noWait \in {FALSE} \cup {op.noWait /\ op \in NoWaitOps} : Call(c, op, noWait)

Next ==
  \/ Reader \/ Server \/ ServerRefuses
  \/ \E m \in Asynchronous : ServerSends(m)
  \/ \E c \in Callers : CallSome(c) \/ CallFails(c)

Spec == Init /\ [][Next]_vars
FairSpec == Spec /\ WF_vars(Reader) /\ WF_vars(Server) /\ \A c \in Callers : WF_vars(CallFails(c))

-----------------------------------------------------------------------------
(* Requests and answers stay in step: a call that waits gets the answer to *)
(* its own request or the channel's exception, never another's answer and  *)
(* never one it does not accept.                                           *)
InStep == \A n \in DOMAIN outcome : outcome[n] \in {"answered", "sent", "exception", "ErrClosed"}

(* With a server that obeys the protocol the reader never meets a method   *)
(* on a closed channel, where it would call closeWith and wait for an      *)
(* answer that nobody else can read, also when both sides close at once.   *)
ReaderRuns == ~stuck

(* A Confirm in front of whose answer stands a refusal, or the             *)
(* confirmation of a publishing: the reader will wait for the mutex that   *)
(* the Confirm holds, and the Confirm for the reader.                      *)
Barred(c) ==
  Locks(c) /\ \E i \in DOMAIN replies :
    TakesLock(replies[i].msg) /\ \A k \in 1..(i - 1) : replies[k].serial # caller[c].serial

(* No call waits in vain, but for a Confirm that is barred: its request is *)
(* on its way to a server that will answer it, its answer is on its way    *)
(* back, the server's channel.close is, or shutdown has left an error that *)
(* nobody else took.                                                       *)
NobodyWaitsInVain ==
  \A c \in Callers : caller[c].pc = "wait" /\ ~Barred(c) =>
    IF closed THEN errors
    ELSE \/ server = "open" /\ \E i \in DOMAIN requests :
              requests[i].answered /\ requests[i].serial = caller[c].serial
         \/ \E i \in DOMAIN replies :
              replies[i].msg = channelClose \/ replies[i].serial = caller[c].serial

(* Every call returns, with its answer or with the error that closed the   *)
(* channel, unless it is a Confirm that is barred.                         *)
CallsReturn == \A c \in Callers : caller[c].pc = "wait" ~> caller[c].pc = "idle" \/ Barred(c)

(* Calls on a channel and the reader that serves them stay in step.        *)
RpcInStep == InStep /\ ReaderRuns /\ NobodyWaitsInVain
=============================================================================
