----------------------------- MODULE Listeners -----------------------------
(***************************************************************************)
(* The listeners of one AMQP channel (channel.go: NotifyClose, NotifyFlow, *)
(* NotifyReturn, NotifyCancel, NotifyConfirm, dispatch, shutdown).  Users  *)
(* register Go channels under the mutex m of the AMQP channel; the         *)
(* connection's reader sends to them, for acks and nacks holding m and for *)
(* the rest not; shutdown, which the reader, Close or a failed send starts, *)
(* closes them all.                                                        *)
(***************************************************************************)
EXTENDS Naturals, Sequences, SequencesExt, FiniteSets

CONSTANTS
  Registrations,  \* calls of Notify...: records, kind of listener -> Go channel
  Capacity,       \* of every Go channel
  MaxMessages     \* bound: messages dispatched

Kinds == {"close", "flow", "return", "cancel", "ack", "nack"}
Confirmations == {"ack", "nack"}
ChansOf(call) == {call[k] : k \in DOMAIN call}
Chans == UNION {ChansOf(call) : call \in Registrations}

ListenersAssumption ==
  /\ \A call \in Registrations : DOMAIN call = Confirmations \/ \E k \in Kinds : DOMAIN call = {k}
  /\ \A a, b \in Registrations : a # b => ChansOf(a) \cap ChansOf(b) = {}
  /\ Capacity \in Nat \ {0}

VARIABLES
  pending,      \* calls of Notify... still to come
  lists,        \* kind -> the Go channels registered for it
  mutex,        \* holder of m: "nobody", "reader", "shutdown"
  buffered,     \* Go channel -> what it holds
  closedChans,  \* Go channels that were closed
  heard,        \* history: Go channel -> what its receiver took
  owed,         \* history: Go channel -> messages dispatched while it was registered
  dispatching,  \* the reader: "read", "lock", "send", "shutdown"; its message, whom it is for
  count,        \* messages dispatched
  closeCall,    \* Channel.Close: "idle", "wait"
  ending,       \* shutdown: its progress, whether it has an error, who runs it, to whom next
  panicked

vars == <<pending, lists, mutex, buffered, closedChans, heard, owed, dispatching, count, closeCall,
          ending, panicked>>

Init ==
  /\ pending = Registrations
  /\ lists = [k \in Kinds |-> <<>>]
  /\ mutex = "nobody"
  /\ buffered = [c \in Chans |-> <<>>] /\ closedChans = {}
  /\ heard = [c \in Chans |-> <<>>] /\ owed = [c \in Chans |-> <<>>]
  /\ dispatching = [pc |-> "read", n |-> 0, to |-> <<>>]
  /\ count = 0 /\ closeCall = "idle"
  /\ ending = [pc |-> "none", err |-> FALSE, by |-> "nobody", to |-> <<>>]
  /\ panicked = "no"

Runs == panicked = "no"
Error == 0        \* what listeners of kind "close" are sent; messages count from 1
Owe(cs, n) == owed' = [c \in Chans |-> IF c \in cs THEN Append(owed[c], n) ELSE owed[c]]

HasRoom(c) == Len(buffered[c]) < Capacity
Put(c, n) == buffered' = [buffered EXCEPT ![c] = Append(@, n)]

-----------------------------------------------------------------------------
(* Users. *)

Register(call) ==
  lists' = [k \in Kinds |-> IF k \in DOMAIN call THEN Append(lists[k], call[k]) ELSE lists[k]]

(* After shutdown the Go channels are closed at once; NotifyConfirm closes *)
(* both, also when they are the same.                                      *)
Notify(call) ==
  /\ Runs /\ call \in pending /\ mutex = "nobody"
  /\ pending' = pending \ {call}
  /\ IF ending.pc = "done"
     THEN /\ closedChans' = closedChans \cup ChansOf(call)
          /\ panicked' = IF Cardinality(ChansOf(call)) < Cardinality(DOMAIN call) THEN "registering" ELSE "no"
          /\ UNCHANGED lists
     ELSE Register(call) /\ UNCHANGED <<closedChans, panicked>>
  /\ UNCHANGED <<mutex, buffered, heard, owed, dispatching, count, closeCall, ending>>

Receive(c) ==
  /\ Runs /\ buffered[c] # <<>>
  /\ heard' = [heard EXCEPT ![c] = Append(@, Head(buffered[c]))]
  /\ buffered' = [buffered EXCEPT ![c] = Tail(@)]
  /\ UNCHANGED <<pending, lists, mutex, closedChans, owed, dispatching, count, closeCall, ending, panicked>>

(* Close waits for close-ok; its shutdown follows (ReadCloseOk).           *)
Close ==
  /\ Runs /\ closeCall = "idle"
  /\ closeCall' = "wait"
  /\ UNCHANGED <<pending, lists, mutex, buffered, closedChans, heard, owed, dispatching, count, ending, panicked>>

-----------------------------------------------------------------------------
(* The reader of the connection. *)

Reads == Runs /\ dispatching.pc = "read" /\ ending.pc = "none"

Dispatch(kind) ==
  /\ Reads /\ count < MaxMessages
  /\ count' = count + 1
  /\ dispatching' = [pc |-> IF kind \in Confirmations THEN "lock" ELSE "send", n |-> count', to |-> lists[kind]]
  /\ Owe(Range(lists[kind]), count')
  /\ UNCHANGED <<pending, lists, mutex, buffered, closedChans, heard, closeCall, ending, panicked>>

confimLock ==
  /\ Runs /\ dispatching.pc = "lock" /\ mutex = "nobody"
  /\ mutex' = "reader"
  /\ dispatching' = [dispatching EXCEPT !.pc = "send"]
  /\ UNCHANGED <<pending, lists, buffered, closedChans, heard, owed, count, closeCall, ending, panicked>>

(* c <- m: waits for room, and panics once c is closed.                    *)
Sent == dispatching' = [dispatching EXCEPT !.to = Tail(@)]

SendOrDrop ==
  /\ Runs /\ dispatching.pc = "send" /\ dispatching.to # <<>>
  /\ LET c == Head(dispatching.to) IN
       IF HasRoom(c) THEN Put(c, dispatching.n) ELSE UNCHANGED buffered
  /\ Sent
  /\ UNCHANGED <<pending, lists, mutex, closedChans, heard, owed, count, closeCall, ending, panicked>>

Send ==
  /\ Runs /\ dispatching.pc = "send" /\ dispatching.to # <<>>
  /\ LET c == Head(dispatching.to) IN
       \/ c \in closedChans /\ panicked' = "sending" /\ UNCHANGED <<buffered, dispatching>>
       \/ c \notin closedChans /\ HasRoom(c) /\ Put(c, dispatching.n) /\ Sent /\ UNCHANGED panicked
  /\ UNCHANGED <<pending, lists, mutex, closedChans, heard, owed, count, closeCall, ending>>

(* confimOne and confimMultiple release m; flow and cancel are answered,   *)
(* which changes nothing here.                                             *)
Dispatched ==
  /\ Runs /\ dispatching.pc = "send" /\ dispatching.to = <<>>
  /\ dispatching' = [dispatching EXCEPT !.pc = "read"]
  /\ mutex' = IF mutex = "reader" THEN "nobody" ELSE mutex
  /\ UNCHANGED <<pending, lists, buffered, closedChans, heard, owed, count, closeCall, ending, panicked>>

-----------------------------------------------------------------------------
(* shutdown; destructor lets the first run only. *)

Begin(err, by) == ending' = [ending EXCEPT !.pc = "lock", !.err = err, !.by = by]

(* channel.close, connection.close, or the connection cannot be read.      *)
ReadClose ==
  /\ Reads
  /\ dispatching' = [dispatching EXCEPT !.pc = "shutdown"]
  /\ Begin(TRUE, "reader")
  /\ UNCHANGED <<pending, lists, mutex, buffered, closedChans, heard, owed, count, closeCall, panicked>>

(* The last message of the server on this channel.                         *)
ReadCloseOk ==
  /\ Reads /\ closeCall = "wait"
  /\ Begin(FALSE, "closer")
  /\ UNCHANGED <<pending, lists, mutex, buffered, closedChans, heard, owed, dispatching, count, closeCall, panicked>>

(* A send fails and starts `go shutdown` of the connection beside the      *)
(* reader; it takes the channel off the register first, where the reader   *)
(* finds it no more.                                                       *)
SendFails ==
  /\ Runs /\ ending.pc = "none"
  /\ Begin(TRUE, "sender")
  /\ UNCHANGED <<pending, lists, mutex, buffered, closedChans, heard, owed, dispatching, count, closeCall, panicked>>

Locked(pc, to) ==
  /\ Runs /\ ending.pc = "lock" /\ mutex = "nobody"
  /\ mutex' = "shutdown"
  /\ ending' = [ending EXCEPT !.pc = pc, !.to = to]
  /\ UNCHANGED <<pending, lists, buffered, closedChans, heard, dispatching, count, closeCall, panicked>>

LockSilently == Locked("closing", <<>>) /\ UNCHANGED owed

Lock ==
  \/ ending.err /\ Locked("broadcast", lists["close"]) /\ Owe(Range(lists["close"]), Error)
  \/ ~ending.err /\ Locked("closing", <<>>) /\ UNCHANGED owed

Broadcast ==
  /\ Runs /\ ending.pc = "broadcast"
  /\ \/ /\ ending.to # <<>> /\ HasRoom(Head(ending.to))
        /\ Put(Head(ending.to), Error)
        /\ ending' = [ending EXCEPT !.to = Tail(@)]
     \/ /\ ending.to = <<>>
        /\ ending' = [ending EXCEPT !.pc = "closing"]
        /\ UNCHANGED buffered
  /\ UNCHANGED <<pending, lists, mutex, closedChans, heard, owed, dispatching, count, closeCall, panicked>>

(* The Go channels in the order they are closed; the map `seen` leaves     *)
(* out those that were registered for acks and for nacks.                  *)
Others == lists["close"] \o lists["flow"] \o lists["return"] \o lists["cancel"]
AllRegistered == Others \o lists["ack"] \o lists["nack"]
ToClose == Others \o SetToSeq(Range(lists["ack"]) \cup Range(lists["nack"]))

CloseAll ==
  /\ Runs /\ ending.pc = "closing"
  /\ closedChans' = closedChans \cup Range(ToClose)
  /\ panicked' = IF IsInjective(ToClose) THEN "no" ELSE "closing"
  /\ ending' = [ending EXCEPT !.pc = "done"]
  /\ mutex' = "nobody"
  /\ UNCHANGED <<pending, lists, buffered, heard, owed, dispatching, count, closeCall>>

-----------------------------------------------------------------------------
Reading == confimLock \/ Send \/ Dispatched
Ending == Lock \/ Broadcast \/ CloseAll

Next ==
  \/ Reading \/ Ending \/ ReadClose \/ ReadCloseOk \/ SendFails \/ Close
  \/ \E kind \in Kinds \ {"close"} : Dispatch(kind)
  \/ \E call \in Registrations : Notify(call)
  \/ \E c \in Chans : Receive(c)

Spec == Init /\ [][Next]_vars

(* The goroutines run and every listener is received from, as the comments *)
(* of NotifyConfirm ask of users.                                          *)
FairSpec == Spec /\ WF_vars(Reading) /\ WF_vars(Ending) /\ \A c \in Chans : WF_vars(Receive(c))

-----------------------------------------------------------------------------
Received(c) == heard[c] \o buffered[c]

(* A listener is sent every message of its kind from its registration on,  *)
(* in order and once, although the lists grow meanwhile, Go channels are   *)
(* full and one may be listed for acks and nacks: what it got is what it   *)
(* is owed, but for what is on its way.                                    *)
HearsAll ==
  \A c \in Chans :
    /\ IsPrefix(Received(c), owed[c])
    /\ dispatching.pc \in {"read", "shutdown"} /\ ending.pc # "broadcast" /\ Runs => Received(c) = owed[c]

(* channel.go:412: a listener registered with NotifyClose is "closed when  *)
(* the Channel is closed and on a graceful close, no error will be sent";  *)
(* after any other end it has the error before it is closed, once.         *)
EndIsTold ==
  ending.pc = "done" => \A c \in Range(lists["close"]) :
    Received(c) = IF ending.err THEN <<Error>> ELSE <<>>

(* channel.go:119: shutdown does not close a Go channel twice, and nothing *)
(* is sent to one that was closed, but where a failed send shuts the       *)
(* channel down beside the reader (see README).                            *)
ShutdownIsSafe ==
  /\ panicked # "closing"
  /\ panicked = "sending" => ending.by = "sender"

(* Once the channel goes down every listener is closed, whenever it was    *)
(* registered, and stays so: nobody ranges over one for ever.              *)
AllClosed ==
  <>[](ending.pc = "none" \/ ~Runs \/ \A call \in Registrations \ pending : ChansOf(call) \subseteq closedChans)

(* What listeners are told before they are closed.                         *)
ListenersTold == HearsAll /\ EndIsTold /\ ShutdownIsSafe
=============================================================================
