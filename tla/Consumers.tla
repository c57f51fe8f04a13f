----------------------------- MODULE Consumers -----------------------------
(***************************************************************************)
(* consumers.go of the vendored AMQP client.  The connection's reader      *)
(* sends a delivery under the lock of `consumers` on the unbuffered        *)
(* channel of its tag; the goroutine bufferDeliveries of that tag takes it *)
(* and passes it on to the consumer (in proc_box, handle), keeping a queue *)
(* when the consumer is not waiting.                                       *)
(***************************************************************************)
EXTENDS Naturals, Sequences

CONSTANTS
  Tags,        \* consumer tags
  MaxSent      \* bound: deliveries in one behaviour

VARIABLES
  chans,       \* the tags that have an entry in consumers.chans
  offer,       \* reader in send, holding the lock: <<tag, delivery>>, or <<>>
  buffer,      \* tag -> its goroutine bufferDeliveries
  inClosed,    \* tag -> is the channel `in` closed
  outClosed,   \* tag -> is the channel `out` closed
  waiting,     \* tag -> is its consumer blocked in a receive from `out`
  sent,        \* number of deliveries so far; it names them
  got          \* tag -> deliveries its consumer received

vars == <<chans, offer, buffer, inClosed, outClosed, waiting, sent, got>>

ConsumersAssumption == MaxSent \in Nat

(* pc: "none" before add; "range" receiving from `in`; "select" with a     *)
(* delivery in hand; "loop" emptying the queue; "done".                    *)
(* drain: queueIn has been set to nil.                                     *)
Init ==
  /\ chans = {}
  /\ offer = <<>>
  /\ buffer = [t \in Tags |-> [pc |-> "none", queue |-> <<>>, hand |-> <<>>, drain |-> FALSE]]
  /\ inClosed = [t \in Tags |-> FALSE]
  /\ outClosed = [t \in Tags |-> FALSE]
  /\ waiting = [t \in Tags |-> FALSE]
  /\ sent = 0
  /\ got = [t \in Tags |-> <<>>]

Buffer(t, change) == buffer' = [buffer EXCEPT ![t] = change]
Receives(t, d) ==
  /\ waiting[t]
  /\ waiting' = [waiting EXCEPT ![t] = FALSE]
  /\ got' = [got EXCEPT ![t] = Append(@, d)]

-----------------------------------------------------------------------------
(* The operations of consumers; all of them take its lock. *)

Unlocked == offer = <<>>

(* Consume adds a tag once: proc_box uses one tag per channel.             *)
add(t) ==
  /\ Unlocked /\ buffer[t].pc = "none"
  /\ chans' = chans \cup {t}
  /\ Buffer(t, [buffer[t] EXCEPT !.pc = "range"])
  /\ UNCHANGED <<offer, inClosed, outClosed, waiting, sent, got>>

close(t) ==
  /\ Unlocked /\ t \in chans
  /\ chans' = chans \ {t}
  /\ inClosed' = [inClosed EXCEPT ![t] = TRUE]
  /\ UNCHANGED <<offer, buffer, outClosed, waiting, sent, got>>

closeAll ==
  /\ Unlocked /\ chans # {}
  /\ inClosed' = [t \in Tags |-> inClosed[t] \/ t \in chans]
  /\ chans' = {}
  /\ UNCHANGED <<offer, buffer, outClosed, waiting, sent, got>>

(* A delivery for a tag that is gone is dropped.                           *)
send(t) ==
  /\ Unlocked /\ sent < MaxSent
  /\ sent' = sent + 1
  /\ offer' = IF t \in chans THEN <<t, sent + 1>> ELSE <<>>
  /\ UNCHANGED <<chans, buffer, inClosed, outClosed, waiting, got>>

-----------------------------------------------------------------------------
(* bufferDeliveries *)

Offered(t) == offer # <<>> /\ offer[1] = t

RangeReceive(t) ==
  /\ buffer[t].pc = "range" /\ Offered(t)
  /\ Buffer(t, [buffer[t] EXCEPT !.pc = "select", !.hand = <<offer[2]>>])
  /\ offer' = <<>>
  /\ UNCHANGED <<chans, inClosed, outClosed, waiting, sent, got>>

RangeEnd(t) ==
  /\ buffer[t].pc = "range" /\ inClosed[t]
  /\ Buffer(t, [buffer[t] EXCEPT !.pc = "done"])
  /\ outClosed' = [outClosed EXCEPT ![t] = TRUE]
  /\ UNCHANGED <<chans, offer, inClosed, waiting, sent, got>>

SelectOut(t) ==
  /\ buffer[t].pc = "select"
  /\ Receives(t, buffer[t].hand[1])
  /\ Buffer(t, [buffer[t] EXCEPT !.pc = "loop", !.hand = <<>>])
  /\ UNCHANGED <<chans, offer, inClosed, outClosed, sent>>

SelectBlocks(t) == FALSE /\ UNCHANGED vars
SelectDefault(t) ==
  /\ buffer[t].pc = "select" /\ ~waiting[t]
  /\ Buffer(t, [buffer[t] EXCEPT !.pc = "loop", !.queue = @ \o buffer[t].hand, !.hand = <<>>])
  /\ UNCHANGED <<chans, offer, inClosed, outClosed, waiting, sent, got>>

LoopOut(t) ==
  /\ buffer[t].pc = "loop" /\ buffer[t].queue # <<>>
  /\ Receives(t, Head(buffer[t].queue))
  /\ Buffer(t, [buffer[t] EXCEPT !.queue = Tail(@)])
  /\ UNCHANGED <<chans, offer, inClosed, outClosed, sent>>

LoopIn(t) ==
  /\ buffer[t].pc = "loop" /\ buffer[t].queue # <<>> /\ ~buffer[t].drain
  /\ Offered(t)
  /\ Buffer(t, [buffer[t] EXCEPT !.queue = Append(@, offer[2])])
  /\ offer' = <<>>
  /\ UNCHANGED <<chans, inClosed, outClosed, waiting, sent, got>>

LoopClosedEnds(t) ==
  /\ buffer[t].pc = "loop" /\ buffer[t].queue # <<>> /\ ~buffer[t].drain
  /\ inClosed[t]
  /\ Buffer(t, [buffer[t] EXCEPT !.drain = TRUE, !.queue = <<>>])
  /\ UNCHANGED <<chans, offer, inClosed, outClosed, waiting, sent, got>>

LoopClosed(t) ==
  /\ buffer[t].pc = "loop" /\ buffer[t].queue # <<>> /\ ~buffer[t].drain
  /\ inClosed[t]
  /\ Buffer(t, [buffer[t] EXCEPT !.drain = TRUE])
  /\ UNCHANGED <<chans, offer, inClosed, outClosed, waiting, sent, got>>

LoopEnd(t) ==
  /\ buffer[t].pc = "loop" /\ buffer[t].queue = <<>>
  /\ Buffer(t, [buffer[t] EXCEPT !.pc = "range"])
  /\ UNCHANGED <<chans, offer, inClosed, outClosed, waiting, sent, got>>

bufferDeliveries(t) ==
  \/ RangeReceive(t) \/ RangeEnd(t) \/ SelectOut(t) \/ SelectDefault(t)
  \/ LoopOut(t) \/ LoopIn(t) \/ LoopClosed(t) \/ LoopEnd(t)

-----------------------------------------------------------------------------
(* The consumer comes back for the next delivery, or never does.           *)
Wait(t) ==
  /\ buffer[t].pc # "none" /\ ~waiting[t] /\ ~outClosed[t]
  /\ waiting' = [waiting EXCEPT ![t] = TRUE]
  /\ UNCHANGED <<chans, offer, buffer, inClosed, outClosed, sent, got>>

Next ==
  \/ closeAll
  \/ \E t \in Tags : add(t) \/ close(t) \/ send(t) \/ bufferDeliveries(t) \/ Wait(t)

Spec == Init /\ [][Next]_vars
FairSpec == Spec /\ \A t \in Tags : WF_vars(bufferDeliveries(t))

-----------------------------------------------------------------------------
(* Channel.Consume's queue of deliveries: what bufferDeliveries has taken  *)
(* and not passed on.  A delivery still in the reader's hands is not yet   *)
(* delivered, and a tag is closed when its channel `in` is.                *)
queueOf == [t \in Tags |-> buffer[t].queue \o buffer[t].hand]

Queues == INSTANCE DeliveryQueues
  WITH Deliveries <- 1..MaxSent, open <- chans, queue <- queueOf, ended <- outClosed

(* The buffers implement unbounded queues: nothing is lost, doubled or     *)
(* reordered between the reader and the consumer, and a closed queue is    *)
(* drained before the consumer sees its end.                               *)
IsDeliveryQueues == Queues!Spec

(* A consumer that is slow, or never comes back (handle blocked on a       *)
(* channel that monitor left), never keeps the connection's reader.        *)
ReaderNeverStuck == \A t \in Tags : Offered(t) ~> ~Offered(t)
=============================================================================
