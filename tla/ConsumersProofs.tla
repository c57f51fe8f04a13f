-------------------------- MODULE ConsumersProofs --------------------------
(***************************************************************************)
(* The buffers of consumers.go implement the queues of DeliveryQueues, for *)
(* every set of consumers and any number of deliveries.                    *)
(***************************************************************************)
EXTENDS Consumers, SequenceTheorems, TLAPS

Deliveries == 1..MaxSent
Buffers == [pc : {"none", "range", "select", "loop", "done"}, queue : Seq(Deliveries),
            hand : Seq(Deliveries), drain : BOOLEAN]

TypeOK ==
  /\ chans \subseteq Tags
  /\ offer = <<>> \/ offer \in Tags \X Deliveries
  /\ buffer \in [Tags -> Buffers]
  /\ inClosed \in [Tags -> BOOLEAN] /\ outClosed \in [Tags -> BOOLEAN]
  /\ sent \in 0..MaxSent

(* A delivery is in hand in the select only, and then nothing is queued;   *)
(* the queue is empty outside the loop.  The reader offers to tags that    *)
(* are open, as it holds the lock; a closed tag is not open, and `out` is  *)
(* closed at the end.                                                      *)
HoldsOne(t) ==
  /\ buffer[t].pc # "loop" => buffer[t].queue = <<>>
  /\ buffer[t].pc # "select" => buffer[t].hand = <<>>
  /\ buffer[t].pc = "select" => \E d \in Deliveries : buffer[t].hand = <<d>>

Closing(t) ==
  /\ inClosed[t] => t \notin chans /\ buffer[t].pc # "none"
  /\ buffer[t].pc = "none" => t \notin chans
  /\ outClosed[t] => buffer[t].pc = "done"

Inv ==
  /\ TypeOK
  /\ \A t \in Tags : HoldsOne(t) /\ Closing(t)
  /\ offer # <<>> => offer[1] \in chans

(* Nothing is held before the first consumer.                              *)
LEMMA InvInit == ConsumersAssumption /\ Init => Inv
  BY DEF ConsumersAssumption, Init, Inv, TypeOK, Buffers, HoldsOne, Closing

(* A step of one goroutine: the only buffer that changes is its own, and   *)
(* the only channel `out` it closes.                                       *)
GoesOn(t) ==
  /\ buffer'[t] \in Buffers
  /\ buffer' = [buffer EXCEPT ![t] = buffer'[t]]
  /\ UNCHANGED <<chans, inClosed, sent>>
  /\ offer' = offer \/ offer' = <<>>
  /\ outClosed' \in [Tags -> BOOLEAN]
  /\ \A u \in Tags \ {t} : outClosed'[u] = outClosed[u]

(* What holds of its own buffer afterwards, holds of all.                  *)
LEMMA BufferStep ==
  ASSUME Inv, NEW t \in Tags, GoesOn(t), HoldsOne(t)', Closing(t)'
  PROVE  Inv'
<1>0. \A u \in Tags \ {t} : buffer'[u] = buffer[u]
  BY DEF GoesOn, Inv, TypeOK
<1>1. TypeOK'
  <2>1. buffer' \in [Tags -> Buffers]
    BY DEF GoesOn, Inv, TypeOK
  <2>2. QED
    BY <2>1 DEF GoesOn, Inv, TypeOK
<1>2. ASSUME NEW u \in Tags, u # t
      PROVE  HoldsOne(u)' /\ Closing(u)'
  <2>1. buffer'[u] = buffer[u] /\ outClosed'[u] = outClosed[u]
    BY <1>0, <1>2 DEF GoesOn
  <2>2. HoldsOne(u) /\ Closing(u)
    BY DEF Inv
  <2>3. HoldsOne(u)'
    BY <2>1, <2>2 DEF HoldsOne, Deliveries
  <2>4. Closing(u)'
    BY <2>1, <2>2 DEF GoesOn, Closing
  <2>5. QED
    BY <2>3, <2>4
<1>3. offer' # <<>> => offer'[1] \in chans'
  BY DEF GoesOn, Inv
<1>4. QED
  BY <1>1, <1>2, <1>3 DEF Inv

(* Before add a tag's channels are open.                                   *)
LEMMA NoneIsOpen ==
  ASSUME Inv, NEW t \in Tags, buffer[t].pc = "none"
  PROVE  ~inClosed[t] /\ ~outClosed[t]
  BY DEF Inv, TypeOK, Closing

(* Every step keeps the invariant.                                         *)
LEMMA InvStep == ConsumersAssumption /\ Inv /\ [Next]_vars => Inv'
<1> SUFFICES ASSUME ConsumersAssumption, Inv, [Next]_vars
             PROVE  Inv'
  OBVIOUS
<1>1. ASSUME NEW t \in Tags, add(t)
      PROVE  Inv'
  <2>0. /\ buffer[t] \in Buffers /\ HoldsOne(t) /\ Closing(t)
        /\ buffer \in [Tags -> Buffers]
    BY DEF Inv, TypeOK
  <2>1. buffer'[t] = [buffer[t] EXCEPT !.pc = "range"]
    BY <1>1, <2>0 DEF add, Buffer
  <2>2. buffer'[t] \in Buffers /\ buffer' \in [Tags -> Buffers]
    BY <1>1, <2>0, <2>1 DEF add, Buffer, Buffers
  <2>3. TypeOK'
    BY <1>1, <2>2 DEF add, Inv, TypeOK
  <2>4. ASSUME NEW u \in Tags
        PROVE  HoldsOne(u)' /\ Closing(u)'
    <3>1. CASE u = t
      <4>1. HoldsOne(t)'
        BY <1>1, <2>0, <2>1 DEF add, HoldsOne, Buffers
      <4>2. ~inClosed[t] /\ ~outClosed[t]
        BY <1>1, NoneIsOpen DEF add
      <4>3. Closing(t)'
        BY <1>1, <2>0, <2>1, <4>2 DEF add, Closing, Buffers
      <4>4. QED
        BY <3>1, <4>1, <4>3
    <3>2. CASE u # t
      <4>1. buffer'[u] = buffer[u] /\ HoldsOne(u) /\ Closing(u)
        BY <1>1, <2>0, <3>2 DEF add, Buffer, Inv
      <4>2. QED
        BY <1>1, <3>2, <4>1 DEF add, HoldsOne, Closing, Deliveries
    <3>3. QED
      BY <3>1, <3>2
  <2>5. QED
    BY <1>1, <2>3, <2>4 DEF add, Inv
<1>2. ASSUME NEW t \in Tags, close(t)
      PROVE  Inv'
  BY <1>2 DEF close, Unlocked, Inv, TypeOK, HoldsOne, Closing, Deliveries
<1>3. CASE closeAll
  BY <1>3 DEF closeAll, Unlocked, Inv, TypeOK, HoldsOne, Closing, Deliveries
<1>4. ASSUME NEW t \in Tags, send(t)
      PROVE  Inv'
  BY <1>4 DEF send, Unlocked, Inv, TypeOK, HoldsOne, Closing, Deliveries, ConsumersAssumption
<1>5. ASSUME NEW t \in Tags, bufferDeliveries(t)
      PROVE  Inv'
  <2>0. /\ buffer[t] \in Buffers /\ HoldsOne(t) /\ Closing(t)
        /\ outClosed \in [Tags -> BOOLEAN]
        /\ buffer \in [Tags -> Buffers]
    BY DEF Inv, TypeOK
  <2>1. CASE RangeReceive(t)
    <3>0. offer[2] \in Deliveries /\ <<offer[2]>> \in Seq(Deliveries)
      BY <2>1 DEF RangeReceive, Offered, Inv, TypeOK
    <3>1. buffer'[t] = [buffer[t] EXCEPT !.pc = "select", !.hand = <<offer[2]>>]
      BY <2>0, <2>1 DEF RangeReceive, Buffer
    <3>2. GoesOn(t)
      <4>1. buffer'[t] \in Buffers
        BY <2>0, <3>0, <3>1 DEF Buffers
      <4>2. QED
        BY <2>0, <2>1, <3>1, <4>1 DEF RangeReceive, Buffer, GoesOn
    <3>3. HoldsOne(t)'
      BY <2>0, <2>1, <3>0, <3>1 DEF RangeReceive, HoldsOne, Buffers
    <3>4. Closing(t)'
      BY <2>0, <2>1, <3>1 DEF RangeReceive, Closing, Buffers
    <3>5. QED
      BY <3>2, <3>3, <3>4, BufferStep
  <2>2. CASE RangeEnd(t)
    <3>1. buffer'[t] = [buffer[t] EXCEPT !.pc = "done"]
      BY <2>0, <2>2 DEF RangeEnd, Buffer
    <3>2. GoesOn(t)
      <4>1. buffer'[t] \in Buffers
        BY <2>0, <3>1 DEF Buffers
      <4>2. QED
        BY <2>0, <2>2, <3>1, <4>1 DEF RangeEnd, Buffer, GoesOn
    <3>3. HoldsOne(t)'
      BY <2>0, <2>2, <3>1 DEF RangeEnd, HoldsOne, Buffers
    <3>4. Closing(t)'
      BY <2>0, <2>2, <3>1 DEF RangeEnd, Closing, Buffers
    <3>5. QED
      BY <3>2, <3>3, <3>4, BufferStep
  <2>3. CASE SelectOut(t)
    <3>0. <<>> \in Seq(Deliveries)
      OBVIOUS
    <3>1. buffer'[t] = [buffer[t] EXCEPT !.pc = "loop", !.hand = <<>>]
      BY <2>0, <2>3 DEF SelectOut, Buffer
    <3>2. GoesOn(t)
      <4>1. buffer'[t] \in Buffers
        BY <2>0, <3>0, <3>1 DEF Buffers
      <4>2. QED
        BY <2>0, <2>3, <3>1, <4>1 DEF SelectOut, Buffer, GoesOn
    <3>3. HoldsOne(t)'
      BY <2>0, <2>3, <3>1 DEF SelectOut, HoldsOne, Buffers
    <3>4. Closing(t)'
      BY <2>0, <2>3, <3>1 DEF SelectOut, Closing, Buffers
    <3>5. QED
      BY <3>2, <3>3, <3>4, BufferStep
  <2>4. CASE SelectDefault(t)
    <3>0. buffer[t].queue \o buffer[t].hand \in Seq(Deliveries) /\ <<>> \in Seq(Deliveries)
      BY <2>0 DEF Buffers
    <3>1. buffer'[t] = [buffer[t] EXCEPT !.pc = "loop", !.queue = buffer[t].queue \o buffer[t].hand, !.hand = <<>>]
      BY <2>0, <2>4 DEF SelectDefault, Buffer
    <3>2. GoesOn(t)
      <4>1. buffer'[t] \in Buffers
        BY <2>0, <3>0, <3>1 DEF Buffers
      <4>2. QED
        BY <2>0, <2>4, <3>1, <4>1 DEF SelectDefault, Buffer, GoesOn
    <3>3. HoldsOne(t)'
      BY <2>0, <2>4, <3>0, <3>1 DEF SelectDefault, HoldsOne, Buffers
    <3>4. Closing(t)'
      BY <2>0, <2>4, <3>1 DEF SelectDefault, Closing, Buffers
    <3>5. QED
      BY <3>2, <3>3, <3>4, BufferStep
  <2>5. CASE LoopOut(t)
    <3>0. Tail(buffer[t].queue) \in Seq(Deliveries)
      BY <2>0, <2>5 DEF LoopOut, Buffers
    <3>1. buffer'[t] = [buffer[t] EXCEPT !.queue = Tail(buffer[t].queue)]
      BY <2>0, <2>5 DEF LoopOut, Buffer
    <3>2. GoesOn(t)
      <4>1. buffer'[t] \in Buffers
        BY <2>0, <3>0, <3>1 DEF Buffers
      <4>2. QED
        BY <2>0, <2>5, <3>1, <4>1 DEF LoopOut, Buffer, GoesOn
    <3>3. HoldsOne(t)'
      BY <2>0, <2>5, <3>0, <3>1 DEF LoopOut, HoldsOne, Buffers
    <3>4. Closing(t)'
      BY <2>0, <2>5, <3>1 DEF LoopOut, Closing, Buffers
    <3>5. QED
      BY <3>2, <3>3, <3>4, BufferStep
  <2>6. CASE LoopIn(t)
    <3>0. Append(buffer[t].queue, offer[2]) \in Seq(Deliveries)
      BY <2>0, <2>6 DEF LoopIn, Offered, Inv, TypeOK, Buffers
    <3>1. buffer'[t] = [buffer[t] EXCEPT !.queue = Append(buffer[t].queue, offer[2])]
      BY <2>0, <2>6 DEF LoopIn, Buffer
    <3>2. GoesOn(t)
      <4>1. buffer'[t] \in Buffers
        BY <2>0, <3>0, <3>1 DEF Buffers
      <4>2. QED
        BY <2>0, <2>6, <3>1, <4>1 DEF LoopIn, Buffer, GoesOn
    <3>3. HoldsOne(t)'
      BY <2>0, <2>6, <3>0, <3>1 DEF LoopIn, HoldsOne, Buffers
    <3>4. Closing(t)'
      BY <2>0, <2>6, <3>1 DEF LoopIn, Closing, Buffers
    <3>5. QED
      BY <3>2, <3>3, <3>4, BufferStep
  <2>7. CASE LoopClosed(t)
    <3>1. buffer'[t] = [buffer[t] EXCEPT !.drain = TRUE]
      BY <2>0, <2>7 DEF LoopClosed, Buffer
    <3>2. GoesOn(t)
      <4>1. buffer'[t] \in Buffers
        BY <2>0, <3>1 DEF Buffers
      <4>2. QED
        BY <2>0, <2>7, <3>1, <4>1 DEF LoopClosed, Buffer, GoesOn
    <3>3. HoldsOne(t)'
      BY <2>0, <2>7, <3>1 DEF LoopClosed, HoldsOne, Buffers
    <3>4. Closing(t)'
      BY <2>0, <2>7, <3>1 DEF LoopClosed, Closing, Buffers
    <3>5. QED
      BY <3>2, <3>3, <3>4, BufferStep
  <2>8. CASE LoopEnd(t)
    <3>1. buffer'[t] = [buffer[t] EXCEPT !.pc = "range"]
      BY <2>0, <2>8 DEF LoopEnd, Buffer
    <3>2. GoesOn(t)
      <4>1. buffer'[t] \in Buffers
        BY <2>0, <3>1 DEF Buffers
      <4>2. QED
        BY <2>0, <2>8, <3>1, <4>1 DEF LoopEnd, Buffer, GoesOn
    <3>3. HoldsOne(t)'
      BY <2>0, <2>8, <3>1 DEF LoopEnd, HoldsOne, Buffers
    <3>4. Closing(t)'
      BY <2>0, <2>8, <3>1 DEF LoopEnd, Closing, Buffers
    <3>5. QED
      BY <3>2, <3>3, <3>4, BufferStep
  <2>9. QED
    BY <1>5, <2>1, <2>2, <2>3, <2>4, <2>5, <2>6, <2>7, <2>8 DEF bufferDeliveries
<1>6. ASSUME NEW t \in Tags, Wait(t)
      PROVE  Inv'
  BY <1>6 DEF Wait, Inv, TypeOK, HoldsOne, Closing, Deliveries
<1>7. CASE UNCHANGED vars
  BY <1>7 DEF vars, Inv, TypeOK, HoldsOne, Closing, Deliveries
<1>8. QED
  BY <1>1, <1>2, <1>3, <1>4, <1>5, <1>6, <1>7 DEF Next

(* A step that changes one buffer changes one queue, to what that buffer   *)
(* holds afterwards.                                                       *)
LEMMA QueueStep ==
  ASSUME Inv, NEW t \in Tags, NEW b, buffer' = [buffer EXCEPT ![t] = b]
  PROVE  queueOf' = [queueOf EXCEPT ![t] = b.queue \o b.hand]
  BY DEF Inv, TypeOK, queueOf

(* Every step of reader, buffer and consumer is one of the queues, or none.*)
LEMMA StepSimulated == Inv /\ [Next]_vars => [Queues!Next]_<<chans, queueOf, outClosed>>
<1> SUFFICES ASSUME Inv, [Next]_vars
             PROVE  Queues!Next \/ UNCHANGED <<chans, queueOf, outClosed>>
  OBVIOUS
<1>1. ASSUME NEW t \in Tags, add(t)
      PROVE  Queues!Open(t)
  <2>1. queueOf[t] = <<>> /\ t \notin chans /\ ~outClosed[t]
    BY <1>1 DEF add, Inv, TypeOK, HoldsOne, Closing, queueOf
  <2>3. queueOf' = queueOf
    BY <1>1 DEF add, Buffer, queueOf, Inv, TypeOK, Buffers
  <2>4. QED
    BY <1>1, <2>1, <2>3 DEF add, Queues!Open
<1>2. ASSUME NEW t \in Tags, close(t)
      PROVE  Queues!Close({t})
  <2>3. queueOf' = queueOf
    BY <1>2 DEF close, queueOf
  <2>4. QED
    BY <1>2, <2>3 DEF close, Queues!Close
<1>3. CASE closeAll
  <2>1. Queues!Close(Tags)
    <3>1. chans \ Tags = {}
      BY DEF Inv, TypeOK
    <3>2. QED
      BY <1>3, <3>1 DEF closeAll, Queues!Close, queueOf
  <2>2. QED
    BY <2>1 DEF Queues!Next
<1>4. ASSUME NEW t \in Tags, send(t) \/ Wait(t)
      PROVE  UNCHANGED <<chans, queueOf, outClosed>>
  <2>1. UNCHANGED <<chans, buffer, outClosed>>
    BY <1>4 DEF send, Wait
  <2>2. QED
    BY <2>1 DEF queueOf
<1>5. ASSUME NEW t \in Tags, bufferDeliveries(t)
      PROVE  Queues!Next \/ UNCHANGED <<chans, queueOf, outClosed>>
  <2>000. chans' = chans
    BY <1>5 DEF bufferDeliveries, RangeReceive, RangeEnd, SelectOut, SelectDefault,
       LoopOut, LoopIn, LoopClosed, LoopEnd
  <2>0. /\ buffer[t] \in Buffers /\ HoldsOne(t) /\ Closing(t) /\ chans' = chans
        /\ queueOf[t] = buffer[t].queue \o buffer[t].hand
        /\ buffer \in [Tags -> Buffers]
    BY <2>000 DEF Inv, TypeOK, queueOf
  <2>00. \A s \in Seq(Deliveries) : <<>> \o s = s /\ s \o <<>> = s
    BY ConcatEmptySeq
  <2>1. CASE RangeReceive(t)
    <3>1. offer[2] \in Deliveries /\ t \in chans
      BY <2>1 DEF RangeReceive, Offered, Inv, TypeOK
    <3>2. queueOf[t] = <<>> /\ <<>> \o <<offer[2]>> = Append(<<>>, offer[2])
      BY <2>0, <2>00, <2>1, <3>1 DEF RangeReceive, HoldsOne, Buffers
    <3>3. queueOf' = [queueOf EXCEPT ![t] = Append(queueOf[t], offer[2])]
      <4> DEFINE b == [buffer[t] EXCEPT !.pc = "select", !.hand = <<offer[2]>>]
      <4>1. b.queue = <<>> /\ b.hand = <<offer[2]>>
        BY <2>0, <2>1 DEF RangeReceive, HoldsOne, Buffers
      <4>2. buffer' = [buffer EXCEPT ![t] = b]
        BY <2>1 DEF RangeReceive, Buffer
      <4> HIDE DEF b
      <4>3. queueOf' = [queueOf EXCEPT ![t] = b.queue \o b.hand]
        BY <4>2, QueueStep
      <4>4. QED
        BY <3>2, <4>1, <4>3
    <3>4. Queues!Deliver(t, offer[2])
      BY <2>0, <2>1, <3>1, <3>3 DEF RangeReceive, Queues!Deliver
    <3>5. QED
      BY <3>1, <3>4 DEF Queues!Next, Deliveries
  <2>2. CASE RangeEnd(t)
    <3>1. queueOf[t] = <<>> /\ t \notin chans /\ ~outClosed[t]
      BY <2>0, <2>00, <2>2 DEF RangeEnd, HoldsOne, Closing, Buffers
    <3>2. queueOf' = queueOf
      BY <2>0, <2>2 DEF RangeEnd, Buffer, queueOf, Buffers
    <3>3. Queues!End(t)
      BY <2>0, <2>2, <3>1, <3>2 DEF RangeEnd, Queues!End
    <3>4. QED
      BY <3>3 DEF Queues!Next
  <2>3. CASE SelectOut(t)
    <3>1. PICK d \in Deliveries : buffer[t].hand = <<d>>
      BY <2>0, <2>3 DEF SelectOut, HoldsOne
    <3>2. buffer[t].queue = <<>> /\ queueOf[t] = <<d>>
      <4>1. <<d>> \in Seq(Deliveries) /\ buffer[t].queue = <<>>
        BY <2>0, <2>3, <3>1 DEF SelectOut, HoldsOne
      <4>2. <<>> \o <<d>> = <<d>>
        BY <2>00, <4>1
      <4>3. QED
        BY <2>0, <3>1, <4>1, <4>2
    <3>3. Tail(<<d>>) = <<>> /\ <<>> \o <<>> = <<>> /\ <<d>> # <<>>
      BY <2>00
    <3>4. queueOf' = [queueOf EXCEPT ![t] = <<>>]
      <4> DEFINE b == [buffer[t] EXCEPT !.pc = "loop", !.hand = <<>>]
      <4>1. b.queue = <<>> /\ b.hand = <<>>
        BY <2>0, <3>2 DEF Buffers
      <4>2. buffer' = [buffer EXCEPT ![t] = b]
        BY <2>3 DEF SelectOut, Buffer
      <4> HIDE DEF b
      <4>3. queueOf' = [queueOf EXCEPT ![t] = b.queue \o b.hand]
        BY <4>2, QueueStep
      <4>4. QED
        BY <3>3, <4>1, <4>3
    <3>5. Queues!Take(t)
      BY <2>0, <2>3, <3>2, <3>3, <3>4 DEF SelectOut, Queues!Take
    <3>6. QED
      BY <3>5 DEF Queues!Next
  <2>4. CASE SelectDefault(t)
    <3>1. buffer[t].queue \o buffer[t].hand \in Seq(Deliveries)
      BY <2>0 DEF Buffers
    <3>2. queueOf' = [queueOf EXCEPT ![t] = (buffer[t].queue \o buffer[t].hand) \o <<>>]
      BY <2>0, <2>4, QueueStep DEF SelectDefault, Buffer, Buffers
    <3>3. queueOf' = queueOf
      BY <2>0, <2>00, <3>1, <3>2 DEF queueOf
    <3>4. QED
      BY <2>0, <2>4, <3>3 DEF SelectDefault
  <2>5. CASE LoopOut(t)
    <3>1. buffer[t].hand = <<>> /\ queueOf[t] = buffer[t].queue /\ buffer[t].queue # <<>>
      BY <2>0, <2>00, <2>5 DEF LoopOut, HoldsOne, Buffers
    <3>2. Tail(buffer[t].queue) \in Seq(Deliveries)
      BY <2>0, <3>1 DEF Buffers
    <3>3. queueOf' = [queueOf EXCEPT ![t] = Tail(buffer[t].queue) \o <<>>]
      BY <2>0, <2>5, <3>1, QueueStep DEF LoopOut, Buffer, Buffers
    <3>4. Queues!Take(t)
      BY <2>0, <2>00, <2>5, <3>1, <3>2, <3>3 DEF LoopOut, Queues!Take
    <3>5. QED
      BY <3>4 DEF Queues!Next
  <2>6. CASE LoopIn(t)
    <3>1. offer[2] \in Deliveries /\ t \in chans
      BY <2>6 DEF LoopIn, Offered, Inv, TypeOK
    <3>2. buffer[t].hand = <<>> /\ queueOf[t] = buffer[t].queue
      BY <2>0, <2>00, <2>6 DEF LoopIn, HoldsOne, Buffers
    <3>3. Append(buffer[t].queue, offer[2]) \in Seq(Deliveries)
      BY <2>0, <3>1 DEF Buffers
    <3>4. queueOf' = [queueOf EXCEPT ![t] = Append(buffer[t].queue, offer[2]) \o <<>>]
      BY <2>0, <2>6, <3>2, QueueStep DEF LoopIn, Buffer, Buffers
    <3>5. Queues!Deliver(t, offer[2])
      BY <2>0, <2>00, <2>6, <3>1, <3>2, <3>3, <3>4 DEF LoopIn, Queues!Deliver
    <3>6. QED
      BY <3>1, <3>5 DEF Queues!Next, Deliveries
  <2>7. CASE LoopClosed(t) \/ LoopEnd(t)
    <3>1. queueOf' = queueOf
      BY <2>0, <2>7 DEF LoopClosed, LoopEnd, Buffer, queueOf, Buffers
    <3>2. QED
      BY <2>0, <2>7, <3>1 DEF LoopClosed, LoopEnd
  <2>8. QED
    BY <1>5, <2>1, <2>2, <2>3, <2>4, <2>5, <2>6, <2>7 DEF bufferDeliveries
<1>6. CASE UNCHANGED vars
  BY <1>6 DEF vars, queueOf
<1>7. QED
  BY <1>1, <1>2, <1>3, <1>4, <1>5, <1>6 DEF Next, Queues!Next

(* For every set of consumers: what bufferDeliveries does is what an       *)
(* unbounded queue does (consumers.go:34).                                 *)
THEOREM BuffersAreQueues ==
  ASSUME ConsumersAssumption
  PROVE  Spec => IsDeliveryQueues
<1>1. Init => Queues!Init
  <2>1. <<>> \o <<>> = <<>>
    BY ConcatEmptySeq
  <2>3. Init => queueOf = [t \in Tags |-> <<>>]
    BY <2>1 DEF Init, queueOf
  <2>4. QED
    BY <2>3 DEF Init, Queues!Init
<1>2. QED
  BY <1>1, InvInit, InvStep, StepSimulated, PTL DEF Spec, IsDeliveryQueues, Queues!Spec
=============================================================================
