---------------------------- MODULE ClientProofs ----------------------------
(***************************************************************************)
(* Proofs about the parts of MCClient, for every value of its constants    *)
(* that meets the assumptions of the modules.                              *)
(***************************************************************************)
EXTENDS MCClient, FiniteSetTheorems, SequenceTheorems, TLAPS

-----------------------------------------------------------------------------
(* Calls on a channel and their answers *)

(* What a method is known by, and what the tables of parseMethodFrame make *)
(* of the ids of its class.                                                *)
Is(m, class, id, wait) == m.class = class /\ m.id = id /\ m.wait = wait

LEMMA ChannelMethods ==
  /\ Is(Rpc!channelOpen, 20, 10, Rpc!Always)
  /\ Is(Rpc!channelOpenOk, 20, 11, Rpc!Always)
  /\ Is(Rpc!channelFlow, 20, 20, Rpc!Always)
  /\ Is(Rpc!channelFlowOk, 20, 21, Rpc!Never)
  /\ Is(Rpc!channelClose, 20, 40, Rpc!Always)
  /\ Is(Rpc!channelCloseOk, 20, 41, Rpc!Always)
  /\ Rpc!Class[20][11] = Rpc!channelOpenOk
  /\ Rpc!Class[20][21] = Rpc!channelFlowOk
  /\ Rpc!Class[20][41] = Rpc!channelCloseOk
<1>1. /\ Is(Rpc!channelOpen, 20, 10, Rpc!Always)
      /\ Is(Rpc!channelOpenOk, 20, 11, Rpc!Always)
      /\ Is(Rpc!channelFlow, 20, 20, Rpc!Always)
      /\ Is(Rpc!channelFlowOk, 20, 21, Rpc!Never)
      /\ Is(Rpc!channelClose, 20, 40, Rpc!Always)
      /\ Is(Rpc!channelCloseOk, 20, 41, Rpc!Always)
  BY DEF Is, Rpc!Method, Rpc!channelOpen, Rpc!channelOpenOk, Rpc!channelFlow,
    Rpc!channelFlowOk, Rpc!channelClose, Rpc!channelCloseOk
<1>2. Rpc!Class[20] = Rpc!channelClass
  BY DEF Rpc!Class
<1>3. /\ Rpc!channelClass[11] = Rpc!channelOpenOk
      /\ Rpc!channelClass[21] = Rpc!channelFlowOk
      /\ Rpc!channelClass[41] = Rpc!channelCloseOk
  BY DEF Rpc!channelClass
<1>4. QED
  BY <1>1, <1>2, <1>3

LEMMA ExchangeMethods ==
  /\ Is(Rpc!exchangeDeclare, 40, 10, Rpc!Unless)
  /\ Is(Rpc!exchangeDeclareOk, 40, 11, Rpc!Always)
  /\ Is(Rpc!exchangeDelete, 40, 20, Rpc!Unless)
  /\ Is(Rpc!exchangeDeleteOk, 40, 21, Rpc!Always)
  /\ Is(Rpc!exchangeBind, 40, 30, Rpc!Unless)
  /\ Is(Rpc!exchangeBindOk, 40, 31, Rpc!Always)
  /\ Is(Rpc!exchangeUnbind, 40, 40, Rpc!Unless)
  /\ Is(Rpc!exchangeUnbindOk, 40, 51, Rpc!Always)
  /\ Rpc!Class[40][11] = Rpc!exchangeDeclareOk
  /\ Rpc!Class[40][21] = Rpc!exchangeDeleteOk
  /\ Rpc!Class[40][31] = Rpc!exchangeBindOk
<1>1. /\ Is(Rpc!exchangeDeclare, 40, 10, Rpc!Unless)
      /\ Is(Rpc!exchangeDeclareOk, 40, 11, Rpc!Always)
      /\ Is(Rpc!exchangeDelete, 40, 20, Rpc!Unless)
      /\ Is(Rpc!exchangeDeleteOk, 40, 21, Rpc!Always)
      /\ Is(Rpc!exchangeBind, 40, 30, Rpc!Unless)
      /\ Is(Rpc!exchangeBindOk, 40, 31, Rpc!Always)
      /\ Is(Rpc!exchangeUnbind, 40, 40, Rpc!Unless)
      /\ Is(Rpc!exchangeUnbindOk, 40, 51, Rpc!Always)
  BY DEF Is, Rpc!Method, Rpc!exchangeDeclare, Rpc!exchangeDeclareOk, Rpc!exchangeDelete,
    Rpc!exchangeDeleteOk, Rpc!exchangeBind, Rpc!exchangeBindOk, Rpc!exchangeUnbind,
    Rpc!exchangeUnbindOk
<1>2. Rpc!Class[40] = Rpc!exchangeClass
  BY DEF Rpc!Class
<1>3. /\ Rpc!exchangeClass[11] = Rpc!exchangeDeclareOk
      /\ Rpc!exchangeClass[21] = Rpc!exchangeDeleteOk
      /\ Rpc!exchangeClass[31] = Rpc!exchangeBindOk
  BY DEF Rpc!exchangeClass
<1>4. QED
  BY <1>1, <1>2, <1>3

LEMMA QueueMethods ==
  /\ Is(Rpc!queueDeclare, 50, 10, Rpc!Unless)
  /\ Is(Rpc!queueDeclareOk, 50, 11, Rpc!Always)
  /\ Is(Rpc!queueBind, 50, 20, Rpc!Unless)
  /\ Is(Rpc!queueBindOk, 50, 21, Rpc!Always)
  /\ Is(Rpc!queueUnbind, 50, 50, Rpc!Always)
  /\ Is(Rpc!queueUnbindOk, 50, 51, Rpc!Always)
  /\ Is(Rpc!queuePurge, 50, 30, Rpc!Unless)
  /\ Is(Rpc!queuePurgeOk, 50, 31, Rpc!Always)
  /\ Is(Rpc!queueDelete, 50, 40, Rpc!Unless)
  /\ Is(Rpc!queueDeleteOk, 50, 41, Rpc!Always)
  /\ Rpc!Class[50][11] = Rpc!queueDeclareOk
  /\ Rpc!Class[50][21] = Rpc!queueBindOk
  /\ Rpc!Class[50][51] = Rpc!queueUnbindOk
  /\ Rpc!Class[50][31] = Rpc!queuePurgeOk
  /\ Rpc!Class[50][41] = Rpc!queueDeleteOk
<1>1. /\ Is(Rpc!queueDeclare, 50, 10, Rpc!Unless)
      /\ Is(Rpc!queueDeclareOk, 50, 11, Rpc!Always)
      /\ Is(Rpc!queueBind, 50, 20, Rpc!Unless)
      /\ Is(Rpc!queueBindOk, 50, 21, Rpc!Always)
      /\ Is(Rpc!queueUnbind, 50, 50, Rpc!Always)
      /\ Is(Rpc!queueUnbindOk, 50, 51, Rpc!Always)
      /\ Is(Rpc!queuePurge, 50, 30, Rpc!Unless)
      /\ Is(Rpc!queuePurgeOk, 50, 31, Rpc!Always)
      /\ Is(Rpc!queueDelete, 50, 40, Rpc!Unless)
      /\ Is(Rpc!queueDeleteOk, 50, 41, Rpc!Always)
  BY DEF Is, Rpc!Method, Rpc!queueDeclare, Rpc!queueDeclareOk, Rpc!queueBind,
    Rpc!queueBindOk, Rpc!queueUnbind, Rpc!queueUnbindOk, Rpc!queuePurge, Rpc!queuePurgeOk,
    Rpc!queueDelete, Rpc!queueDeleteOk
<1>2. Rpc!Class[50] = Rpc!queueClass
  BY DEF Rpc!Class
<1>3. /\ Rpc!queueClass[11] = Rpc!queueDeclareOk
      /\ Rpc!queueClass[21] = Rpc!queueBindOk
      /\ Rpc!queueClass[51] = Rpc!queueUnbindOk
      /\ Rpc!queueClass[31] = Rpc!queuePurgeOk
      /\ Rpc!queueClass[41] = Rpc!queueDeleteOk
  BY DEF Rpc!queueClass
<1>4. QED
  BY <1>1, <1>2, <1>3

LEMMA BasicMethods ==
  /\ Is(Rpc!basicQos, 60, 10, Rpc!Always)
  /\ Is(Rpc!basicQosOk, 60, 11, Rpc!Always)
  /\ Is(Rpc!basicConsume, 60, 20, Rpc!Unless)
  /\ Is(Rpc!basicConsumeOk, 60, 21, Rpc!Always)
  /\ Is(Rpc!basicCancel, 60, 30, Rpc!Unless)
  /\ Is(Rpc!basicCancelOk, 60, 31, Rpc!Always)
  /\ Is(Rpc!basicPublish, 60, 40, Rpc!Never)
  /\ Is(Rpc!basicReturn, 60, 50, Rpc!Never)
  /\ Is(Rpc!basicDeliver, 60, 60, Rpc!Never)
  /\ Is(Rpc!basicGet, 60, 70, Rpc!Always)
  /\ Is(Rpc!basicGetOk, 60, 71, Rpc!Always)
  /\ Is(Rpc!basicGetEmpty, 60, 72, Rpc!Always)
  /\ Is(Rpc!basicAck, 60, 80, Rpc!Never)
  /\ Is(Rpc!basicReject, 60, 90, Rpc!Never)
  /\ Is(Rpc!basicRecover, 60, 110, Rpc!Always)
  /\ Is(Rpc!basicRecoverOk, 60, 111, Rpc!Always)
  /\ Is(Rpc!basicNack, 60, 120, Rpc!Never)
  /\ Rpc!Class[60][11] = Rpc!basicQosOk
  /\ Rpc!Class[60][21] = Rpc!basicConsumeOk
  /\ Rpc!Class[60][31] = Rpc!basicCancelOk
  /\ Rpc!Class[60][71] = Rpc!basicGetOk
  /\ Rpc!Class[60][111] = Rpc!basicRecoverOk
<1>1. /\ Is(Rpc!basicQos, 60, 10, Rpc!Always)
      /\ Is(Rpc!basicQosOk, 60, 11, Rpc!Always)
      /\ Is(Rpc!basicConsume, 60, 20, Rpc!Unless)
      /\ Is(Rpc!basicConsumeOk, 60, 21, Rpc!Always)
      /\ Is(Rpc!basicCancel, 60, 30, Rpc!Unless)
      /\ Is(Rpc!basicCancelOk, 60, 31, Rpc!Always)
      /\ Is(Rpc!basicPublish, 60, 40, Rpc!Never)
      /\ Is(Rpc!basicReturn, 60, 50, Rpc!Never)
      /\ Is(Rpc!basicDeliver, 60, 60, Rpc!Never)
      /\ Is(Rpc!basicGet, 60, 70, Rpc!Always)
      /\ Is(Rpc!basicGetOk, 60, 71, Rpc!Always)
      /\ Is(Rpc!basicGetEmpty, 60, 72, Rpc!Always)
      /\ Is(Rpc!basicAck, 60, 80, Rpc!Never)
      /\ Is(Rpc!basicReject, 60, 90, Rpc!Never)
      /\ Is(Rpc!basicRecover, 60, 110, Rpc!Always)
      /\ Is(Rpc!basicRecoverOk, 60, 111, Rpc!Always)
      /\ Is(Rpc!basicNack, 60, 120, Rpc!Never)
  BY DEF Is, Rpc!Method, Rpc!ContentMethod, Rpc!basicQos, Rpc!basicQosOk, Rpc!basicConsume,
    Rpc!basicConsumeOk, Rpc!basicCancel, Rpc!basicCancelOk, Rpc!basicPublish, Rpc!basicReturn,
    Rpc!basicDeliver, Rpc!basicGet, Rpc!basicGetOk, Rpc!basicGetEmpty, Rpc!basicAck,
    Rpc!basicReject, Rpc!basicRecover, Rpc!basicRecoverOk, Rpc!basicNack
<1>2. Rpc!Class[60] = Rpc!basicClass
  BY DEF Rpc!Class
<1>3. /\ Rpc!basicClass[11] = Rpc!basicQosOk
      /\ Rpc!basicClass[21] = Rpc!basicConsumeOk
      /\ Rpc!basicClass[31] = Rpc!basicCancelOk
      /\ Rpc!basicClass[71] = Rpc!basicGetOk
      /\ Rpc!basicClass[111] = Rpc!basicRecoverOk
  BY DEF Rpc!basicClass
<1>4. QED
  BY <1>1, <1>2, <1>3

LEMMA TxMethods ==
  /\ Is(Rpc!txSelect, 90, 10, Rpc!Always)
  /\ Is(Rpc!txSelectOk, 90, 11, Rpc!Always)
  /\ Is(Rpc!txCommit, 90, 20, Rpc!Always)
  /\ Is(Rpc!txCommitOk, 90, 21, Rpc!Always)
  /\ Is(Rpc!txRollback, 90, 30, Rpc!Always)
  /\ Is(Rpc!txRollbackOk, 90, 31, Rpc!Always)
  /\ Rpc!Class[90][11] = Rpc!txSelectOk
  /\ Rpc!Class[90][21] = Rpc!txCommitOk
  /\ Rpc!Class[90][31] = Rpc!txRollbackOk
<1>1. /\ Is(Rpc!txSelect, 90, 10, Rpc!Always)
      /\ Is(Rpc!txSelectOk, 90, 11, Rpc!Always)
      /\ Is(Rpc!txCommit, 90, 20, Rpc!Always)
      /\ Is(Rpc!txCommitOk, 90, 21, Rpc!Always)
      /\ Is(Rpc!txRollback, 90, 30, Rpc!Always)
      /\ Is(Rpc!txRollbackOk, 90, 31, Rpc!Always)
  BY DEF Is, Rpc!Method, Rpc!txSelect, Rpc!txSelectOk, Rpc!txCommit, Rpc!txCommitOk,
    Rpc!txRollback, Rpc!txRollbackOk
<1>2. Rpc!Class[90] = Rpc!txClass
  BY DEF Rpc!Class
<1>3. /\ Rpc!txClass[11] = Rpc!txSelectOk
      /\ Rpc!txClass[21] = Rpc!txCommitOk
      /\ Rpc!txClass[31] = Rpc!txRollbackOk
  BY DEF Rpc!txClass
<1>4. QED
  BY <1>1, <1>2, <1>3

LEMMA ConfirmMethods ==
  /\ Is(Rpc!confirmSelect, 85, 10, Rpc!Always)
  /\ Is(Rpc!confirmSelectOk, 85, 11, Rpc!Always)
  /\ Rpc!Class[85][11] = Rpc!confirmSelectOk
<1>1. /\ Is(Rpc!confirmSelect, 85, 10, Rpc!Always)
      /\ Is(Rpc!confirmSelectOk, 85, 11, Rpc!Always)
  BY DEF Is, Rpc!Method, Rpc!confirmSelect, Rpc!confirmSelectOk
<1>2. Rpc!Class[85] = Rpc!confirmClass
  BY DEF Rpc!Class
<1>3. /\ Rpc!confirmClass[11] = Rpc!confirmSelectOk
  BY DEF Rpc!confirmClass
<1>4. QED
  BY <1>1, <1>2, <1>3

(* What keeps calls and answers in step, method by method: every call is   *)
(* answered, the answer is one that it accepts and that does not go past   *)
(* the caller, and what is sent with noWait does not wait.                 *)
Answerable(op) ==
  /\ op.waits = TRUE /\ op.noWait \in BOOLEAN /\ op.req.wait \in {Rpc!Always, Rpc!Unless}
  /\ op.noWait /\ op # Rpc!Confirm => op.req.wait = Rpc!Unless
  /\ \A m \in Rpc!AnswersTo(op.req) : m \in op.res /\ m \notin Rpc!Asynchronous \cup {Rpc!channelClose}
  /\ op.req # Rpc!channelCloseOk
  /\ op.req = Rpc!channelClose <=> op = Rpc!Close
  /\ op = Rpc!Close => ~op.noWait /\ op.res = {Rpc!channelCloseOk}
  /\ op # Rpc!Close => Rpc!channelCloseOk \notin Rpc!AnswersTo(op.req)

LEMMA CallsAreAnswerable == \A op \in Rpc!AllCalls : Answerable(op)
<1> USE ChannelMethods, ExchangeMethods, QueueMethods, BasicMethods, TxMethods, ConfirmMethods
<1>0. Rpc!Close.req = Rpc!channelClose
  BY DEF Rpc!Close, Rpc!Calls
<1>1. Answerable(Rpc!open)
  BY <1>0 DEF Is, Answerable, Rpc!open, Rpc!Calls, Rpc!AnswersTo, Rpc!Asynchronous
<1>2. Answerable(Rpc!Close)
  BY <1>0 DEF Is, Answerable, Rpc!Close, Rpc!Calls, Rpc!AnswersTo, Rpc!Asynchronous
<1>3. Answerable(Rpc!Qos)
  BY <1>0 DEF Is, Answerable, Rpc!Qos, Rpc!Calls, Rpc!AnswersTo, Rpc!Asynchronous
<1>4. Answerable(Rpc!Cancel)
  BY <1>0 DEF Is, Answerable, Rpc!Cancel, Rpc!Calls, Rpc!AnswersTo, Rpc!Asynchronous
<1>5. Answerable(Rpc!QueueDeclare)
  BY <1>0 DEF Is, Answerable, Rpc!QueueDeclare, Rpc!Calls, Rpc!AnswersTo, Rpc!Asynchronous
<1>6. Answerable(Rpc!QueueDeclarePassive)
  BY <1>0 DEF Is, Answerable, Rpc!QueueDeclarePassive, Rpc!Calls, Rpc!AnswersTo, Rpc!Asynchronous
<1>7. Answerable(Rpc!QueueInspect)
  BY <1>0 DEF Is, Answerable, Rpc!QueueInspect, Rpc!Calls, Rpc!AnswersTo, Rpc!Asynchronous
<1>8. Answerable(Rpc!QueueBind)
  BY <1>0 DEF Is, Answerable, Rpc!QueueBind, Rpc!Calls, Rpc!AnswersTo, Rpc!Asynchronous
<1>9. Answerable(Rpc!QueueUnbind)
  BY <1>0 DEF Is, Answerable, Rpc!QueueUnbind, Rpc!Calls, Rpc!AnswersTo, Rpc!Asynchronous
<1>10. Answerable(Rpc!QueuePurge)
  BY <1>0 DEF Is, Answerable, Rpc!QueuePurge, Rpc!Calls, Rpc!AnswersTo, Rpc!Asynchronous
<1>11. Answerable(Rpc!QueueDelete)
  BY <1>0 DEF Is, Answerable, Rpc!QueueDelete, Rpc!Calls, Rpc!AnswersTo, Rpc!Asynchronous
<1>12. Answerable(Rpc!Consume)
  BY <1>0 DEF Is, Answerable, Rpc!Consume, Rpc!Calls, Rpc!AnswersTo, Rpc!Asynchronous
<1>13. Answerable(Rpc!ExchangeDeclare)
  BY <1>0 DEF Is, Answerable, Rpc!ExchangeDeclare, Rpc!Calls, Rpc!AnswersTo, Rpc!Asynchronous
<1>14. Answerable(Rpc!ExchangeDeclarePassive)
  BY <1>0 DEF Is, Answerable, Rpc!ExchangeDeclarePassive, Rpc!Calls, Rpc!AnswersTo, Rpc!Asynchronous
<1>15. Answerable(Rpc!ExchangeDelete)
  BY <1>0 DEF Is, Answerable, Rpc!ExchangeDelete, Rpc!Calls, Rpc!AnswersTo, Rpc!Asynchronous
<1>16. Answerable(Rpc!ExchangeBind)
  BY <1>0 DEF Is, Answerable, Rpc!ExchangeBind, Rpc!Calls, Rpc!AnswersTo, Rpc!Asynchronous
<1>17. Answerable(Rpc!ExchangeUnbind)
  BY <1>0 DEF Is, Answerable, Rpc!ExchangeUnbind, Rpc!Calls, Rpc!AnswersTo, Rpc!Asynchronous
<1>18. Answerable(Rpc!Get)
  BY <1>0 DEF Is, Answerable, Rpc!Get, Rpc!Calls, Rpc!AnswersTo, Rpc!Asynchronous
<1>19. Answerable(Rpc!Tx)
  BY <1>0 DEF Is, Answerable, Rpc!Tx, Rpc!Calls, Rpc!AnswersTo, Rpc!Asynchronous
<1>20. Answerable(Rpc!TxCommit)
  BY <1>0 DEF Is, Answerable, Rpc!TxCommit, Rpc!Calls, Rpc!AnswersTo, Rpc!Asynchronous
<1>21. Answerable(Rpc!TxRollback)
  BY <1>0 DEF Is, Answerable, Rpc!TxRollback, Rpc!Calls, Rpc!AnswersTo, Rpc!Asynchronous
<1>22. Answerable(Rpc!Flow)
  BY <1>0 DEF Is, Answerable, Rpc!Flow, Rpc!Calls, Rpc!AnswersTo, Rpc!Asynchronous
<1>23. Answerable(Rpc!Confirm)
  BY <1>0 DEF Is, Answerable, Rpc!Confirm, Rpc!Calls, Rpc!AnswersTo, Rpc!Asynchronous
<1>24. Answerable(Rpc!Recover)
  BY <1>0 DEF Is, Answerable, Rpc!Recover, Rpc!Calls, Rpc!AnswersTo, Rpc!Asynchronous
<1>25. QED
  BY <1>1, <1>2, <1>3, <1>4, <1>5, <1>6, <1>7, <1>8, <1>9, <1>10, <1>11, <1>12, <1>13, <1>14,
    <1>15, <1>16, <1>17, <1>18, <1>19, <1>20, <1>21, <1>22, <1>23, <1>24 DEF Rpc!AllCalls

LEMMA SendsAreNotAnswered ==
  \A op \in Rpc!AllSends :
    op.waits = FALSE /\ op.noWait = FALSE /\ op.req \notin {Rpc!channelClose, Rpc!channelCloseOk} /\ op # Rpc!Close
<1> USE ChannelMethods, BasicMethods
<1>0. Rpc!Close.waits = TRUE
  BY DEF Rpc!Close, Rpc!Calls
<1>1. \A op \in Rpc!AllSends : op.waits = FALSE /\ op.noWait = FALSE
  BY DEF Rpc!AllSends, Rpc!Publish, Rpc!Ack, Rpc!Nack, Rpc!Reject, Rpc!Sends
<1>2. \A op \in Rpc!AllSends : op.req \in {Rpc!basicPublish, Rpc!basicAck, Rpc!basicNack, Rpc!basicReject}
  BY DEF Rpc!AllSends, Rpc!Publish, Rpc!Ack, Rpc!Nack, Rpc!Reject, Rpc!Sends
<1>3. QED
  BY <1>0, <1>1, <1>2 DEF Is

(* A queue and its places after something was appended and after the head  *)
(* was taken.                                                              *)
LEMMA Appended ==
  ASSUME NEW S, NEW q \in Seq(S), NEW x \in S
  PROVE  /\ Append(q, x) \in Seq(S)
         /\ \A i \in DOMAIN Append(q, x) :
              IF i \in DOMAIN q THEN Append(q, x)[i] = q[i] /\ i < Len(q) + 1
                                ELSE Append(q, x)[i] = x /\ i = Len(q) + 1
         /\ \A i \in DOMAIN q : i \in DOMAIN Append(q, x) /\ ~(Len(q) + 1 < i)
         /\ ~(Len(q) + 1 < Len(q) + 1)
<1> DEFINE n == Len(q)
           a == Append(q, x)
<1>1. n \in Nat /\ DOMAIN q = 1..n /\ a \in Seq(S) /\ DOMAIN a = 1..(n+1)
  OBVIOUS
<1>2. \A i \in 1..n : a[i] = q[i]
  OBVIOUS
<1>3. a[n+1] = x
  OBVIOUS
<1> HIDE DEF n, a
<1>4. \A i \in 1..(n+1) : (i \in 1..n /\ i < n + 1) \/ (i \notin 1..n /\ i = n + 1)
  BY <1>1
<1>5. (\A i \in 1..n : i \in 1..(n+1) /\ ~(n + 1 < i)) /\ ~(n + 1 < n + 1)
  BY <1>1
<1>6. QED
  BY <1>1, <1>2, <1>3, <1>4, <1>5 DEF n, a

LEMMA HeadTaken ==
  ASSUME NEW S, NEW q \in Seq(S), q # <<>>
  PROVE  /\ Head(q) = q[1] /\ 1 \in DOMAIN q /\ Head(q) \in S /\ Tail(q) \in Seq(S)
         /\ \A i \in DOMAIN Tail(q) : i + 1 \in DOMAIN q /\ 1 < i + 1 /\ 1 # i + 1 /\ Tail(q)[i] = q[i+1]
         /\ \A i, j \in DOMAIN Tail(q) : /\ i < j => i + 1 < j + 1
                                         /\ i + 1 = j + 1 => i = j
<1> DEFINE n == Len(q)
           t == Tail(q)
<1>1. n \in Nat /\ n # 0 /\ DOMAIN q = 1..n /\ t \in Seq(S) /\ DOMAIN t = 1..(n-1)
  OBVIOUS
<1>2. \A i \in 1..(n-1) : t[i] = q[i+1]
  OBVIOUS
<1>3. Head(q) = q[1] /\ q[1] \in S
  OBVIOUS
<1> HIDE DEF n, t
<1>4. 1 \in 1..n /\ \A i \in 1..(n-1) : i \in Nat /\ i + 1 \in 1..n /\ 1 < i + 1 /\ 1 # i + 1
  BY <1>1
<1>5. \A i, j \in Nat : (i < j => i + 1 < j + 1) /\ (i + 1 = j + 1 => i = j)
  OBVIOUS
<1>6. QED
  BY <1>1, <1>2, <1>3, <1>4, <1>5 DEF n, t

(* What is appended to a queue and taken from its head leaves the rest.    *)
LEMMA AppendedKeeps ==
  ASSUME NEW S, NEW q \in Seq(S), NEW x
  PROVE  /\ \A i \in DOMAIN q : i \in DOMAIN Append(q, x) /\ Append(q, x)[i] = q[i]
         /\ \E i \in DOMAIN Append(q, x) : Append(q, x)[i] = x
<1>1. q \in Seq(S \cup {x}) /\ Len(q) \in Nat /\ DOMAIN q = 1..Len(q)
  OBVIOUS
<1>2. DOMAIN Append(q, x) = 1..(Len(q) + 1) /\ Append(q, x)[Len(q) + 1] = x
  BY <1>1
<1>3. \A i \in DOMAIN q : Append(q, x)[i] = q[i]
  BY <1>1
<1>4. QED
  BY <1>1, <1>2, <1>3

LEMMA TailKeeps ==
  ASSUME NEW S, NEW q \in Seq(S), q # <<>>, NEW i \in DOMAIN q, q[i] # Head(q)
  PROVE  \E j \in DOMAIN Tail(q) : Tail(q)[j] = q[i]
<1>1. Len(q) \in Nat /\ DOMAIN q = 1..Len(q) /\ DOMAIN Tail(q) = 1..(Len(q) - 1) /\ Head(q) = q[1]
  OBVIOUS
<1>2. \A j \in 1..(Len(q) - 1) : Tail(q)[j] = q[j + 1]
  OBVIOUS
<1>3. i # 1
  BY <1>1
<1>4. i - 1 \in 1..(Len(q) - 1) /\ (i - 1) + 1 = i
  BY <1>1, <1>3
<1>5. Tail(q)[i - 1] = q[i]
  BY <1>2, <1>4
<1>6. QED
  BY <1>1, <1>4, <1>5

(* The methods on the wire, either way.                                    *)
Asked == {op.req : op \in Rpc!AllCalls \cup Rpc!AllSends}
Answered == UNION {Rpc!AnswersTo(op.req) : op \in Rpc!AllCalls}
Known ==
  Asked \cup Answered
  \cup Rpc!Asynchronous \cup {Rpc!channelClose, Rpc!channelCloseOk, Rpc!channelFlowOk, Rpc!basicCancelOk}

Closings == {Rpc!channelClose, Rpc!channelCloseOk}
Requests == [req : Known, answered : BOOLEAN, serial : Nat]
Replies == [msg : Known, serial : Nat]
IsAnswer(r) == r.msg \notin Rpc!Asynchronous \cup {Rpc!channelClose}

RpcTypeOK ==
  /\ caller \in [Callers -> [pc : {"idle", "wait"}, op : Rpc!AllCalls \cup Rpc!AllSends,
                             serial : Nat, calls : Nat]]
  /\ requests \in Seq(Requests) /\ replies \in Seq(Replies)
  /\ closed \in BOOLEAN /\ errors \in BOOLEAN /\ stuck = FALSE /\ serial \in Nat

(* The channel ends: what follows the first closing method on its way to   *)
(* the client are closing methods, and the client closes no channel that   *)
(* is open on the server's side.                                           *)
EndsInOrder ==
  /\ errors => closed
  /\ closed => server # "open"
  /\ server = "open" => \A i \in DOMAIN replies : replies[i].msg \notin Closings
  /\ closed => \A i \in DOMAIN replies : replies[i].msg \in Closings
  /\ \A i, j \in DOMAIN replies : i < j /\ replies[i].msg \in Closings => replies[j].msg \in Closings

(* While the channel is open a request that will be answered, or its       *)
(* answer, is the only one, and it is that of the caller who waits.        *)
Speaks(c) == \E i \in 1..Len(Ops[c]) : ~(Ops[c][i] \subseteq Rpc!AllSends)
Waiting(c, n) == caller[c].pc = "wait" /\ caller[c].serial = n
Asks(r) == r.answered
Awaited(r) == \E c \in Callers : Waiting(c, r.serial) /\ caller[c].op.req = r.req
Welcome(r) == \E c \in Callers : Waiting(c, r.serial) /\ r.msg \in caller[c].op.res

WhoWaits == \A c \in Callers : caller[c].pc = "wait" => Speaks(c) /\ caller[c].op \in Rpc!AllCalls

OneAtATime ==
  /\ \A i \in DOMAIN requests : requests[i].req = Rpc!channelClose => Asks(requests[i])
  /\ ~closed =>
       /\ \A i \in DOMAIN requests : Asks(requests[i]) => Awaited(requests[i])
       /\ \A i \in DOMAIN replies : IsAnswer(replies[i]) => Welcome(replies[i])
       /\ \A i, j \in DOMAIN requests : Asks(requests[i]) /\ Asks(requests[j]) => i = j
       /\ \A i, j \in DOMAIN replies : IsAnswer(replies[i]) /\ IsAnswer(replies[j]) => i = j
       /\ \A i \in DOMAIN requests, j \in DOMAIN replies : ~(Asks(requests[i]) /\ IsAnswer(replies[j]))

RpcInv == RpcTypeOK /\ EndsInOrder /\ WhoWaits /\ OneAtATime /\ Rpc!InStep

LEMMA RpcInit == Init => RpcInv
<1> SUFFICES ASSUME Init PROVE RpcInv
  OBVIOUS
<1>1. Rpc!Init
  BY Zenon DEF Init
<1>2. /\ caller = [c \in Callers |-> [pc |-> "idle", op |-> Rpc!open, serial |-> 0, calls |-> 0]]
      /\ requests = <<>> /\ replies = <<>> /\ closed = FALSE /\ errors = FALSE /\ server = "open"
      /\ serial = 0 /\ outcome = <<>> /\ stuck = FALSE
  BY <1>1 DEF Rpc!Init
<1>3. RpcTypeOK
  <2>1. Rpc!open \in Rpc!AllCalls \cup Rpc!AllSends
    BY DEF Rpc!AllCalls
  <2>2. caller \in [Callers -> [pc : {"idle", "wait"}, op : Rpc!AllCalls \cup Rpc!AllSends,
                                serial : Nat, calls : Nat]]
    BY <1>2, <2>1
  <2>3. requests \in Seq(Requests) /\ replies \in Seq(Replies)
    BY <1>2
  <2>4. QED
    BY <1>2, <2>2, <2>3, Zenon DEF RpcTypeOK
<1>4. DOMAIN requests = {} /\ DOMAIN replies = {} /\ DOMAIN outcome = {}
  BY <1>2
<1>5. EndsInOrder /\ Rpc!InStep /\ OneAtATime
  BY <1>2, <1>4 DEF EndsInOrder, Rpc!InStep, OneAtATime
<1>6. WhoWaits
  BY <1>2 DEF WhoWaits
<1>7. QED
  BY <1>3, <1>5, <1>6 DEF RpcInv

LEMMA EndedInStep ==
  ASSUME Rpc!InStep, NEW n, NEW how \in {"answered", "sent", "exception", "ErrClosed"}, Rpc!Ends(n, how)
  PROVE  Rpc!InStep'
<1>1. outcome' = [k \in DOMAIN outcome \cup {n} |-> IF k = n THEN how ELSE outcome[k]]
  BY DEF Rpc!Ends
<1>2. \A k \in DOMAIN outcome' : outcome'[k] = how \/ (k \in DOMAIN outcome /\ outcome'[k] = outcome[k])
  BY <1>1
<1>3. QED
  BY <1>2 DEF Rpc!InStep

LEMMA KnownMethods ==
  /\ \A op \in Rpc!AllCalls \cup Rpc!AllSends : op.req \in Known
  /\ \A op \in Rpc!AllCalls : Rpc!AnswersTo(op.req) \subseteq Known
  /\ Rpc!Asynchronous \subseteq Known
  /\ Rpc!channelClose \in Known /\ Rpc!channelCloseOk \in Known
  /\ Rpc!channelFlowOk \in Known /\ Rpc!basicCancelOk \in Known
<1>1. \A op \in Rpc!AllCalls \cup Rpc!AllSends : op.req \in Asked
  BY DEF Asked
<1>2. \A op \in Rpc!AllCalls : Rpc!AnswersTo(op.req) \subseteq Answered
  BY DEF Answered
<1>3. QED
  BY <1>1, <1>2 DEF Known

LEMMA Closing ==
  /\ Rpc!channelClose \notin Rpc!Asynchronous /\ Rpc!channelCloseOk \notin Rpc!Asynchronous
  /\ Rpc!channelClose # Rpc!channelCloseOk
  /\ Rpc!channelFlowOk \notin Closings /\ Rpc!basicCancelOk \notin Closings
BY ChannelMethods, BasicMethods DEF Is, Rpc!Asynchronous, Closings

(* Those who wait are one.                                                 *)
LEMMA OneWaits ==
  ASSUME WhoWaits, NEW c \in Callers, NEW d \in Callers, Speaks(c), Speaks(d)
  PROVE  c = d
<1>1. \A b \in Callers : Speaks(b) <=> ~(\A i \in 1..Len(Ops[b]) : Ops[b][i] \subseteq Rpc!AllSends)
  BY DEF Speaks
<1>2. QED
  BY <1>1, RpcAssumption DEF Rpc!RpcAssumption

(* A request that is answered comes from a call, and so does the answer    *)
(* that is welcome.                                                        *)
LEMMA AnswerWelcome ==
  ASSUME WhoWaits, NEW r, Awaited(r)
  PROVE  /\ \A m \in Rpc!AnswersTo(r.req) :
              /\ m \in Known /\ m \notin Rpc!Asynchronous \cup {Rpc!channelClose}
              /\ r.req # Rpc!channelClose => m # Rpc!channelCloseOk
              /\ \A a : a.msg = m /\ a.serial = r.serial => Welcome(a)
         /\ r.req = Rpc!channelClose =>
              \A a : a.msg = Rpc!channelCloseOk /\ a.serial = r.serial => Welcome(a)
<1>1. PICK c \in Callers : Waiting(c, r.serial) /\ caller[c].op.req = r.req
  BY DEF Awaited
<1> DEFINE op == caller[c].op
<1>2. op \in Rpc!AllCalls
  BY <1>1 DEF Waiting, WhoWaits
<1> HIDE DEF op
<1>3. Answerable(op) /\ op.req = r.req
  BY <1>1, <1>2, CallsAreAnswerable DEF op
<1>4. \A a : a.msg \in op.res /\ a.serial = r.serial => Welcome(a)
  BY <1>1 DEF Welcome, op
<1>5. QED
  BY <1>2, <1>3, <1>4, KnownMethods DEF Answerable

(* A call that was made: nobody else is touched by it, and one that waits  *)
(* has asked.                                                              *)
CallMade(c) ==
  /\ caller[c].pc = "idle"
  /\ replies' = replies /\ closed' = closed /\ errors' = errors /\ server' = server
  /\ \A d \in Callers : d # c => caller'[d] = caller[d]
  /\ \A i \in DOMAIN requests : i \in DOMAIN requests' /\ requests'[i] = requests[i]
  /\ \/ caller'[c].pc = "idle"
     \/ ~closed /\ \E i \in DOMAIN requests' : Asks(requests'[i]) /\ requests'[i].serial = caller'[c].serial

LEMMA CallStep ==
  ASSUME RpcInv, NEW c \in Callers, Rpc!CallSome(c)
  PROVE  RpcInv' /\ CallMade(c)
<1> USE DEF RpcInv
<1>1. PICK op \in Ops[c][caller[c].calls + 1] : \E noWait \in {FALSE} \cup {op.noWait /\ op \in NoWaitOps} :
        Rpc!Call(c, op, noWait)
  BY DEF Rpc!CallSome
<1>2. PICK noWait \in {FALSE} \cup {op.noWait /\ op \in NoWaitOps} : Rpc!Call(c, op, noWait)
  BY <1>1
<1> DEFINE k == caller[c].calls + 1
           n == serial + 1
           Everyone == [pc : {"idle", "wait"}, op : Rpc!AllCalls \cup Rpc!AllSends, serial : Nat, calls : Nat]
           y == [req |-> op.req, answered |-> op.waits /\ ~noWait, serial |-> n]
<1>3. /\ k \in 1..Len(Ops[c]) /\ op \in Ops[c][k] /\ Ops[c][k] \subseteq Rpc!AllCalls \cup Rpc!AllSends
      /\ caller \in [Callers -> Everyone] /\ n \in Nat /\ k \in Nat
  <2>1. caller \in [Callers -> Everyone] /\ serial \in Nat
    BY DEF RpcTypeOK
  <2>2. caller[c].calls \in Nat /\ caller[c].calls < Len(Ops[c])
    BY <2>1 DEF Rpc!CallSome
  <2>3. Ops[c] \in Seq(SUBSET (Rpc!AllCalls \cup Rpc!AllSends))
    BY RpcAssumption DEF Rpc!RpcAssumption
  <2>4. Len(Ops[c]) \in Nat /\ DOMAIN Ops[c] = 1..Len(Ops[c])
    BY <2>3
  <2>5. k \in 1..Len(Ops[c])
    BY <2>2, <2>4
  <2>6. Ops[c][k] \subseteq Rpc!AllCalls \cup Rpc!AllSends
    BY <2>3, <2>4, <2>5
  <2>7. QED
    BY <1>1, <2>1, <2>2, <2>5, <2>6
<1>4. /\ caller[c].pc = "idle" /\ serial' = n
      /\ requests' = IF closed /\ op.req # Rpc!channelCloseOk THEN requests ELSE Append(requests, y)
      /\ IF ~closed /\ Rpc!Waits(op, noWait)
         THEN /\ caller' = [caller EXCEPT ![c] = [pc |-> "wait", op |-> op, serial |-> n, calls |-> k]]
              /\ UNCHANGED <<outcome, closed>>
         ELSE /\ caller' = [caller EXCEPT ![c].calls = k]
              /\ Rpc!Ends(n, IF closed THEN "ErrClosed" ELSE "sent")
              /\ closed' = (closed \/ op = Rpc!Close)
      /\ UNCHANGED <<replies, errors, server, stuck>>
  BY <1>2, <1>3 DEF Rpc!Call, Rpc!Send, Rpc!Request, Rpc!CloseIf
<1>5. noWait \in BOOLEAN /\ (noWait => op.noWait /\ op # Rpc!Confirm)
  <2>1. noWait => op.noWait /\ op \in NoWaitOps
    BY <1>2
  <2>2. NoWaitOps \subseteq Rpc!AllCalls \ {Rpc!Confirm}
    BY RpcAssumption DEF Rpc!RpcAssumption, Rpc!ButConfirm
  <2>3. op.noWait \in BOOLEAN
    <3>1. \A o \in Rpc!AllSends : o.noWait \in BOOLEAN
      BY SendsAreNotAnswered
    <3>2. \A o \in Rpc!AllCalls : o.noWait \in BOOLEAN
      BY CallsAreAnswerable DEF Answerable
    <3>3. QED
      BY <1>3, <3>1, <3>2
  <2>4. QED
    BY <1>2, <2>1, <2>2, <2>3
<1>6. /\ op \in Rpc!AllCalls \/ (op \in Rpc!AllSends /\ op.waits = FALSE)
      /\ op \in Rpc!AllCalls => Answerable(op) /\ op.waits = TRUE
      /\ op.req \in Known /\ op.req # Rpc!channelCloseOk
      /\ op.req = Rpc!channelClose => op \in Rpc!AllCalls /\ ~noWait
      /\ op = Rpc!Close => op \in Rpc!AllCalls /\ ~noWait
  BY <1>3, <1>5, CallsAreAnswerable, SendsAreNotAnswered, KnownMethods DEF Answerable
<1> HIDE DEF k, n
<1>7. y \in Requests /\ y.req = op.req /\ y.serial = n /\ (y.answered <=> op \in Rpc!AllCalls /\ ~noWait)
  <2>1. (op.waits /\ ~noWait) \in BOOLEAN
    BY <1>5, <1>6
  <2>2. y \in Requests
    BY <1>3, <1>6, <2>1 DEF Requests
  <2>3. y.answered = (op.waits /\ ~noWait)
    OBVIOUS
  <2>4. QED
    BY <1>5, <1>6, <2>2, <2>3
<1>8. Rpc!Waits(op, noWait) <=> op \in Rpc!AllCalls /\ ~(noWait /\ op.req.wait = Rpc!Unless)
  <2>1. op \in Rpc!AllCalls => op.req.wait \in {Rpc!Always, Rpc!Unless}
    BY <1>6 DEF Answerable
  <2>2. Rpc!Always # Rpc!Unless
    BY DEF Rpc!Always, Rpc!Unless
  <2>3. QED
    BY <1>5, <1>6, <2>1, <2>2 DEF Rpc!Waits
<1>9. noWait => op.req.wait = Rpc!Unless \/ op \notin Rpc!AllCalls
  BY <1>5, <1>6 DEF Answerable
<1> HIDE DEF y
<1>a. PICK x \in Requests : x = y
  BY <1>7
<1>10. requests \in Seq(Requests)
  BY DEF RpcTypeOK
<1>11. CASE closed
  <2>1. /\ requests' = requests /\ closed' = closed /\ caller' = [caller EXCEPT ![c].calls = k]
        /\ Rpc!Ends(n, "ErrClosed")
    BY <1>4, <1>6, <1>7, <1>a, <1>11
  <2>2. caller' \in [Callers -> Everyone] /\ \A d \in Callers : caller'[d].pc = caller[d].pc /\ caller'[d].op = caller[d].op
    BY <1>3, <2>1
  <2>3. RpcTypeOK'
    BY <1>3, <1>4, <2>1, <2>2 DEF RpcTypeOK
  <2>4. EndsInOrder'
    BY <1>4, <2>1 DEF EndsInOrder
  <2>5. WhoWaits'
    BY <2>2 DEF WhoWaits, Speaks
  <2>6. OneAtATime'
    BY <1>4, <1>11, <2>1 DEF OneAtATime, Asks
  <2>7. Rpc!InStep'
    BY <2>1, EndedInStep
  <2>8. CallMade(c)
    BY <1>3, <1>4, <2>1 DEF CallMade
  <2>9. QED
    BY <2>3, <2>4, <2>5, <2>6, <2>7, <2>8
<1>12. CASE ~closed /\ Rpc!Waits(op, noWait)
  <2>1. /\ requests' = Append(requests, x) /\ closed' = closed /\ outcome' = outcome
        /\ caller' = [caller EXCEPT ![c] = [pc |-> "wait", op |-> op, serial |-> n, calls |-> k]]
    BY <1>4, <1>12, <1>a
  <2>2. op \in Rpc!AllCalls /\ Speaks(c) /\ ~noWait /\ x.answered
    <3>1. op \in Rpc!AllCalls /\ ~noWait
      BY <1>8, <1>9, <1>12
    <3>2. op \notin Rpc!AllSends
      BY <1>6, <3>1, SendsAreNotAnswered
    <3>3. Speaks(c)
      BY <1>3, <3>2 DEF Speaks
    <3>4. QED
      BY <1>7, <1>a, <3>1, <3>3
  <2>3. \A d \in Callers : caller[d].pc # "wait"
    BY <1>4, <2>2, OneWaits DEF WhoWaits
  <2>4. /\ \A i \in DOMAIN requests : ~Asks(requests[i])
        /\ \A i \in DOMAIN replies : ~IsAnswer(replies[i])
    BY <1>12, <2>3 DEF OneAtATime, Awaited, Welcome, Waiting
  <2>5. /\ requests' \in Seq(Requests)
        /\ \A i \in DOMAIN requests' : IF i \in DOMAIN requests THEN requests'[i] = requests[i]
                                       ELSE requests'[i] = x /\ i = Len(requests) + 1
    BY <1>7, <1>a, <1>10, <2>1, Appended
  <2>6. /\ caller' \in [Callers -> Everyone]
        /\ caller'[c].pc = "wait" /\ caller'[c].op = op /\ caller'[c].serial = n
        /\ \A d \in Callers : d # c => caller'[d] = caller[d]
    BY <1>3, <2>1
  <2>7. RpcTypeOK'
    BY <1>3, <1>4, <2>1, <2>5, <2>6 DEF RpcTypeOK
  <2>8. EndsInOrder'
    BY <1>4, <2>1 DEF EndsInOrder
  <2>9. WhoWaits'
    BY <2>2, <2>3, <2>6 DEF WhoWaits, Speaks
  <2>10. Awaited(x)'
    BY <1>7, <1>a, <2>6 DEF Awaited, Waiting
  <2>11. /\ \A i \in DOMAIN requests' : Asks(requests'[i]) => i = Len(requests) + 1 /\ requests'[i] = x
         /\ \A i \in DOMAIN requests' : requests'[i].req = Rpc!channelClose => Asks(requests'[i])
    BY <2>2, <2>4, <2>5 DEF OneAtATime, Asks
  <2>12. Awaited(x)' <=> \E d \in Callers : Waiting(d, x.serial)' /\ caller'[d].op.req = x.req
    BY DEF Awaited
  <2>13. OneAtATime'
    <3>1. \A i \in DOMAIN requests' : Asks(requests'[i]) => Awaited(requests[i])'
      BY <2>10, <2>11, <2>12 DEF Awaited
    <3>2. \A i \in DOMAIN replies' : ~IsAnswer(replies'[i])
      BY <1>4, <2>4
    <3>3. QED
      BY <2>11, <3>1, <3>2 DEF OneAtATime, Asks, IsAnswer
  <2>14. Rpc!InStep'
    BY <2>1 DEF Rpc!InStep
  <2>15. CallMade(c)
    <3>1. /\ \A i \in DOMAIN requests : i \in DOMAIN requests' /\ requests'[i] = requests[i]
          /\ \E i \in DOMAIN requests' : requests'[i] = x
      BY <1>10, <2>1, AppendedKeeps
    <3>2. Asks(x) /\ x.serial = caller'[c].serial
      BY <1>7, <1>a, <2>2, <2>6 DEF Asks
    <3>3. QED
      BY <1>4, <1>12, <2>1, <2>6, <3>1, <3>2 DEF CallMade, Asks
  <2>16. QED
    BY <2>7, <2>8, <2>9, <2>13, <2>14, <2>15
<1>13. CASE ~closed /\ ~Rpc!Waits(op, noWait)
  <2>1. /\ requests' = Append(requests, x) /\ Rpc!Ends(n, "sent")
        /\ caller' = [caller EXCEPT ![c].calls = k] /\ closed' = (op = Rpc!Close)
    BY <1>4, <1>13, <1>a
  <2>2. ~x.answered /\ x.req # Rpc!channelClose /\ closed' = closed
    <3>1. ~x.answered /\ x.req # Rpc!channelClose /\ op # Rpc!Close
      BY <1>6, <1>7, <1>a, <1>8, <1>13
    <3>2. closed = FALSE
      BY <1>13 DEF RpcTypeOK
    <3>3. QED
      BY <2>1, <3>1, <3>2
  <2>3. /\ requests' \in Seq(Requests)
        /\ \A i \in DOMAIN requests' : IF i \in DOMAIN requests THEN requests'[i] = requests[i]
                                       ELSE requests'[i] = x
    BY <1>7, <1>a, <1>10, <2>1, Appended
  <2>4. caller' \in [Callers -> Everyone] /\ \A d \in Callers :
          caller'[d].pc = caller[d].pc /\ caller'[d].op = caller[d].op /\ caller'[d].serial = caller[d].serial
    BY <1>3, <2>1
  <2>5. RpcTypeOK'
    BY <1>3, <1>4, <2>2, <2>3, <2>4 DEF RpcTypeOK
  <2>6. EndsInOrder'
    BY <1>4, <2>2 DEF EndsInOrder
  <2>7. WhoWaits'
    BY <2>4 DEF WhoWaits, Speaks
  <2>8. \A i \in DOMAIN requests' : requests'[i].answered \/ requests'[i].req = Rpc!channelClose =>
          i \in DOMAIN requests /\ requests'[i] = requests[i]
    BY <2>2, <2>3
  <2>9. OneAtATime'
    <3>1. \A i \in DOMAIN requests' : requests'[i].req = Rpc!channelClose => Asks(requests'[i])
      BY <2>8 DEF OneAtATime, Asks
    <3>2. \A i \in DOMAIN requests' : Asks(requests'[i]) => Awaited(requests[i])'
      BY <1>13, <2>4, <2>8 DEF OneAtATime, Asks, Awaited, Waiting
    <3>3. \A i \in DOMAIN replies' : IsAnswer(replies'[i]) => Welcome(replies[i])'
      BY <1>4, <1>13, <2>4 DEF OneAtATime, IsAnswer, Welcome, Waiting
    <3>4. QED
      BY <1>4, <1>13, <2>2, <2>8, <3>1, <3>2, <3>3 DEF OneAtATime, Asks, IsAnswer
  <2>10. Rpc!InStep'
    BY <2>1, EndedInStep
  <2>11. CallMade(c)
    <3>1. \A i \in DOMAIN requests : i \in DOMAIN requests' /\ requests'[i] = requests[i]
      BY <1>10, <2>1, AppendedKeeps
    <3>2. caller'[c].pc = "idle" /\ \A d \in Callers : d # c => caller'[d] = caller[d]
      BY <1>3, <1>4, <2>1
    <3>3. QED
      BY <1>4, <2>2, <3>1, <3>2 DEF CallMade
  <2>12. QED
    BY <2>5, <2>6, <2>7, <2>9, <2>10, <2>11
<1>14. QED
  BY <1>11, <1>12, <1>13

LEMMA FailsStep ==
  ASSUME RpcInv, NEW c \in Callers, Rpc!CallFails(c)
  PROVE  RpcInv'
<1> USE DEF RpcInv
<1>1. /\ errors /\ errors' = FALSE /\ caller' = [caller EXCEPT ![c].pc = "idle"]
      /\ Rpc!Ends(caller[c].serial, "exception") /\ closed' = (closed \/ caller[c].op = Rpc!Close)
      /\ UNCHANGED <<requests, replies, server, serial, stuck>>
  BY DEF Rpc!CallFails, Rpc!CloseIf
<1>2. closed = TRUE /\ closed' = TRUE
  BY <1>1 DEF EndsInOrder, RpcTypeOK
<1>3. /\ caller' \in [Callers -> [pc : {"idle", "wait"}, op : Rpc!AllCalls \cup Rpc!AllSends,
                                  serial : Nat, calls : Nat]]
      /\ \A d \in Callers : caller'[d].op = caller[d].op /\ (caller'[d].pc = "wait" => caller[d].pc = "wait")
  BY <1>1 DEF RpcTypeOK
<1>4. RpcTypeOK'
  BY <1>1, <1>2, <1>3 DEF RpcTypeOK
<1>5. EndsInOrder'
  BY <1>1, <1>2 DEF EndsInOrder
<1>6. WhoWaits'
  BY <1>3 DEF WhoWaits, Speaks
<1>7. OneAtATime'
  BY <1>1, <1>2 DEF OneAtATime, Asks
<1>8. Rpc!InStep'
  BY <1>1, EndedInStep
<1>9. QED
  BY <1>4, <1>5, <1>6, <1>7, <1>8

(* The answer that is first in line is that to the request of the caller   *)
(* who waits.                                                              *)
LEMMA ReplyStep ==
  ASSUME RpcInv, NEW c \in Callers, Rpc!Reply(c)
  PROVE  RpcInv'
<1> USE DEF RpcInv
<1> DEFINE r == Head(replies)
           how == IF r.msg \notin caller[c].op.res THEN "ErrCommandInvalid"
                  ELSE IF r.serial = caller[c].serial THEN "answered" ELSE "answer to another request"
<1>1. /\ ~closed /\ replies # <<>> /\ IsAnswer(r) /\ caller[c].pc = "wait"
      /\ replies' = Tail(replies) /\ caller' = [caller EXCEPT ![c].pc = "idle"]
      /\ Rpc!Ends(caller[c].serial, how) /\ closed' = (closed \/ caller[c].op = Rpc!Close)
      /\ UNCHANGED <<requests, errors, server, serial, stuck>>
  BY Zenon DEF Rpc!Reply, Rpc!CloseIf, IsAnswer
<1>2. replies \in Seq(Replies) /\ closed = FALSE
  BY <1>1 DEF RpcTypeOK
<1>3. /\ r = replies[1] /\ 1 \in DOMAIN replies /\ replies' \in Seq(Replies)
      /\ \A i \in DOMAIN replies' : i + 1 \in DOMAIN replies /\ 1 < i + 1 /\ 1 # i + 1 /\ replies'[i] = replies[i+1]
      /\ \A i, j \in DOMAIN replies' : i < j => i + 1 < j + 1
  BY <1>1, <1>2, HeadTaken
<1>4. r.msg \in caller[c].op.res /\ r.serial = caller[c].serial
  <2>1. Welcome(r)
    BY <1>1, <1>3 DEF OneAtATime
  <2>2. PICK d \in Callers : Waiting(d, r.serial) /\ r.msg \in caller[d].op.res
    BY <2>1 DEF Welcome
  <2>3. d = c
    BY <1>1, <2>2, OneWaits DEF WhoWaits, Waiting
  <2>4. QED
    BY <2>2, <2>3 DEF Waiting
<1> HIDE DEF r
<1>5. Rpc!Ends(caller[c].serial, "answered")
  BY <1>1, <1>4
<1>6. /\ caller' \in [Callers -> [pc : {"idle", "wait"}, op : Rpc!AllCalls \cup Rpc!AllSends,
                                  serial : Nat, calls : Nat]]
      /\ \A d \in Callers : caller'[d].op = caller[d].op /\ (caller'[d].pc = "wait" => caller[d].pc = "wait")
  BY <1>1 DEF RpcTypeOK
<1>7. RpcTypeOK'
  BY <1>1, <1>2, <1>3, <1>6 DEF RpcTypeOK
<1>8. caller[c].op = Rpc!Close => r.msg \in Closings
  <2>1. Answerable(Rpc!Close)
    BY CallsAreAnswerable DEF Rpc!AllCalls
  <2>2. QED
    BY <1>4, <2>1 DEF Answerable, Closings
<1>9. EndsInOrder'
  <2>1. closed' => caller[c].op = Rpc!Close
    BY <1>1, <1>2
  <2>2. closed' => server' # "open"
    BY <1>1, <1>3, <1>8, <2>1 DEF EndsInOrder
  <2>3. closed' => \A i \in DOMAIN replies' : replies'[i].msg \in Closings
    BY <1>3, <1>8, <2>1 DEF EndsInOrder
  <2>4. \A i, j \in DOMAIN replies' : i < j /\ replies'[i].msg \in Closings => replies'[j].msg \in Closings
    BY <1>3 DEF EndsInOrder
  <2>5. errors' => closed'
    BY <1>1, <1>2 DEF EndsInOrder
  <2>6. server' = "open" => \A i \in DOMAIN replies' : replies'[i].msg \notin Closings
    BY <1>1, <1>3 DEF EndsInOrder
  <2>7. QED
    BY <2>2, <2>3, <2>4, <2>5, <2>6 DEF EndsInOrder
<1>10. WhoWaits'
  BY <1>6 DEF WhoWaits, Speaks
<1>11. OneAtATime'
  <2>1. \A i \in DOMAIN replies' : ~IsAnswer(replies'[i])
    BY <1>1, <1>3 DEF OneAtATime
  <2>2. \A i \in DOMAIN requests : ~Asks(requests[i])
    BY <1>1, <1>3 DEF OneAtATime
  <2>3. \A i \in DOMAIN requests : requests[i].req = Rpc!channelClose => Asks(requests[i])
    BY DEF OneAtATime
  <2>4. QED
    BY <1>1, <2>1, <2>2, <2>3 DEF OneAtATime, Asks, IsAnswer
<1>12. Rpc!InStep'
  BY <1>5, EndedInStep
<1>13. QED
  BY <1>7, <1>9, <1>10, <1>11, <1>12

(* What the reader reads besides: a closing method, or what concerns no    *)
(* caller; it asks nothing in return.                                      *)
LEMMA ReadStep ==
  ASSUME RpcInv, Rpc!ClosedByServer \/ Rpc!DispatchAsync \/ Rpc!dispatchClosed
  PROVE  RpcInv'
<1> USE DEF RpcInv
<1> DEFINE m == Head(replies).msg
           Note(req) == [req |-> req, answered |-> FALSE, serial |-> 0]
<1>1. replies \in Seq(Replies) /\ requests \in Seq(Requests) /\ replies # <<>>
  BY DEF RpcTypeOK, Rpc!ClosedByServer, Rpc!DispatchAsync, Rpc!dispatchClosed
<1>2. /\ Head(replies) = replies[1] /\ 1 \in DOMAIN replies /\ Tail(replies) \in Seq(Replies)
      /\ \A i \in DOMAIN Tail(replies) :
           i + 1 \in DOMAIN replies /\ 1 < i + 1 /\ 1 # i + 1 /\ Tail(replies)[i] = replies[i+1]
      /\ \A i, j \in DOMAIN Tail(replies) : /\ i < j => i + 1 < j + 1
                                            /\ i + 1 = j + 1 => i = j
  BY <1>1, HeadTaken
<1>3. /\ replies' = Tail(replies)
      /\ requests' = requests \/ \E q \in {Rpc!channelCloseOk, Rpc!channelFlowOk, Rpc!basicCancelOk} :
                                    requests' = Append(requests, Note(q))
      /\ UNCHANGED <<caller, server, serial, outcome>>
      /\ \/ Rpc!ClosedByServer /\ m = Rpc!channelClose /\ closed' = TRUE /\ errors' = TRUE /\ UNCHANGED stuck
         \/ Rpc!DispatchAsync /\ UNCHANGED <<closed, errors, stuck>>
         \/ Rpc!dispatchClosed /\ closed = TRUE /\ UNCHANGED <<closed, errors>> /\ stuck' = (m \notin Closings)
  <2>1. CASE Rpc!ClosedByServer
    BY <2>1, Zenon DEF Rpc!ClosedByServer, Rpc!Request
  <2>2. CASE Rpc!DispatchAsync
    <3>1. closed = FALSE
      BY <2>2 DEF Rpc!DispatchAsync, RpcTypeOK
    <3>2. QED
      BY <2>2, <3>1, Zenon DEF Rpc!DispatchAsync, Rpc!Request, Rpc!Send
  <2>3. CASE Rpc!dispatchClosed
    <3>1. closed = TRUE
      BY <2>3 DEF Rpc!dispatchClosed, RpcTypeOK
    <3>2. QED
      BY <2>3, <3>1, Zenon DEF Rpc!dispatchClosed, Rpc!Request, Closings
  <2>4. QED
    BY <2>1, <2>2, <2>3
<1>4. /\ requests' \in Seq(Requests)
      /\ \A i \in DOMAIN requests' :
           \/ i \in DOMAIN requests /\ requests'[i] = requests[i]
           \/ ~requests'[i].answered /\ requests'[i].req # Rpc!channelClose
  <2>1. CASE requests' = requests
    BY <1>1, <2>1
  <2>2. ASSUME NEW q \in {Rpc!channelCloseOk, Rpc!channelFlowOk, Rpc!basicCancelOk},
               requests' = Append(requests, Note(q))
        PROVE  <1>4!1 /\ <1>4!2
    <3>1. Note(q) \in Requests /\ ~Note(q).answered /\ Note(q).req # Rpc!channelClose
      <4>1. q \in Known /\ q # Rpc!channelClose
        BY KnownMethods, Closing DEF Closings
      <4>2. QED
        BY <4>1 DEF Requests
    <3> HIDE DEF Note
    <3>2. QED
      BY <1>1, <2>2, <3>1, Appended
  <2>3. QED
    BY <1>3, <2>1, <2>2
<1>5. stuck' = FALSE
  <2>1. closed => m \in Closings
    BY <1>2 DEF EndsInOrder
  <2>2. QED
    BY <1>3, <2>1 DEF RpcTypeOK
<1>6. closed' \in BOOLEAN /\ errors' \in BOOLEAN /\ (closed => closed') /\ (errors' => closed')
  <2>1. closed \in BOOLEAN /\ errors \in BOOLEAN /\ (errors => closed)
    BY DEF RpcTypeOK, EndsInOrder
  <2>2. \/ closed' = TRUE /\ errors' = TRUE
        \/ closed' = closed /\ errors' = errors
    BY <1>3
  <2> HIDE DEF m
  <2>3. CASE closed' = TRUE /\ errors' = TRUE
    BY <2>3, Zenon
  <2>4. CASE closed' = closed /\ errors' = errors
    BY <2>1, <2>4, Zenon
  <2>5. QED
    BY <2>2, <2>3, <2>4
<1>7. RpcTypeOK'
  BY <1>2, <1>3, <1>4, <1>5, <1>6 DEF RpcTypeOK
<1>8. EndsInOrder'
  <2>1. m = Rpc!channelClose => server # "open" /\ \A i \in DOMAIN replies' : replies'[i].msg \in Closings
    BY <1>2, <1>3 DEF EndsInOrder, Closings
  <2>2. closed' => closed \/ m = Rpc!channelClose
    BY <1>3
  <2>3. closed' => server' # "open" /\ \A i \in DOMAIN replies' : replies'[i].msg \in Closings
    BY <1>2, <1>3, <2>1, <2>2 DEF EndsInOrder
  <2>4. \A i, j \in DOMAIN replies' : i < j /\ replies'[i].msg \in Closings => replies'[j].msg \in Closings
    BY <1>2, <1>3 DEF EndsInOrder
  <2>5. server' = "open" => \A i \in DOMAIN replies' : replies'[i].msg \notin Closings
    BY <1>2, <1>3 DEF EndsInOrder
  <2>6. QED
    BY <1>6, <2>3, <2>4, <2>5 DEF EndsInOrder
<1>9. WhoWaits' /\ Rpc!InStep'
  BY <1>3 DEF WhoWaits, Speaks, Rpc!InStep
<1>10. OneAtATime'
  <2>1. \A i \in DOMAIN requests' : requests'[i].req = Rpc!channelClose => Asks(requests'[i])
    BY <1>4 DEF OneAtATime, Asks
  <2>2. SUFFICES ASSUME ~closed'
                 PROVE  /\ \A i \in DOMAIN requests' : Asks(requests'[i]) => Awaited(requests[i])'
                        /\ \A i \in DOMAIN replies' : IsAnswer(replies'[i]) => Welcome(replies[i])'
                        /\ \A i, j \in DOMAIN requests' : Asks(requests'[i]) /\ Asks(requests'[j]) => i = j
                        /\ \A i, j \in DOMAIN replies' : IsAnswer(replies'[i]) /\ IsAnswer(replies'[j]) => i = j
                        /\ \A i \in DOMAIN requests', j \in DOMAIN replies' :
                             ~(Asks(requests'[i]) /\ IsAnswer(replies'[j]))
    BY <2>1 DEF OneAtATime, Asks, IsAnswer
  <2>3. ~closed
    BY <1>6, <2>2
  <2>4. \A i \in DOMAIN requests' : Asks(requests'[i]) => i \in DOMAIN requests /\ requests'[i] = requests[i]
    BY <1>4 DEF Asks
  <2>5. \A i \in DOMAIN requests' : Asks(requests'[i]) => Awaited(requests[i])'
    BY <1>3, <2>3, <2>4 DEF OneAtATime, Awaited, Waiting
  <2>6. \A i \in DOMAIN replies' : IsAnswer(replies'[i]) => Welcome(replies[i])'
    BY <1>2, <1>3, <2>3 DEF OneAtATime, Welcome, Waiting
  <2>7. \A i, j \in DOMAIN requests' : Asks(requests'[i]) /\ Asks(requests'[j]) => i = j
    BY <2>3, <2>4 DEF OneAtATime
  <2>8. \A i, j \in DOMAIN replies' : IsAnswer(replies'[i]) /\ IsAnswer(replies'[j]) => i = j
    BY <1>2, <1>3, <2>3 DEF OneAtATime
  <2>9. \A i \in DOMAIN requests', j \in DOMAIN replies' : ~(Asks(requests'[i]) /\ IsAnswer(replies'[j]))
    BY <1>2, <1>3, <2>3, <2>4 DEF OneAtATime
  <2>10. QED
    BY <2>5, <2>6, <2>7, <2>8, <2>9
<1>11. QED
  BY <1>7, <1>8, <1>9, <1>10

(* The server answers, refuses, ignores or sends of its own accord: while  *)
(* the channel is open on its side what it sends closes nothing but for    *)
(* the answer to a close.                                                  *)
LEMMA ServerStep ==
  ASSUME RpcInv, Rpc!ServerAnswers \/ Rpc!ServerRefuses \/ Rpc!ServerIgnores
  PROVE  RpcInv'
<1> USE DEF RpcInv
<1>1. PICK r : r = Head(requests)
  OBVIOUS
<1>2. replies \in Seq(Replies) /\ requests \in Seq(Requests) /\ requests # <<>>
  BY DEF RpcTypeOK, Rpc!ServerAnswers, Rpc!ServerRefuses, Rpc!ServerIgnores
<1>3. /\ r = requests[1] /\ 1 \in DOMAIN requests /\ r \in Requests /\ Tail(requests) \in Seq(Requests)
      /\ \A i \in DOMAIN Tail(requests) :
           i + 1 \in DOMAIN requests /\ 1 < i + 1 /\ 1 # i + 1 /\ Tail(requests)[i] = requests[i+1]
      /\ \A i, j \in DOMAIN Tail(requests) : i + 1 = j + 1 => i = j
  BY <1>1, <1>2, HeadTaken
<1>4. /\ requests' = Tail(requests) /\ UNCHANGED <<caller, closed, errors, serial, outcome, stuck>>
      /\ \/ /\ server = "open" /\ r.answered
            /\ server' = IF r.req = Rpc!channelClose THEN "closed" ELSE "open"
            /\ \E m \in Rpc!AnswersTo(r.req) : replies' = Append(replies, [msg |-> m, serial |-> r.serial])
         \/ /\ server = "open" /\ ~r.answered
            /\ server' = IF r.req = Rpc!channelClose THEN "closed" ELSE "open"
            /\ replies' = replies
         \/ /\ server = "open" /\ server' = "closing"
            /\ replies' = Append(replies, [msg |-> Rpc!channelClose, serial |-> 0])
         \/ /\ server # "open" /\ server' # "open"
            /\ \/ replies' = replies
               \/ /\ r.req = Rpc!channelClose
                  /\ replies' = Append(replies, [msg |-> Rpc!channelCloseOk, serial |-> r.serial])
  <2>1. CASE Rpc!ServerAnswers
    BY <1>1, <2>1, Zenon DEF Rpc!ServerAnswers, Rpc!Answering
  <2>2. CASE Rpc!ServerRefuses
    BY <1>1, <2>2, Zenon DEF Rpc!ServerRefuses, Rpc!Answering
  <2>3. CASE Rpc!ServerIgnores
    <3>1. server' = IF r.req \in {Rpc!channelClose, Rpc!channelCloseOk} THEN "closed" ELSE server
      BY <1>1, <2>3, Zenon DEF Rpc!ServerIgnores
    <3>2. server # "open" /\ server' # "open"
      BY <2>3, <3>1 DEF Rpc!ServerIgnores
    <3>3. QED
      BY <1>1, <2>3, <3>2, Zenon DEF Rpc!ServerIgnores, Rpc!Answering
  <2>4. QED
    BY <2>1, <2>2, <2>3
<1>5. r.serial \in Nat /\ (r.req = Rpc!channelClose => r.answered) /\ (~closed /\ r.answered => Awaited(r))
  BY <1>3 DEF OneAtATime, Asks, Requests
<1>6. \/ replies' = replies
      \/ \E a \in Replies :
           /\ replies' = Append(replies, a)
           /\ a.msg \in Closings => server' # "open"
           /\ server # "open" => a.msg \in Closings
           /\ ~closed /\ IsAnswer(a) => r.answered /\ Welcome(a)
  <2>1. CASE /\ server = "open" /\ r.answered
             /\ server' = IF r.req = Rpc!channelClose THEN "closed" ELSE "open"
             /\ \E m \in Rpc!AnswersTo(r.req) : replies' = Append(replies, [msg |-> m, serial |-> r.serial])
    <3>1. PICK m \in Rpc!AnswersTo(r.req) : replies' = Append(replies, [msg |-> m, serial |-> r.serial])
      BY <2>1
    <3> DEFINE a == [msg |-> m, serial |-> r.serial]
    <3>2. closed = FALSE
      BY <2>1 DEF EndsInOrder, RpcTypeOK
    <3>3. /\ m \in Known /\ m # Rpc!channelClose
          /\ r.req # Rpc!channelClose => m # Rpc!channelCloseOk
          /\ \A b : b.msg = m /\ b.serial = r.serial => Welcome(b)
      BY <1>5, <2>1, <3>2, AnswerWelcome
    <3>4. a \in Replies /\ a.msg = m /\ a.serial = r.serial
      BY <1>5, <3>3 DEF Replies
    <3> HIDE DEF a
    <3>5. a.msg \in Closings => server' # "open"
      <4>1. m \in Closings => r.req = Rpc!channelClose
        BY <3>3 DEF Closings
      <4>2. r.req = Rpc!channelClose => server' = "closed"
        BY <2>1
      <4>3. r.req = Rpc!channelClose => server' # "open"
        BY <4>2
      <4>4. QED
        BY <3>4, <4>1, <4>3, Zenon
    <3>6. QED
      BY <2>1, <3>1, <3>3, <3>4, <3>5 DEF a
  <2>2. CASE /\ server = "open" /\ server' = "closing"
             /\ replies' = Append(replies, [msg |-> Rpc!channelClose, serial |-> 0])
    <3> DEFINE a == [msg |-> Rpc!channelClose, serial |-> 0]
    <3>1. a \in Replies /\ a.msg = Rpc!channelClose /\ ~IsAnswer(a)
      BY KnownMethods DEF Replies, IsAnswer
    <3> HIDE DEF a
    <3>2. QED
      BY <2>2, <3>1 DEF a
  <2>3. CASE /\ server # "open" /\ server' # "open" /\ r.req = Rpc!channelClose
             /\ replies' = Append(replies, [msg |-> Rpc!channelCloseOk, serial |-> r.serial])
    <3> DEFINE a == [msg |-> Rpc!channelCloseOk, serial |-> r.serial]
    <3>1. a \in Replies /\ a.msg = Rpc!channelCloseOk /\ a.serial = r.serial /\ a.msg \in Closings
      BY <1>5, KnownMethods DEF Replies, Closings
    <3>2. ~closed => Welcome(a)
      BY <1>5, <2>3, <3>1, AnswerWelcome
    <3> HIDE DEF a
    <3>3. QED
      BY <1>5, <2>3, <3>1, <3>2 DEF a
  <2>4. QED
    BY <1>4, <2>1, <2>2, <2>3
<1>7. server' = "open" => server = "open"
  BY <1>4
<1>8. \A i \in DOMAIN requests' : Asks(requests'[i]) => i + 1 \in DOMAIN requests /\ Asks(requests[i+1]) /\ 1 # i + 1
  BY <1>3, <1>4 DEF Asks
<1>9. \A i \in DOMAIN requests' : requests'[i].req = Rpc!channelClose => Asks(requests'[i])
  BY <1>3, <1>4 DEF OneAtATime, Asks
<1>10. ~closed => /\ \A i \in DOMAIN requests' : Asks(requests'[i]) => Awaited(requests[i])'
                  /\ \A i, j \in DOMAIN requests' : Asks(requests'[i]) /\ Asks(requests'[j]) => i = j
  BY <1>3, <1>4 DEF OneAtATime, Asks, Awaited, Waiting
<1>11. WhoWaits' /\ Rpc!InStep'
  BY <1>4 DEF WhoWaits, Speaks, Rpc!InStep
<1>12. \A a : Welcome(a) => \E c \in Callers : Waiting(c, a.serial)' /\ a.msg \in caller'[c].op.res
  BY <1>4 DEF Welcome, Waiting
<1>13. CASE replies' = replies
  <2>1. RpcTypeOK'
    BY <1>3, <1>4, <1>13 DEF RpcTypeOK
  <2>2. EndsInOrder'
    BY <1>4, <1>7, <1>13 DEF EndsInOrder
  <2>3. OneAtATime'
    <3>1. ~closed => \A i \in DOMAIN replies' : IsAnswer(replies'[i]) => Welcome(replies[i])'
      BY <1>12, <1>13 DEF OneAtATime, Welcome
    <3>2. ~closed => /\ \A i, j \in DOMAIN replies' : IsAnswer(replies'[i]) /\ IsAnswer(replies'[j]) => i = j
                     /\ \A i \in DOMAIN requests', j \in DOMAIN replies' :
                          ~(Asks(requests'[i]) /\ IsAnswer(replies'[j]))
      BY <1>8, <1>13 DEF OneAtATime
    <3>3. closed' = closed
      BY <1>4
    <3>4. QED
      BY <1>9, <1>10, <3>1, <3>2, <3>3 DEF OneAtATime, Asks, IsAnswer
  <2>4. QED
    BY <1>11, <2>1, <2>2, <2>3
<1>14. ASSUME NEW a \in Replies,
              replies' = Append(replies, a),
              a.msg \in Closings => server' # "open",
              server # "open" => a.msg \in Closings,
              ~closed /\ IsAnswer(a) => r.answered /\ Welcome(a)
       PROVE  RpcInv'
  <2>1. /\ replies' \in Seq(Replies)
        /\ \A i \in DOMAIN replies' :
             IF i \in DOMAIN replies THEN replies'[i] = replies[i] /\ i < Len(replies) + 1
                                     ELSE replies'[i] = a /\ i = Len(replies) + 1
        /\ \A i \in DOMAIN replies : ~(Len(replies) + 1 < i)
        /\ ~(Len(replies) + 1 < Len(replies) + 1)
    BY <1>2, <1>14, Appended
  <2>2. RpcTypeOK'
    BY <1>3, <1>4, <2>1 DEF RpcTypeOK
  <2>3. EndsInOrder'
    <3>1. closed' => server' # "open" /\ \A i \in DOMAIN replies' : replies'[i].msg \in Closings
      BY <1>4, <1>7, <1>14, <2>1 DEF EndsInOrder
    <3>2. server' = "open" => \A i \in DOMAIN replies' : replies'[i].msg \notin Closings
      BY <1>7, <1>14, <2>1 DEF EndsInOrder
    <3>3. ASSUME NEW i \in DOMAIN replies', NEW j \in DOMAIN replies', i < j, replies'[i].msg \in Closings
          PROVE  replies'[j].msg \in Closings
      <4>1. i \in DOMAIN replies /\ replies[i].msg \in Closings
        BY <2>1, <3>3
      <4>2. server # "open"
        BY <4>1 DEF EndsInOrder
      <4>3. QED
        BY <1>14, <2>1, <3>3, <4>1, <4>2 DEF EndsInOrder
    <3>4. errors' => closed'
      BY <1>4 DEF EndsInOrder
    <3>5. QED
      BY <3>1, <3>2, <3>3, <3>4 DEF EndsInOrder
  <2>4. OneAtATime'
    <3>1. SUFFICES ASSUME ~closed
                   PROVE  /\ \A i \in DOMAIN replies' : IsAnswer(replies'[i]) => Welcome(replies[i])'
                          /\ \A i, j \in DOMAIN replies' : IsAnswer(replies'[i]) /\ IsAnswer(replies'[j]) => i = j
                          /\ \A i \in DOMAIN requests', j \in DOMAIN replies' :
                               ~(Asks(requests'[i]) /\ IsAnswer(replies'[j]))
      <4>1. closed' = closed
        BY <1>4
      <4>2. QED
        BY <1>9, <1>10, <4>1 DEF OneAtATime, Asks, IsAnswer
    <3>2. IsAnswer(a) => /\ \A i \in DOMAIN replies : ~IsAnswer(replies[i])
                         /\ \A i \in DOMAIN requests' : ~Asks(requests'[i])
      BY <1>3, <1>8, <1>14, <3>1 DEF OneAtATime, Asks
    <3>3. \A i \in DOMAIN replies' : IsAnswer(replies'[i]) => Welcome(replies'[i])
      BY <1>14, <2>1, <3>1 DEF OneAtATime
    <3>4. \A i \in DOMAIN replies' : IsAnswer(replies'[i]) => Welcome(replies[i])'
      BY <1>12, <3>3 DEF Welcome
    <3>5. \A i, j \in DOMAIN replies' : IsAnswer(replies'[i]) /\ IsAnswer(replies'[j]) => i = j
      BY <2>1, <3>1, <3>2 DEF OneAtATime
    <3>6. \A i \in DOMAIN requests', j \in DOMAIN replies' : ~(Asks(requests'[i]) /\ IsAnswer(replies'[j]))
      BY <1>8, <2>1, <3>1, <3>2 DEF OneAtATime
    <3>7. QED
      BY <3>4, <3>5, <3>6
  <2>5. QED
    BY <1>11, <2>2, <2>3, <2>4
<1>15. QED
  BY <1>6, <1>13, <1>14

LEMMA SendsStep ==
  ASSUME RpcInv, NEW m \in Rpc!Asynchronous, Rpc!ServerSends(m)
  PROVE  RpcInv'
<1> USE DEF RpcInv
<1>1. PICK a : a = [msg |-> m, serial |-> 0]
  OBVIOUS
<1>2. /\ server = "open" /\ replies' = Append(replies, a)
      /\ UNCHANGED <<caller, requests, closed, errors, server, serial, outcome, stuck>>
  BY <1>1 DEF Rpc!ServerSends, Rpc!Answering
<1>3. a \in Replies /\ ~IsAnswer(a) /\ a.msg \notin Closings
  <2>1. m \in Known /\ m \notin Closings
    BY KnownMethods, Closing DEF Closings
  <2>2. QED
    BY <1>1, <2>1 DEF Replies, IsAnswer
<1>4. replies \in Seq(Replies)
  BY DEF RpcTypeOK
<1>5. /\ replies' \in Seq(Replies)
      /\ \A i \in DOMAIN replies' : IF i \in DOMAIN replies THEN replies'[i] = replies[i] ELSE replies'[i] = a
  BY <1>2, <1>3, <1>4, Appended
<1>6. RpcTypeOK'
  BY <1>2, <1>5 DEF RpcTypeOK
<1>7. ~closed /\ \A i \in DOMAIN replies' : replies'[i].msg \notin Closings
  BY <1>2, <1>3, <1>5 DEF EndsInOrder
<1>8. EndsInOrder'
  BY <1>2, <1>7 DEF EndsInOrder
<1>9. WhoWaits' /\ Rpc!InStep'
  BY <1>2 DEF WhoWaits, Speaks, Rpc!InStep
<1>10. \A i \in DOMAIN replies' : IsAnswer(replies'[i]) => i \in DOMAIN replies /\ replies'[i] = replies[i]
  BY <1>3, <1>5
<1>11. OneAtATime'
  <2>1. \A i \in DOMAIN requests' : Asks(requests'[i]) => Awaited(requests[i])'
    BY <1>2, <1>7 DEF OneAtATime, Asks, Awaited, Waiting
  <2>2. \A i \in DOMAIN replies' : IsAnswer(replies'[i]) => Welcome(replies[i])'
    BY <1>2, <1>7, <1>10 DEF OneAtATime, Welcome, Waiting
  <2>3. \A i, j \in DOMAIN replies' : IsAnswer(replies'[i]) /\ IsAnswer(replies'[j]) => i = j
    BY <1>7, <1>10 DEF OneAtATime
  <2>4. \A i \in DOMAIN requests', j \in DOMAIN replies' : ~(Asks(requests'[i]) /\ IsAnswer(replies'[j]))
    BY <1>2, <1>7, <1>10 DEF OneAtATime, Asks
  <2>5. requests' = requests
    BY <1>2
  <2>6. QED
    BY <1>7, <2>1, <2>2, <2>3, <2>4, <2>5 DEF OneAtATime, Asks, IsAnswer
<1>12. QED
  BY <1>6, <1>8, <1>9, <1>11

LEMMA RpcStep == RpcInv /\ [Rpc!Next]_rpcVars => RpcInv'
<1> SUFFICES ASSUME RpcInv, [Rpc!Next]_rpcVars PROVE RpcInv'
  OBVIOUS
<1>1. CASE Rpc!Reader
  <2>1. CASE Rpc!ClosedByServer \/ Rpc!DispatchAsync \/ Rpc!dispatchClosed
    BY <2>1, ReadStep
  <2>2. CASE \E c \in Callers : Rpc!Reply(c)
    BY <2>2, ReplyStep
  <2>3. QED
    BY <1>1, <2>1, <2>2, Zenon DEF Rpc!Reader
<1>2. CASE Rpc!Server \/ Rpc!ServerRefuses
  BY <1>2, ServerStep, Zenon DEF Rpc!Server
<1>3. CASE \E m \in Rpc!Asynchronous : Rpc!ServerSends(m)
  BY <1>3, SendsStep
<1>4. CASE \E c \in Callers : Rpc!CallSome(c) \/ Rpc!CallFails(c)
  BY <1>4, CallStep, FailsStep
<1>5. CASE UNCHANGED rpcVars
  <2>1. UNCHANGED <<caller, requests, replies, closed, errors, server, serial, outcome, stuck>>
    BY <1>5 DEF rpcVars
  <2>2. RpcTypeOK' /\ EndsInOrder' /\ WhoWaits' /\ Rpc!InStep'
    BY <2>1 DEF RpcInv, RpcTypeOK, EndsInOrder, WhoWaits, Speaks, Rpc!InStep
  <2>3. OneAtATime'
    BY <2>1 DEF RpcInv, OneAtATime, Asks, Awaited, Welcome, Waiting, IsAnswer
  <2>4. QED
    BY <2>2, <2>3 DEF RpcInv
<1>6. QED
  BY <1>1, <1>2, <1>3, <1>4, <1>5, Zenon DEF Rpc!Next

(* The suite takes no other steps with these variables.                    *)
LEMMA OnlyCalls == [Next]_vars => [Rpc!Next]_rpcVars
<1>1. CASE Next
  BY <1>1, Zenon DEF Next
<1>2. CASE UNCHANGED vars
  BY <1>2, Zenon DEF vars
<1>3. QED
  BY <1>1, <1>2

-----------------------------------------------------------------------------
(* No call on a channel waits in vain. *)

(* What is under way for a caller; that a closing server has said so, or   *)
(* has answered the close of the caller who waits.                         *)
Coming(c) ==
  \/ \E i \in DOMAIN requests : Asks(requests[i]) /\ requests[i].serial = caller[c].serial
  \/ \E i \in DOMAIN replies : IsAnswer(replies[i]) /\ replies[i].serial = caller[c].serial

SaysClose == \E i \in DOMAIN replies : replies[i].msg = Rpc!channelClose
AnswersClose(c) ==
  /\ caller[c].pc = "wait" /\ caller[c].op = Rpc!Close
  /\ \E i \in DOMAIN replies : replies[i].msg = Rpc!channelCloseOk /\ replies[i].serial = caller[c].serial

WaitsInv ==
  /\ closed => \A c \in Callers : caller[c].pc = "wait" => errors
  /\ ~closed /\ server = "open" => \A c \in Callers : caller[c].pc = "wait" => Coming(c)
  /\ ~closed /\ server # "open" => SaysClose \/ \E c \in Callers : AnswersClose(c)

(* At most one caller waits.                                               *)
LEMMA WaitsAlone ==
  ASSUME WhoWaits, NEW c \in Callers, NEW d \in Callers, caller[c].pc = "wait", caller[d].pc = "wait"
  PROVE  c = d
BY OneWaits DEF WhoWaits

LEMMA WaitsCall ==
  ASSUME RpcInv, WaitsInv, NEW c \in Callers, CallMade(c)
  PROVE  WaitsInv'
<1>1. /\ caller[c].pc = "idle" /\ replies' = replies /\ closed' = closed /\ errors' = errors /\ server' = server
      /\ \A d \in Callers : d # c => caller'[d] = caller[d]
      /\ \A i \in DOMAIN requests : i \in DOMAIN requests' /\ requests'[i] = requests[i]
      /\ \/ caller'[c].pc = "idle"
         \/ ~closed /\ \E i \in DOMAIN requests' : Asks(requests'[i]) /\ requests'[i].serial = caller'[c].serial
  BY Zenon DEF CallMade
<1>2. \A d \in Callers : caller[d].pc = "wait" => d # c
  BY <1>1
<1>3. closed => \A d \in Callers : caller'[d].pc = "wait" => caller[d].pc = "wait"
  BY <1>1
<1>4. ASSUME ~closed, server = "open", NEW d \in Callers, caller'[d].pc = "wait"
      PROVE  Coming(d)'
  <2>1. CASE d # c
    <3>1. Coming(d) /\ caller'[d] = caller[d]
      BY <1>1, <1>4, <2>1 DEF WaitsInv
    <3>2. QED
      BY <1>1, <3>1 DEF Coming, Asks, IsAnswer
  <2>2. CASE d = c
    BY <1>1, <1>4, <2>2 DEF Coming, Asks
  <2>3. QED
    BY <2>1, <2>2
<1>5. ASSUME ~closed, server # "open"
      PROVE  SaysClose' \/ \E d \in Callers : AnswersClose(d)'
  <2>1. CASE SaysClose
    BY <1>1, <2>1 DEF SaysClose
  <2>2. ASSUME NEW d \in Callers, AnswersClose(d) PROVE AnswersClose(d)'
    <3>1. caller'[d] = caller[d]
      BY <1>1, <2>2 DEF AnswersClose
    <3>2. QED
      BY <1>1, <2>2, <3>1 DEF AnswersClose
  <2>3. QED
    BY <1>5, <2>1, <2>2 DEF WaitsInv
<1>6. QED
  BY <1>1, <1>3, <1>4, <1>5 DEF WaitsInv

LEMMA WaitsFails ==
  ASSUME RpcInv, WaitsInv, NEW c \in Callers, Rpc!CallFails(c)
  PROVE  WaitsInv'
<1>1. /\ errors /\ caller[c].pc = "wait" /\ caller' = [caller EXCEPT ![c].pc = "idle"]
      /\ closed' = (closed \/ caller[c].op = Rpc!Close)
  BY DEF Rpc!CallFails, Rpc!CloseIf
<1>2. closed'
  BY <1>1 DEF RpcInv, EndsInOrder
<1>3. \A d \in Callers : caller'[d].pc # "wait"
  <2>1. \A d \in Callers : d # c => caller[d].pc # "wait"
    BY <1>1, WaitsAlone DEF RpcInv
  <2>2. QED
    BY <1>1, <2>1 DEF RpcInv, RpcTypeOK
<1>4. QED
  BY <1>2, <1>3 DEF WaitsInv

(* The only answer under way is the one the caller gets.                   *)
LEMMA WaitsReply ==
  ASSUME RpcInv, WaitsInv, NEW c \in Callers, Rpc!Reply(c)
  PROVE  WaitsInv'
<1> DEFINE r == Head(replies)
<1>1. /\ ~closed /\ replies # <<>> /\ IsAnswer(r) /\ caller[c].pc = "wait"
      /\ replies' = Tail(replies) /\ caller' = [caller EXCEPT ![c].pc = "idle"]
      /\ closed' = (closed \/ caller[c].op = Rpc!Close)
      /\ UNCHANGED <<requests, errors, server>>
  BY Zenon DEF Rpc!Reply, Rpc!CloseIf, IsAnswer
<1>2. \A d \in Callers : caller'[d].pc # "wait"
  <2>1. \A d \in Callers : d # c => caller[d].pc # "wait"
    BY <1>1, WaitsAlone DEF RpcInv
  <2>2. QED
    BY <1>1, <2>1 DEF RpcInv, RpcTypeOK
<1>3. replies \in Seq(Replies)
  BY DEF RpcInv, RpcTypeOK
<1>4. r = replies[1] /\ 1 \in DOMAIN replies
  BY <1>1, <1>3, HeadTaken
<1>5. ASSUME server # "open", ~closed' PROVE SaysClose'
  <2>1. CASE SaysClose
    <3>1. PICK i \in DOMAIN replies : replies[i].msg = Rpc!channelClose
      BY <2>1 DEF SaysClose
    <3>2. replies[i] # Head(replies)
      BY <1>1, <3>1 DEF IsAnswer
    <3>3. PICK j \in DOMAIN Tail(replies) : Tail(replies)[j] = replies[i]
      BY <1>1, <1>3, <3>2, TailKeeps
    <3>4. QED
      BY <1>1, <3>1, <3>3 DEF SaysClose
  <2>2. ASSUME NEW d \in Callers, AnswersClose(d) PROVE FALSE
    <3>1. d = c /\ caller[c].op = Rpc!Close
      BY <1>1, <2>2, WaitsAlone DEF RpcInv, AnswersClose
    <3>2. QED
      BY <1>1, <1>5, <3>1
  <2>3. QED
    BY <1>1, <1>5, <2>1, <2>2 DEF WaitsInv
<1>6. QED
  BY <1>1, <1>2, <1>5 DEF WaitsInv

(* The reader takes a closing method or what concerns no caller.           *)
LEMMA WaitsRead ==
  ASSUME RpcInv, WaitsInv, Rpc!ClosedByServer \/ Rpc!DispatchAsync \/ Rpc!dispatchClosed
  PROVE  WaitsInv'
<1>1. replies \in Seq(Replies) /\ requests \in Seq(Requests)
  BY DEF RpcInv, RpcTypeOK
<1>2. CASE Rpc!ClosedByServer
  <2>1. closed' = TRUE /\ errors' = TRUE
    BY <1>2 DEF Rpc!ClosedByServer
  <2>2. QED
    BY <2>1 DEF WaitsInv
<1>3. CASE Rpc!dispatchClosed
  <2>1. closed /\ UNCHANGED <<caller, closed, errors>>
    BY <1>3 DEF Rpc!dispatchClosed
  <2>2. QED
    BY <2>1 DEF WaitsInv
<1>4. CASE Rpc!DispatchAsync
  <2>1. /\ ~closed /\ replies # <<>> /\ Head(replies).msg \in Rpc!Asynchronous
        /\ replies' = Tail(replies) /\ UNCHANGED <<caller, closed, errors, server>>
        /\ requests' = requests \/ \E x : requests' = Append(requests, x)
    BY <1>4, Zenon DEF Rpc!DispatchAsync, Rpc!Send
  <2>2. \A i \in DOMAIN requests : i \in DOMAIN requests' /\ requests'[i] = requests[i]
    <3>1. ASSUME NEW x, requests' = Append(requests, x)
          PROVE  \A i \in DOMAIN requests : i \in DOMAIN requests' /\ requests'[i] = requests[i]
      BY <1>1, <3>1, AppendedKeeps
    <3>2. QED
      BY <2>1, <3>1
  <2>3. ASSUME NEW i \in DOMAIN replies, replies[i].msg \notin Rpc!Asynchronous
        PROVE  \E j \in DOMAIN replies' : replies'[j] = replies[i]
    <3>1. replies[i] # Head(replies)
      BY <2>1, <2>3
    <3>2. QED
      BY <1>1, <2>1, <3>1, TailKeeps
  <2>4. ASSUME NEW c \in Callers, Coming(c) PROVE Coming(c)'
    <3>1. CASE \E i \in DOMAIN requests : Asks(requests[i]) /\ requests[i].serial = caller[c].serial
      BY <2>1, <2>2, <3>1 DEF Coming, Asks
    <3>2. ASSUME NEW i \in DOMAIN replies, IsAnswer(replies[i]), replies[i].serial = caller[c].serial
          PROVE  Coming(c)'
      <4>1. PICK j \in DOMAIN replies' : replies'[j] = replies[i]
        BY <2>3, <3>2 DEF IsAnswer
      <4>2. QED
        BY <2>1, <3>2, <4>1 DEF Coming, IsAnswer
    <3>3. QED
      BY <2>4, <3>1, <3>2 DEF Coming
  <2>5. SaysClose => SaysClose'
    BY <2>3, Closing DEF SaysClose
  <2>6. \A c \in Callers : AnswersClose(c) => AnswersClose(c)'
    BY <2>1, <2>3, Closing DEF AnswersClose
  <2>7. QED
    BY <2>1, <2>4, <2>5, <2>6 DEF WaitsInv
<1>5. QED
  BY <1>2, <1>3, <1>4

(* The server: a request it takes while it is open is answered, or the     *)
(* channel is closed by it, or the close is confirmed.                     *)
LEMMA WaitsServer ==
  ASSUME RpcInv, WaitsInv, Rpc!ServerAnswers \/ Rpc!ServerRefuses \/ Rpc!ServerIgnores
  PROVE  WaitsInv'
<1>1. PICK r : r = Head(requests)
  OBVIOUS
<1>2. replies \in Seq(Replies) /\ requests \in Seq(Requests) /\ requests # <<>>
  BY DEF RpcInv, RpcTypeOK, Rpc!ServerAnswers, Rpc!ServerRefuses, Rpc!ServerIgnores
<1>3. requests' = Tail(requests) /\ UNCHANGED <<caller, closed, errors>>
  BY Zenon DEF Rpc!ServerAnswers, Rpc!ServerRefuses, Rpc!ServerIgnores
<1>4. replies' = replies \/ \E a : replies' = Append(replies, a)
  BY Zenon DEF Rpc!ServerAnswers, Rpc!ServerRefuses, Rpc!ServerIgnores, Rpc!Answering
<1>5. \A i \in DOMAIN replies : i \in DOMAIN replies' /\ replies'[i] = replies[i]
  BY <1>2, <1>4, AppendedKeeps
<1>6. closed => WaitsInv'
  BY <1>3 DEF WaitsInv
<1>7. SaysClose => SaysClose'
  BY <1>5 DEF SaysClose
<1>8. CASE Rpc!ServerIgnores /\ ~closed
  <2>1. server # "open" /\ server' # "open"
    <3>1. server # "open" /\ server' = IF r.req \in {Rpc!channelClose, Rpc!channelCloseOk} THEN "closed" ELSE server
      BY <1>1, <1>8, Zenon DEF Rpc!ServerIgnores
    <3>2. QED
      BY <3>1
  <2>2. \A c \in Callers : AnswersClose(c) => AnswersClose(c)'
    BY <1>3, <1>5 DEF AnswersClose
  <2>3. QED
    BY <1>3, <1>7, <1>8, <2>1, <2>2 DEF WaitsInv
<1>9. CASE Rpc!ServerRefuses /\ ~closed
  <2>1. server' = "closing" /\ \E a : a.msg = Rpc!channelClose /\ replies' = Append(replies, a)
    BY <1>9, Zenon DEF Rpc!ServerRefuses, Rpc!Answering
  <2>2. SaysClose'
    BY <1>2, <2>1, AppendedKeeps DEF SaysClose
  <2>3. QED
    BY <1>3, <1>9, <2>1, <2>2 DEF WaitsInv
<1>10. CASE Rpc!ServerAnswers /\ ~closed
  <2>1. /\ server = "open" /\ server' = IF r.req = Rpc!channelClose THEN "closed" ELSE "open"
        /\ r.answered => \E m \in Rpc!AnswersTo(r.req) : replies' = Append(replies, [msg |-> m, serial |-> r.serial])
    BY <1>1, <1>10, Zenon DEF Rpc!ServerAnswers, Rpc!Answering
  <2>2. r = requests[1] /\ 1 \in DOMAIN requests /\ r \in Requests
    BY <1>1, <1>2, HeadTaken
  <2>3. (r.req = Rpc!channelClose => r.answered) /\ (r.answered => Awaited(r))
    BY <1>10, <2>2 DEF RpcInv, OneAtATime, Asks
  <2>4. ASSUME r.answered
        PROVE  \E c \in Callers : /\ Waiting(c, r.serial) /\ caller[c].op \in Rpc!AllCalls /\ caller[c].op.req = r.req
    BY <2>3, <2>4 DEF RpcInv, WhoWaits, Awaited, Waiting
  <2>5. CASE r.req = Rpc!channelClose
    <3>1. PICK c \in Callers : Waiting(c, r.serial) /\ caller[c].op \in Rpc!AllCalls /\ caller[c].op.req = r.req
      BY <2>3, <2>4, <2>5
    <3>2. PICK m \in Rpc!AnswersTo(r.req) : replies' = Append(replies, [msg |-> m, serial |-> r.serial])
      BY <2>1, <2>3, <2>5
    <3>3. m = Rpc!channelCloseOk /\ caller[c].op = Rpc!Close
      BY <2>5, <3>1, <3>2, CallsAreAnswerable DEF Answerable
    <3>4. AnswersClose(c)'
      <4>1. PICK i \in DOMAIN replies' : replies'[i] = [msg |-> m, serial |-> r.serial]
        BY <1>2, <3>2, AppendedKeeps
      <4>2. replies'[i].msg = Rpc!channelCloseOk /\ replies'[i].serial = caller'[c].serial /\ caller'[c].pc = "wait" /\ caller'[c].op = Rpc!Close
        BY <1>3, <3>1, <3>3, <4>1 DEF Waiting
      <4>3. QED
        BY <4>2 DEF AnswersClose
    <3>5. server' # "open"
      BY <2>1, <2>5
    <3>6. QED
      BY <1>3, <1>10, <3>4, <3>5 DEF WaitsInv
  <2>6. CASE r.req # Rpc!channelClose
    <3>1. server' = "open"
      BY <2>1, <2>6
    <3>2. ASSUME NEW c \in Callers, caller[c].pc = "wait" PROVE Coming(c)'
      <4>1. Coming(c)
        BY <1>10, <2>1, <3>2 DEF WaitsInv
      <4>2. CASE \E i \in DOMAIN replies : IsAnswer(replies[i]) /\ replies[i].serial = caller[c].serial
        BY <1>3, <1>5, <4>2 DEF Coming, IsAnswer
      <4>3. ASSUME NEW i \in DOMAIN requests, Asks(requests[i]), requests[i].serial = caller[c].serial
            PROVE  Coming(c)'
        <5>1. CASE requests[i] = r
          <6>1. r.answered /\ r.serial = caller[c].serial
            BY <4>3, <5>1 DEF Asks
          <6>2. PICK m \in Rpc!AnswersTo(r.req) : replies' = Append(replies, [msg |-> m, serial |-> r.serial])
            BY <2>1, <6>1
          <6>3. m \notin Rpc!Asynchronous \cup {Rpc!channelClose}
            BY <2>3, <6>1, <6>2, AnswerWelcome DEF RpcInv
          <6>4. PICK j \in DOMAIN replies' : replies'[j] = [msg |-> m, serial |-> r.serial]
            BY <1>2, <6>2, AppendedKeeps
          <6>5. replies'[j].msg = m /\ replies'[j].serial = caller'[c].serial
            BY <1>3, <6>1, <6>4
          <6>6. QED
            BY <6>3, <6>5 DEF Coming, IsAnswer
        <5>2. CASE requests[i] # r
          <6>1. PICK j \in DOMAIN Tail(requests) : Tail(requests)[j] = requests[i]
            BY <1>1, <1>2, <5>2, TailKeeps
          <6>2. QED
            BY <1>3, <4>3, <6>1 DEF Coming, Asks
        <5>3. QED
          BY <5>1, <5>2
      <4>4. QED
        BY <4>1, <4>2, <4>3 DEF Coming
    <3>3. QED
      BY <1>3, <1>10, <3>1, <3>2 DEF WaitsInv
  <2>7. QED
    BY <2>5, <2>6
<1>11. QED
  BY <1>6, <1>8, <1>9, <1>10

LEMMA WaitsSends ==
  ASSUME RpcInv, WaitsInv, NEW m \in Rpc!Asynchronous, Rpc!ServerSends(m)
  PROVE  WaitsInv'
<1>1. server = "open" /\ UNCHANGED <<caller, requests, closed, errors, server>> /\ \E a : replies' = Append(replies, a)
  BY DEF Rpc!ServerSends, Rpc!Answering
<1>2. replies \in Seq(Replies) /\ ~closed
  BY <1>1 DEF RpcInv, RpcTypeOK, EndsInOrder
<1>3. \A i \in DOMAIN replies : i \in DOMAIN replies' /\ replies'[i] = replies[i]
  BY <1>1, <1>2, AppendedKeeps
<1>4. \A c \in Callers : Coming(c) => Coming(c)'
  BY <1>1, <1>3 DEF Coming, Asks, IsAnswer
<1>5. QED
  BY <1>1, <1>2, <1>4 DEF WaitsInv

LEMMA WaitsStep == RpcInv /\ WaitsInv /\ [Rpc!Next]_rpcVars => WaitsInv'
<1> SUFFICES ASSUME RpcInv, WaitsInv, [Rpc!Next]_rpcVars PROVE WaitsInv'
  OBVIOUS
<1>1. CASE Rpc!Reader
  <2>1. CASE Rpc!ClosedByServer \/ Rpc!DispatchAsync \/ Rpc!dispatchClosed
    BY <2>1, WaitsRead
  <2>2. CASE \E c \in Callers : Rpc!Reply(c)
    BY <2>2, WaitsReply
  <2>3. QED
    BY <1>1, <2>1, <2>2, Zenon DEF Rpc!Reader
<1>2. CASE Rpc!Server \/ Rpc!ServerRefuses
  BY <1>2, WaitsServer, Zenon DEF Rpc!Server
<1>3. CASE \E m \in Rpc!Asynchronous : Rpc!ServerSends(m)
  BY <1>3, WaitsSends
<1>4. CASE \E c \in Callers : Rpc!CallSome(c) \/ Rpc!CallFails(c)
  <2>1. ASSUME NEW c \in Callers, Rpc!CallSome(c) PROVE WaitsInv'
    BY <2>1, CallStep, WaitsCall
  <2>2. ASSUME NEW c \in Callers, Rpc!CallFails(c) PROVE WaitsInv'
    BY <2>2, WaitsFails
  <2>3. QED
    BY <1>4, <2>1, <2>2
<1>5. CASE UNCHANGED rpcVars
  <2>1. UNCHANGED <<caller, requests, replies, closed, errors, server>>
    BY <1>5 DEF rpcVars
  <2>2. QED
    BY <2>1 DEF WaitsInv, Coming, SaysClose, AnswersClose, Asks, IsAnswer
<1>6. QED
  BY <1>1, <1>2, <1>3, <1>4, <1>5, Zenon DEF Rpc!Next

(* Requests and answers on a channel carry no reference to one another,    *)
(* and stay in step (channel.go, call and dispatch): no call gets an       *)
(* answer that is another's or that it does not accept, and the reader     *)
(* meets no method that would catch it on a closed channel, whatever calls *)
(* are made, refused, or crossed by a close from the other side.  A call   *)
(* never waits for what is not on its way, except for a Confirm that holds *)
(* the mutex which whoever should answer it needs: with the channel open a *)
(* request that the server will answer, its answer, or the server's        *)
(* channel.close is; with the channel closed the error is there, and       *)
(* nobody else has taken it (shutdown).                                    *)
THEOREM CallsInStep == Spec => []RpcInStep
<1>1. Init => WaitsInv
  <2>1. SUFFICES ASSUME Init PROVE WaitsInv
    OBVIOUS
  <2>2. Rpc!Init
    BY <2>1, Zenon DEF Init
  <2>3. closed = FALSE /\ server = "open" /\ \A c \in Callers : caller[c].pc = "idle"
    BY <2>2 DEF Rpc!Init
  <2>4. QED
    BY <2>3 DEF WaitsInv
<1>2. RpcInv /\ WaitsInv /\ [Next]_vars => RpcInv' /\ WaitsInv'
  BY OnlyCalls, RpcStep, WaitsStep
<1>3. RpcInv /\ WaitsInv => Rpc!NobodyWaitsInVain
  <2>1. SUFFICES ASSUME RpcInv, WaitsInv, NEW c \in Callers, caller[c].pc = "wait"
                 PROVE  IF closed THEN errors
                        ELSE \/ server = "open" /\ \E i \in DOMAIN requests :
                                  requests[i].answered /\ requests[i].serial = caller[c].serial
                             \/ \E i \in DOMAIN replies :
                                  replies[i].msg = Rpc!channelClose \/ replies[i].serial = caller[c].serial
    BY DEF Rpc!NobodyWaitsInVain
  <2>2. CASE closed
    BY <2>1, <2>2 DEF WaitsInv
  <2>3. CASE ~closed /\ server = "open"
    BY <2>1, <2>3 DEF WaitsInv, Coming, Asks
  <2>4. CASE ~closed /\ server # "open"
    <3>1. \A d \in Callers : AnswersClose(d) => d = c
      BY <2>1, WaitsAlone DEF RpcInv, AnswersClose
    <3>2. QED
      BY <2>1, <2>4, <3>1 DEF WaitsInv, SaysClose, AnswersClose
  <2>5. QED
    BY <2>2, <2>3, <2>4
<1>4. RpcInv /\ WaitsInv => RpcInStep
  BY <1>3 DEF RpcInv, RpcTypeOK, RpcInStep, Rpc!RpcInStep, Rpc!ReaderRuns
<1>5. QED
  BY RpcInit, <1>1, <1>2, <1>4, PTL DEF Spec

-----------------------------------------------------------------------------
(* The buffers of consumers: what ConsumersProofs proves of them. *)

Proved == INSTANCE ConsumersProofs

(* The buffers of this module are those that were proved about.            *)
LEMMA SameBuffers ==
  /\ Proved!ConsumersAssumption
  /\ Consuming!Init => Proved!Init
  /\ [Consuming!Next]_consumersVars => [Proved!Next]_consumersVars
<1>1. Proved!ConsumersAssumption
  BY ConsumersAssumption DEF Consuming!ConsumersAssumption, Proved!ConsumersAssumption
<1>2. Consuming!Init => Proved!Init
  BY DEF Consuming!Init, Proved!Init
<1>3. Consuming!Next => Proved!Next
  BY Zenon
  DEF Consuming!Next, Proved!Next, Consuming!closeAll, Proved!closeAll, Consuming!add, Proved!add,
      Consuming!close, Proved!close, Consuming!send, Proved!send, Consuming!Wait, Proved!Wait,
      Consuming!bufferDeliveries, Proved!bufferDeliveries, Consuming!RangeReceive, Proved!RangeReceive,
      Consuming!RangeEnd, Proved!RangeEnd, Consuming!SelectOut, Proved!SelectOut,
      Consuming!SelectDefault, Proved!SelectDefault, Consuming!LoopOut, Proved!LoopOut,
      Consuming!LoopIn, Proved!LoopIn, Consuming!LoopClosed, Proved!LoopClosed, Consuming!LoopEnd,
      Proved!LoopEnd, Consuming!Offered, Proved!Offered, Consuming!Unlocked, Proved!Unlocked,
      Consuming!Buffer, Proved!Buffer, Consuming!Receives, Proved!Receives
<1>4. QED
  BY <1>1, <1>2, <1>3

(* The buffer of a consumer is an unbounded queue (consumers.go:34): what  *)
(* the reader delivers reaches the consumer once and in order, and its end *)
(* comes last, however slow the consumer is.                               *)
THEOREM ClientQueues == Spec => IsDeliveryQueues
<1>1. Init => Consuming!Init
  BY Zenon DEF Init
<1>2. [Next]_vars => [Consuming!Next]_consumersVars
  <2>1. CASE Next
    BY <2>1, Zenon DEF Next
  <2>2. CASE UNCHANGED vars
    BY <2>2, Zenon DEF vars
  <2>3. QED
    BY <2>1, <2>2
<1>3. Spec => Proved!Spec
  BY <1>1, <1>2, SameBuffers, PTL DEF Spec, Proved!Spec, Proved!vars, consumersVars
<1>4. Proved!Spec => Proved!IsDeliveryQueues
  BY SameBuffers, Proved!BuffersAreQueues
<1>5. Proved!IsDeliveryQueues => IsDeliveryQueues
  <2>1. Proved!queueOf = Consuming!queueOf
    BY Zenon DEF Proved!queueOf, Consuming!queueOf
  <2>2. Proved!Queues!Init => Consuming!Queues!Init
    BY <2>1, Zenon DEF Proved!Queues!Init, Consuming!Queues!Init
  <2>3. [Proved!Queues!Next]_<<chans, Proved!queueOf, outClosed>>
          => [Consuming!Queues!Next]_<<chans, Consuming!queueOf, outClosed>>
    BY Zenon
    DEF Proved!queueOf, Consuming!queueOf, Proved!Queues!Next, Consuming!Queues!Next,
        Proved!Queues!Open, Consuming!Queues!Open, Proved!Queues!Deliver, Consuming!Queues!Deliver,
        Proved!Queues!Take, Consuming!Queues!Take, Proved!Queues!Close, Consuming!Queues!Close,
        Proved!Queues!End, Consuming!Queues!End
  <2>4. QED
    BY <2>2, <2>3, PTL
    DEF Proved!IsDeliveryQueues, IsDeliveryQueues, Consuming!IsDeliveryQueues, Proved!Queues!Spec,
        Consuming!Queues!Spec
<1>6. QED
  BY <1>3, <1>4, <1>5, PTL


-----------------------------------------------------------------------------
(* The listeners of a channel *)

Kinds == Notified!Kinds
Chans == Notified!Chans
Members(s) == Notified!Range(s)

ListenersTypeOK ==
  /\ pending \subseteq Registrations
  /\ lists \in [Kinds -> Seq(Chans)]
  /\ mutex \in {"nobody", "reader", "shutdown"}
  /\ buffered \in [Chans -> Seq(Nat)] /\ heard \in [Chans -> Seq(Nat)] /\ owed \in [Chans -> Seq(Nat)]
  /\ dispatching \in [pc : {"read", "lock", "send", "shutdown"}, n : Nat, to : Seq(Chans)]
  /\ ending \in [pc : {"none", "lock", "broadcast", "closing", "done"}, err : BOOLEAN,
                 by : {"nobody", "reader", "closer", "sender"}, to : Seq(Chans)]
  /\ count \in Nat
  /\ panicked \in {"no", "registering", "sending", "closing"}

(* A Go channel is on a list because of one call that registered it.       *)
Listed(c) == \E k \in Kinds : c \in Members(lists[k])
Registered ==
  /\ \A k \in Kinds : Notified!IsInjective(lists[k])
  /\ \A k \in Kinds : \A c \in Members(lists[k]) :
       \E call \in Registrations \ pending : k \in DOMAIN call /\ call[k] = c

(* The reader and shutdown go through a list as it was when they began.    *)
UnderWay ==
  /\ dispatching.pc \in {"read", "shutdown"} => dispatching.to = <<>>
  /\ ending.pc # "broadcast" => ending.to = <<>>
  /\ Notified!IsInjective(dispatching.to) /\ Notified!IsInjective(ending.to)
  /\ \A c \in Members(dispatching.to) : \E k \in Kinds \ {"close"} : c \in Members(lists[k])
  /\ Members(ending.to) \subseteq Members(lists["close"])

(* Who started shutdown, what it holds, and what the reader does then.     *)
Locks ==
  /\ ending.pc \in {"broadcast", "closing"} => mutex = "shutdown"
  /\ ending.pc = "none" <=> ending.by = "nobody"
  /\ ending.by \in {"reader", "closer"} => dispatching.pc \in {"read", "shutdown"}
  /\ closedChans # {} => ending.pc = "done"

(* What a Go channel is owed is what it got and what is on its way.        *)
OnItsWay(c) ==
  IF c \in Members(ending.to) THEN <<Notified!Error>>
  ELSE IF c \in Members(dispatching.to) THEN <<dispatching.n>> ELSE <<>>
AllOwed == \A c \in Chans : owed[c] = (heard[c] \o buffered[c]) \o OnItsWay(c)
NoneOwed == \A c \in Chans : ~Listed(c) => owed[c] = <<>>
EndOwed ==
  \A c \in Members(lists["close"]) :
    owed[c] = IF ending.pc \in {"broadcast", "closing", "done"} /\ ending.err THEN <<Notified!Error>> ELSE <<>>

ListenersInv ==
  /\ ListenersTypeOK /\ Registered /\ UnderWay /\ Locks /\ AllOwed /\ NoneOwed /\ EndOwed
  /\ Notified!ShutdownIsSafe


LEMMA NoMembers == Members(<<>>) = {} /\ Notified!IsInjective(<<>>)
  BY DEF Members, Notified!Range, Notified!IsInjective

LEMMA AppendedMembers ==
  ASSUME NEW S, NEW q \in Seq(S), NEW x \in S
  PROVE  /\ Members(Append(q, x)) = Members(q) \cup {x}
         /\ Notified!IsInjective(q) /\ x \notin Members(q) => Notified!IsInjective(Append(q, x))
<1> DEFINE n == Len(q)
           a == Append(q, x)
<1>1. n \in Nat /\ DOMAIN q = 1..n /\ DOMAIN a = 1..(n+1)
  OBVIOUS
<1>2. (\A i \in 1..n : a[i] = q[i]) /\ a[n+1] = x
  OBVIOUS
<1> HIDE DEF n, a
<1>3. \A i \in 1..(n+1) : i \in 1..n \/ i = n + 1
  BY <1>1
<1>4. 1..n \subseteq 1..(n+1) /\ n + 1 \in 1..(n+1)
  BY <1>1
<1>5. {a[i] : i \in 1..(n+1)} = {q[i] : i \in 1..n} \cup {x}
  BY <1>2, <1>3, <1>4
<1>6. Members(a) = Members(q) \cup {x}
  BY <1>1, <1>5 DEF Members, Notified!Range
<1>7. ASSUME Notified!IsInjective(q), x \notin Members(q) PROVE Notified!IsInjective(a)
  BY <1>1, <1>2, <1>3, <1>7 DEF Members, Notified!Range, Notified!IsInjective
<1>8. QED
  BY <1>6, <1>7 DEF a

LEMMA TailMembers ==
  ASSUME NEW S, NEW q \in Seq(S), q # <<>>
  PROVE  /\ Members(q) = Members(Tail(q)) \cup {Head(q)}
         /\ Notified!IsInjective(q) => Notified!IsInjective(Tail(q)) /\ Head(q) \notin Members(Tail(q))
<1> DEFINE n == Len(q)
           t == Tail(q)
<1>1. n \in Nat /\ n # 0 /\ DOMAIN q = 1..n /\ DOMAIN t = 1..(n-1)
  OBVIOUS
<1>2. (\A i \in 1..(n-1) : t[i] = q[i+1]) /\ Head(q) = q[1]
  OBVIOUS
<1> HIDE DEF n, t
<1>3. \A i \in 1..n : i = 1 \/ (i - 1 \in 1..(n-1) /\ (i - 1) + 1 = i)
  BY <1>1
<1>4. 1 \in 1..n /\ \A i \in 1..(n-1) : i + 1 \in 1..n /\ i + 1 # 1
  BY <1>1
<1>5. \A i, j \in 1..(n-1) : i + 1 = j + 1 => i = j
  OBVIOUS
<1>6. {q[i] : i \in 1..n} = {t[i] : i \in 1..(n-1)} \cup {q[1]}
  BY <1>2, <1>3, <1>4
<1>7. Members(q) = Members(t) \cup {Head(q)}
  BY <1>1, <1>2, <1>6 DEF Members, Notified!Range
<1>8. ASSUME Notified!IsInjective(q)
      PROVE  Notified!IsInjective(t) /\ Head(q) \notin Members(t)
  <2>1. \A i, j \in 1..n : q[i] = q[j] => i = j
    BY <1>1, <1>8 DEF Notified!IsInjective
  <2>2. \A i, j \in 1..(n-1) : t[i] = t[j] => i = j
    <3>1. TAKE i, j \in 1..(n-1)
    <3>2. HAVE t[i] = t[j]
    <3>3. q[i+1] = q[j+1] /\ i + 1 \in 1..n /\ j + 1 \in 1..n
      BY <1>2, <1>4, <3>2
    <3>4. i + 1 = j + 1
      BY <2>1, <3>3
    <3>5. QED
      BY <1>5, <3>4
  <2>3. \A i \in 1..(n-1) : t[i] # q[1]
    BY <1>2, <1>4, <2>1
  <2>4. QED
    BY <1>1, <1>2, <2>2, <2>3 DEF Members, Notified!Range, Notified!IsInjective
<1>9. QED
  BY <1>7, <1>8 DEF t

(* What a receiver took and what its Go channel holds.                     *)
LEMMA HeardOn ==
  ASSUME NEW s \in Seq(Nat), NEW t \in Seq(Nat), NEW x \in Nat
  PROVE  /\ s \o t \in Seq(Nat) /\ (s \o t) \o <<>> = s \o t
         /\ (s \o Append(t, x)) \o <<>> = (s \o t) \o <<x>>
         /\ Append(s \o t, x) = (s \o t) \o <<x>>
         /\ t # <<>> => Append(s, Head(t)) \o Tail(t) = s \o t
         /\ Append(<<>>, x) = <<x>>
<1>1. s \o t \in Seq(Nat) /\ <<x>> \in Seq(Nat) /\ <<>> \in Seq(Nat) /\ Append(t, x) = t \o <<x>>
  BY ConcatProperties, AppendIsConcat
<1>2. s \o Append(t, x) = (s \o t) \o <<x>> /\ (s \o t) \o <<x>> \in Seq(Nat)
  BY <1>1, ConcatAssociative, ConcatProperties
<1>3. (s \o t) \o <<>> = s \o t /\ (s \o Append(t, x)) \o <<>> = s \o Append(t, x)
  BY <1>1, <1>2, ConcatEmptySeq
<1>4. Append(s \o t, x) = (s \o t) \o <<x>>
  BY <1>1, AppendIsConcat
<1>5. ASSUME t # <<>> PROVE Append(s, Head(t)) \o Tail(t) = s \o t
  <2>1. Head(t) \in Nat /\ Tail(t) \in Seq(Nat) /\ t = <<Head(t)>> \o Tail(t)
    BY <1>5
  <2>2. PICK h \in Nat, r \in Seq(Nat) : h = Head(t) /\ r = Tail(t)
    BY <2>1
  <2>3. Append(s, h) = s \o <<h>> /\ <<h>> \in Seq(Nat)
    BY AppendIsConcat
  <2>4. (s \o <<h>>) \o r = s \o (<<h>> \o r)
    BY <2>3, ConcatAssociative
  <2>5. QED
    BY <2>1, <2>2, <2>3, <2>4, Zenon
<1>6. Append(<<>>, x) = <<x>>
  OBVIOUS
<1>7. QED
  BY <1>1, <1>2, <1>3, <1>4, <1>5, <1>6

(* A Go channel is registered by one call only, so that two lists share    *)
(* one only when it is registered for acks and for nacks.                  *)
LEMMA OneCall ==
  ASSUME NEW a \in Registrations, NEW b \in Registrations,
         NEW k \in DOMAIN a, NEW l \in DOMAIN b, a[k] = b[l]
  PROVE  a = b /\ (k = l \/ (k \in Notified!Confirmations /\ l \in Notified!Confirmations))
<1>1. a[k] \in Notified!ChansOf(a) /\ b[l] \in Notified!ChansOf(b)
  BY DEF Notified!ChansOf
<1>2. a = b
  BY <1>1, ListenersAssumption DEF Notified!ListenersAssumption
<1>3. DOMAIN a = Notified!Confirmations \/ \E m \in Notified!Kinds : DOMAIN a = {m}
  BY ListenersAssumption DEF Notified!ListenersAssumption
<1>4. QED
  BY <1>2, <1>3

LEMMA ListsApart ==
  ASSUME Registered
  PROVE  \A k, l \in Kinds : \A c \in Members(lists[k]) \cap Members(lists[l]) :
           k = l \/ (k \in Notified!Confirmations /\ l \in Notified!Confirmations)
<1> TAKE k, l \in Kinds
<1> TAKE c \in Members(lists[k]) \cap Members(lists[l])
<1>1. PICK a \in Registrations \ pending : k \in DOMAIN a /\ a[k] = c
  BY DEF Registered
<1>2. PICK b \in Registrations \ pending : l \in DOMAIN b /\ b[l] = c
  BY DEF Registered
<1>3. QED
  BY <1>1, <1>2, OneCall

LEMMA CloseApart ==
  ASSUME Registered
  PROVE  \A k \in Kinds \ {"close"} : Members(lists[k]) \cap Members(lists["close"]) = {}
<1>1. "close" \in Kinds /\ "close" \notin Notified!Confirmations
  BY DEF Kinds, Notified!Kinds, Notified!Confirmations
<1>2. QED
  BY <1>1, ListsApart

LEMMA MembersAreChans ==
  ASSUME ListenersTypeOK
  PROVE  /\ \A k \in Kinds : Members(lists[k]) \subseteq Chans
         /\ Members(dispatching.to) \subseteq Chans /\ Members(ending.to) \subseteq Chans
  BY DEF ListenersTypeOK, Members, Notified!Range

LEMMA ListenersInit == Init => ListenersInv
<1> SUFFICES ASSUME Init PROVE ListenersInv
  OBVIOUS
<1>1. Notified!Init
  BY Zenon DEF Init
<1>2. ListenersTypeOK
  BY <1>1 DEF Notified!Init, ListenersTypeOK, Kinds, Chans
<1>3. /\ closedChans = {} /\ dispatching.to = <<>> /\ ending.to = <<>> /\ ending.pc = "none"
      /\ ending.by = "nobody" /\ panicked = "no"
  BY <1>1 DEF Notified!Init
<1>4. /\ \A k \in Kinds : lists[k] = <<>>
      /\ \A c \in Chans : heard[c] = <<>> /\ buffered[c] = <<>> /\ owed[c] = <<>>
  BY <1>1 DEF Notified!Init, Kinds, Chans
<1>5. \A k \in Kinds : Members(lists[k]) = {} /\ Notified!IsInjective(lists[k])
  BY <1>4, NoMembers
<1>6. Members(dispatching.to) = {} /\ Members(ending.to) = {}
      /\ Notified!IsInjective(dispatching.to) /\ Notified!IsInjective(ending.to)
  BY <1>3, NoMembers
<1>7. Registered /\ UnderWay /\ Locks /\ Notified!ShutdownIsSafe
  BY <1>3, <1>5, <1>6 DEF Registered, UnderWay, Locks, Notified!ShutdownIsSafe
<1>8. AllOwed /\ NoneOwed
  <2>1. (<<>> \o <<>>) \o <<>> = <<>>
    BY HeardOn
  <2>2. \A c \in Chans : OnItsWay(c) = <<>>
    BY <1>6 DEF OnItsWay
  <2>3. QED
    BY <1>4, <2>1, <2>2 DEF AllOwed, NoneOwed
<1>9. EndOwed
  BY <1>5 DEF EndOwed, Kinds, Notified!Kinds
<1>10. QED
  BY <1>2, <1>7, <1>8, <1>9 DEF ListenersInv


(* What a step that leaves some of the state alone cannot disturb.         *)
LEMMA Undisturbed ==
  ASSUME ListenersInv
  PROVE  /\ UNCHANGED <<pending, lists>> => Registered'
         /\ UNCHANGED <<lists, dispatching, ending>> => UnderWay'
         /\ UNCHANGED <<mutex, ending, closedChans>> /\ dispatching'.pc = dispatching.pc => Locks'
         /\ UNCHANGED <<heard, buffered, owed, dispatching, ending>> => AllOwed'
         /\ UNCHANGED <<lists, owed>> => NoneOwed'
         /\ UNCHANGED <<lists, owed, ending>> => EndOwed'
         /\ UNCHANGED <<panicked, ending>> => Notified!ShutdownIsSafe'
<1> USE DEF ListenersInv
<1>1. ASSUME UNCHANGED <<pending, lists>> PROVE Registered'
  BY <1>1 DEF Registered, Members
<1>2. ASSUME UNCHANGED <<lists, dispatching, ending>> PROVE UnderWay'
  BY <1>2 DEF UnderWay, Members
<1>3. ASSUME UNCHANGED <<mutex, ending, closedChans>>, dispatching'.pc = dispatching.pc PROVE Locks'
  BY <1>3 DEF Locks
<1>4. ASSUME UNCHANGED <<heard, buffered, owed, dispatching, ending>> PROVE AllOwed'
  BY <1>4 DEF AllOwed, OnItsWay, Members
<1>5. ASSUME UNCHANGED <<lists, owed>> PROVE NoneOwed'
  BY <1>5 DEF NoneOwed, Listed, Members
<1>6. ASSUME UNCHANGED <<lists, owed, ending>> PROVE EndOwed'
  BY <1>6 DEF EndOwed, Members
<1>7. ASSUME UNCHANGED <<panicked, ending>> PROVE Notified!ShutdownIsSafe'
  BY <1>7 DEF Notified!ShutdownIsSafe
<1>8. QED
  BY <1>1, <1>2, <1>3, <1>4, <1>5, <1>6, <1>7

LEMMA ReceiveStep ==
  ASSUME ListenersInv, NEW c \in Notified!Chans, Notified!Receive(c)
  PROVE  ListenersInv'
<1> USE DEF ListenersInv
<1>1. UNCHANGED <<pending, lists, mutex, closedChans, owed, dispatching, count, ending, panicked>>
  BY Zenon DEF Notified!Receive
<1>2. /\ c \in Chans /\ buffered[c] # <<>> /\ heard[c] \in Seq(Nat) /\ buffered[c] \in Seq(Nat)
      /\ Head(buffered[c]) \in Nat /\ Tail(buffered[c]) \in Seq(Nat)
      /\ Append(heard[c], Head(buffered[c])) \in Seq(Nat)
      /\ heard' = [heard EXCEPT ![c] = Append(heard[c], Head(buffered[c]))]
      /\ buffered' = [buffered EXCEPT ![c] = Tail(buffered[c])]
  BY DEF Notified!Receive, ListenersTypeOK, Chans
<1>3. ListenersTypeOK'
  BY <1>1, <1>2 DEF ListenersTypeOK
<1>4. AllOwed'
  <2>1. \A d \in Chans : heard'[d] \o buffered'[d] = heard[d] \o buffered[d]
    <3>1. heard'[c] \o buffered'[c] = heard[c] \o buffered[c]
      BY <1>2, HeardOn DEF ListenersTypeOK
    <3>2. \A d \in Chans : d # c => heard'[d] = heard[d] /\ buffered'[d] = buffered[d]
      BY <1>2 DEF ListenersTypeOK
    <3>3. QED
      BY <3>1, <3>2
  <2>2. \A d \in Chans : OnItsWay(d)' = OnItsWay(d)
    BY <1>1 DEF OnItsWay, Members
  <2>3. QED
    BY <1>1, <2>1, <2>2 DEF AllOwed
<1>5. QED
  BY <1>1, <1>3, <1>4, Undisturbed

LEMMA NotifyStep ==
  ASSUME ListenersInv, NEW call \in Registrations, Notified!Notify(call)
  PROVE  ListenersInv'
<1> USE DEF ListenersInv
<1>1. /\ UNCHANGED <<mutex, buffered, heard, owed, dispatching, count, ending>>
      /\ call \in pending /\ pending' = pending \ {call} /\ mutex = "nobody" /\ panicked = "no"
  BY Zenon DEF Notified!Notify, Notified!Runs
<1>2. /\ \A k \in DOMAIN call : k \in Kinds /\ call[k] \in Chans
      /\ Notified!ChansOf(call) \subseteq Chans
  BY ListenersAssumption DEF Notified!ListenersAssumption, Kinds, Chans, Notified!Chans, Notified!ChansOf,
    Notified!Kinds, Notified!Confirmations
<1>3. CASE ending.pc = "done"
  <2>1. UNCHANGED lists /\ panicked' \in {"registering", "no"}
    BY <1>3, Zenon DEF Notified!Notify
  <2>2. ListenersTypeOK'
    BY <1>1, <2>1 DEF ListenersTypeOK
  <2>3. Registered'
    BY <1>1, <2>1 DEF Registered, Members
  <2>4. Locks'
    BY <1>1, <1>3 DEF Locks
  <2>5. Notified!ShutdownIsSafe'
    BY <2>1 DEF Notified!ShutdownIsSafe
  <2>6. QED
    BY <1>1, <2>1, <2>2, <2>3, <2>4, <2>5, Undisturbed
<1>4. CASE ending.pc # "done"
  <2>1. /\ lists' = [k \in Kinds |-> IF k \in DOMAIN call THEN Append(lists[k], call[k]) ELSE lists[k]]
        /\ UNCHANGED <<closedChans, panicked>>
    BY <1>4, Zenon DEF Notified!Notify, Notified!Register, Kinds
  <2>2. \A k \in DOMAIN call : ~Listed(call[k])
    BY <1>1, OneCall DEF Registered, Listed
  <2>3. \A k \in Kinds :
          /\ lists'[k] \in Seq(Chans)
          /\ Members(lists[k]) \subseteq Members(lists'[k])
          /\ Notified!IsInjective(lists'[k])
          /\ \A c \in Members(lists'[k]) : c \in Members(lists[k]) \/ (k \in DOMAIN call /\ c = call[k])
    <3>1. TAKE k \in Kinds
    <3>2. CASE k \in DOMAIN call
      <4>1. lists'[k] = Append(lists[k], call[k]) /\ lists[k] \in Seq(Chans) /\ call[k] \in Chans
        BY <1>2, <2>1, <3>2 DEF ListenersTypeOK
      <4>2. call[k] \notin Members(lists[k]) /\ Notified!IsInjective(lists[k])
        BY <2>2, <3>2 DEF Listed, Registered
      <4>3. /\ Append(lists[k], call[k]) \in Seq(Chans)
            /\ Members(Append(lists[k], call[k])) = Members(lists[k]) \cup {call[k]}
            /\ Notified!IsInjective(Append(lists[k], call[k]))
        BY <4>1, <4>2, AppendedMembers
      <4>4. QED
        BY <3>2, <4>1, <4>3
    <3>3. CASE k \notin DOMAIN call
      BY <2>1, <3>3 DEF ListenersTypeOK, Registered
    <3>4. QED
      BY <3>2, <3>3
  <2>4. ending.pc \notin {"broadcast", "closing", "done"}
    BY <1>1, <1>4 DEF Locks
  <2>5. ListenersTypeOK'
    BY <1>1, <2>1, <2>3 DEF ListenersTypeOK
  <2>6. Registered'
    <3>1. ASSUME NEW k \in Kinds, NEW c \in Members(lists'[k])
          PROVE  \E a \in Registrations \ pending' : k \in DOMAIN a /\ a[k] = c
      <4>1. CASE c \in Members(lists[k])
        BY <1>1, <4>1 DEF Registered
      <4>2. CASE k \in DOMAIN call /\ c = call[k]
        BY <1>1, <4>2
      <4>3. QED
        BY <2>3, <4>1, <4>2
    <3>2. QED
      BY <2>3, <3>1 DEF Registered, Members
  <2>7. UnderWay'
    <3>1. "close" \in Kinds
      BY DEF Kinds, Notified!Kinds
    <3>2. /\ \A c \in Members(dispatching.to) : \E k \in Kinds \ {"close"} : c \in Members(lists'[k])
          /\ Members(ending.to) \subseteq Members(lists'["close"])
      BY <2>3, <3>1 DEF UnderWay
    <3>3. QED
      BY <1>1, <3>2 DEF UnderWay, Members
  <2>8. NoneOwed'
    <3>1. \A c \in Chans : Listed(c) => Listed(c)'
      BY <2>3 DEF Listed, Members
    <3>2. QED
      BY <1>1, <3>1 DEF NoneOwed
  <2>9. EndOwed'
    <3>1. \A c \in Members(lists'["close"]) : owed[c] = <<>>
      <4>1. TAKE c \in Members(lists'["close"])
      <4>2. "close" \in Kinds
        BY DEF Kinds, Notified!Kinds
      <4>3. CASE c \in Members(lists["close"])
        BY <2>4, <4>3 DEF EndOwed
      <4>4. CASE "close" \in DOMAIN call /\ c = call["close"]
        BY <1>2, <2>2, <4>4 DEF NoneOwed
      <4>5. QED
        BY <2>3, <4>2, <4>3, <4>4
    <3>2. QED
      BY <1>1, <2>4, <3>1 DEF EndOwed, Members
  <2>10. QED
    BY <1>1, <2>1, <2>5, <2>6, <2>7, <2>8, <2>9, Undisturbed
<1>5. QED
  BY <1>3, <1>4


LEMMA DispatchStep ==
  ASSUME ListenersInv, NEW kind \in Notified!Kinds \ {"close"}, Notified!Dispatch(kind)
  PROVE  ListenersInv'
<1> USE DEF ListenersInv
<1>1. /\ UNCHANGED <<pending, lists, mutex, buffered, closedChans, heard, ending, panicked>>
      /\ ending.pc = "none" /\ dispatching.pc = "read"
      /\ count' = count + 1
      /\ owed' = [c \in Chans |-> IF c \in Members(lists[kind]) THEN Append(owed[c], count + 1) ELSE owed[c]]
  BY Zenon DEF Notified!Dispatch, Notified!Reads, Notified!Owe, Members, Chans
<1>2. /\ dispatching' \in [pc : {"read", "lock", "send", "shutdown"}, n : Nat, to : Seq(Chans)]
      /\ dispatching'.pc \in {"lock", "send"} /\ dispatching'.n = count + 1
      /\ dispatching'.to = lists[kind]
  BY <1>1 DEF Notified!Dispatch, ListenersTypeOK, Kinds
<1>3. kind \in Kinds /\ count + 1 \in Nat /\ "close" \in Kinds
  BY DEF ListenersTypeOK, Kinds, Notified!Kinds
<1>4. ListenersTypeOK'
  <2>1. owed' \in [Chans -> Seq(Nat)]
    BY <1>1, <1>3 DEF ListenersTypeOK
  <2>2. QED
    BY <1>1, <1>2, <1>3, <2>1 DEF ListenersTypeOK
<1>5. UnderWay'
  BY <1>1, <1>2, <1>3 DEF UnderWay, Registered, Members
<1>6. Locks'
  BY <1>1 DEF Locks
<1>7. AllOwed'
  <2>1. dispatching.to = <<>> /\ ending.to = <<>>
    BY <1>1 DEF UnderWay
  <2>2. \A c \in Chans : OnItsWay(c) = <<>> /\ c \notin Members(ending.to)
    BY <2>1, NoMembers DEF OnItsWay
  <2>3. \A c \in Chans : OnItsWay(c)' = IF c \in Members(lists[kind]) THEN <<count + 1>> ELSE <<>>
    BY <1>1, <1>2, <2>2 DEF OnItsWay, Members
  <2>4. \A c \in Chans : owed[c] = heard[c] \o buffered[c] /\ (heard[c] \o buffered[c]) \o <<>> = heard[c] \o buffered[c]
    <3>1. TAKE c \in Chans
    <3>2. heard[c] \in Seq(Nat) /\ buffered[c] \in Seq(Nat)
      BY DEF ListenersTypeOK
    <3>3. (heard[c] \o buffered[c]) \o <<>> = heard[c] \o buffered[c]
      BY <3>2, HeardOn
    <3>4. owed[c] = (heard[c] \o buffered[c]) \o <<>>
      BY <2>2 DEF AllOwed
    <3>5. QED
      BY <3>3, <3>4, Zenon
  <2>5. \A c \in Chans : Append(heard[c] \o buffered[c], count + 1) = (heard[c] \o buffered[c]) \o <<count + 1>>
    <3>1. TAKE c \in Chans
    <3>2. heard[c] \in Seq(Nat) /\ buffered[c] \in Seq(Nat) /\ count + 1 \in Nat
      BY DEF ListenersTypeOK
    <3>3. QED
      BY <3>2, HeardOn
  <2>6. ASSUME NEW c \in Chans
        PROVE  owed'[c] = (heard[c] \o buffered[c]) \o OnItsWay(c)'
    <3>1. CASE c \in Members(lists[kind])
      BY <1>1, <2>3, <2>4, <2>5, <3>1
    <3>2. CASE c \notin Members(lists[kind])
      BY <1>1, <2>3, <2>4, <3>2
    <3>3. QED
      BY <3>1, <3>2
  <2>7. QED
    BY <1>1, <2>6 DEF AllOwed
<1>8. NoneOwed' /\ EndOwed'
  <2>1. \A c \in Chans : ~Listed(c) => c \notin Members(lists[kind])
    BY <1>3 DEF Listed
  <2>2. \A c \in Members(lists["close"]) : c \in Chans /\ c \notin Members(lists[kind])
    BY <1>3, CloseApart, MembersAreChans
  <2>3. \A c \in Chans : c \notin Members(lists[kind]) => owed'[c] = owed[c]
    BY <1>1
  <2>4. \A c \in Chans : Listed(c)' = Listed(c)
    BY <1>1 DEF Listed, Members
  <2>5. NoneOwed'
    BY <2>1, <2>3, <2>4 DEF NoneOwed
  <2>6. EndOwed'
    BY <1>1, <2>2, <2>3 DEF EndOwed, Members
  <2>7. QED
    BY <2>5, <2>6
<1>9. QED
  BY <1>1, <1>4, <1>5, <1>6, <1>7, <1>8, Undisturbed

LEMMA ReadingStep ==
  ASSUME ListenersInv, Notified!confimLock \/ Notified!Dispatched
  PROVE  ListenersInv'
<1> USE DEF ListenersInv
<1>1. /\ UNCHANGED <<pending, lists, buffered, closedChans, heard, owed, count, ending, panicked>>
      /\ \/ /\ dispatching.pc = "lock" /\ mutex = "nobody" /\ mutex' = "reader"
            /\ dispatching' = [dispatching EXCEPT !.pc = "send"]
         \/ /\ dispatching.pc = "send" /\ dispatching.to = <<>>
            /\ dispatching' = [dispatching EXCEPT !.pc = "read"]
            /\ mutex' = IF mutex = "reader" THEN "nobody" ELSE mutex
  BY Zenon DEF Notified!confimLock, Notified!Dispatched
<1>2. /\ dispatching' \in [pc : {"read", "lock", "send", "shutdown"}, n : Nat, to : Seq(Chans)]
      /\ dispatching'.to = dispatching.to /\ dispatching'.n = dispatching.n
      /\ dispatching'.pc = "read" => dispatching.to = <<>>
      /\ dispatching.pc \notin {"read", "shutdown"} /\ dispatching'.pc \in {"read", "send"}
  BY <1>1 DEF ListenersTypeOK
<1>3. ListenersTypeOK'
  BY <1>1, <1>2 DEF ListenersTypeOK
<1>4. UnderWay'
  BY <1>1, <1>2 DEF UnderWay, Members
<1>5. Locks'
  <2>1. ending.pc \in {"broadcast", "closing"} => mutex' = "shutdown"
    BY <1>1 DEF Locks
  <2>2. ending.by \notin {"reader", "closer"}
    BY <1>2 DEF Locks
  <2>3. QED
    BY <1>1, <2>1, <2>2 DEF Locks
<1>6. AllOwed'
  <2>1. \A c \in Chans : OnItsWay(c)' = OnItsWay(c)
    BY <1>1, <1>2 DEF OnItsWay, Members
  <2>2. QED
    BY <1>1, <2>1 DEF AllOwed
<1>7. QED
  BY <1>1, <1>3, <1>4, <1>5, <1>6, Undisturbed

LEMMA SendStep ==
  ASSUME ListenersInv, Notified!Send
  PROVE  ListenersInv'
<1> USE DEF ListenersInv
<1>1. PICK c : c = Head(dispatching.to)
  OBVIOUS
<1>2. /\ UNCHANGED <<pending, lists, mutex, closedChans, heard, owed, count, ending>>
      /\ dispatching.pc = "send" /\ dispatching.to # <<>> /\ panicked = "no"
      /\ \/ c \in closedChans /\ panicked' = "sending" /\ UNCHANGED <<buffered, dispatching>>
         \/ /\ buffered' = [buffered EXCEPT ![c] = Append(@, dispatching.n)]
            /\ dispatching' = [dispatching EXCEPT !.to = Tail(@)]
            /\ UNCHANGED panicked
  BY <1>1, Zenon DEF Notified!Send, Notified!Runs, Notified!Put, Notified!Sent
<1>3. CASE c \in closedChans /\ panicked' = "sending" /\ UNCHANGED <<buffered, dispatching>>
  <2>1. ending.by = "sender"
    <3>1. ending.pc = "done"
      BY <1>3 DEF Locks
    <3>2. ending.by \notin {"nobody", "reader", "closer"}
      BY <1>2, <3>1 DEF Locks
    <3>3. QED
      BY <3>2 DEF ListenersTypeOK
  <2>2. Notified!ShutdownIsSafe'
    BY <1>2, <1>3, <2>1 DEF Notified!ShutdownIsSafe
  <2>3. ListenersTypeOK'
    BY <1>2, <1>3 DEF ListenersTypeOK
  <2>4. QED
    BY <1>2, <1>3, <2>2, <2>3, Undisturbed
<1>4. CASE /\ buffered' = [buffered EXCEPT ![c] = Append(@, dispatching.n)]
           /\ dispatching' = [dispatching EXCEPT !.to = Tail(@)]
           /\ UNCHANGED panicked
  <2>1. /\ dispatching.to \in Seq(Chans) /\ dispatching.n \in Nat /\ c \in Chans
        /\ Tail(dispatching.to) \in Seq(Chans)
    BY <1>1, <1>2 DEF ListenersTypeOK
  <2>2. /\ dispatching' \in [pc : {"read", "lock", "send", "shutdown"}, n : Nat, to : Seq(Chans)]
        /\ dispatching'.pc = "send" /\ dispatching'.n = dispatching.n
        /\ dispatching'.to = Tail(dispatching.to)
    BY <1>2, <1>4, <2>1 DEF ListenersTypeOK
  <2>3. /\ Members(dispatching.to) = Members(dispatching'.to) \cup {c}
        /\ Notified!IsInjective(dispatching'.to) /\ c \notin Members(dispatching'.to)
    BY <1>1, <1>2, <2>1, <2>2, TailMembers DEF UnderWay
  <2>4. /\ buffered[c] \in Seq(Nat) /\ heard[c] \in Seq(Nat) /\ Append(buffered[c], dispatching.n) \in Seq(Nat)
        /\ buffered' \in [Chans -> Seq(Nat)] /\ buffered'[c] = Append(buffered[c], dispatching.n)
        /\ \A d \in Chans : d # c => buffered'[d] = buffered[d]
    BY <1>4, <2>1, SMTT(20) DEF ListenersTypeOK
  <2>5. ListenersTypeOK'
    BY <1>2, <1>4, <2>2, <2>4 DEF ListenersTypeOK
  <2>6. UnderWay'
    BY <1>2, <2>2, <2>3 DEF UnderWay, Members
  <2>7. Locks'
    BY <1>2, <2>2 DEF Locks
  <2>8. c \notin Members(ending.to)
    <3>1. PICK k \in Kinds \ {"close"} : c \in Members(lists[k])
      BY <2>3 DEF UnderWay
    <3>2. QED
      BY <3>1, CloseApart DEF UnderWay
  <2>9. AllOwed'
    <3>1. OnItsWay(c) = <<dispatching.n>> /\ OnItsWay(c)' = <<>>
      BY <1>2, <2>2, <2>3, <2>8 DEF OnItsWay, Members
    <3>2. \A d \in Chans : d # c => OnItsWay(d)' = OnItsWay(d)
      BY <1>2, <2>2, <2>3 DEF OnItsWay, Members
    <3>3. (heard[c] \o Append(buffered[c], dispatching.n)) \o <<>> = (heard[c] \o buffered[c]) \o <<dispatching.n>>
      BY <2>1, <2>4, HeardOn
    <3>4. \A d \in Chans : owed[d] = (heard[d] \o buffered'[d]) \o OnItsWay(d)'
      BY <2>4, <3>1, <3>2, <3>3 DEF AllOwed
    <3>5. QED
      BY <1>2, <3>4 DEF AllOwed
  <2>10. QED
    BY <1>2, <1>4, <2>2, <2>5, <2>6, <2>7, <2>9, Undisturbed
<1>5. QED
  BY <1>2, <1>3, <1>4


LEMMA BeginStep ==
  ASSUME ListenersInv, Notified!ReadClose \/ Notified!ReadCloseOk \/ Notified!SendFails
  PROVE  ListenersInv'
<1> USE DEF ListenersInv
<1>1. /\ UNCHANGED <<pending, lists, mutex, buffered, closedChans, heard, owed, count, panicked>>
      /\ ending.pc = "none" /\ panicked = "no"
      /\ \E err \in BOOLEAN, by \in {"reader", "closer", "sender"} :
           /\ ending' = [ending EXCEPT !.pc = "lock", !.err = err, !.by = by]
           /\ \/ dispatching.pc = "read" /\ UNCHANGED dispatching
              \/ dispatching.pc = "read" /\ dispatching' = [dispatching EXCEPT !.pc = "shutdown"]
              \/ by = "sender" /\ UNCHANGED dispatching
  BY Zenon DEF Notified!ReadClose, Notified!ReadCloseOk, Notified!SendFails, Notified!Begin, Notified!Reads, Notified!Runs
<1>2. PICK err \in BOOLEAN, by \in {"reader", "closer", "sender"} :
           /\ ending' = [ending EXCEPT !.pc = "lock", !.err = err, !.by = by]
           /\ \/ dispatching.pc = "read" /\ UNCHANGED dispatching
              \/ dispatching.pc = "read" /\ dispatching' = [dispatching EXCEPT !.pc = "shutdown"]
              \/ by = "sender" /\ UNCHANGED dispatching
  BY <1>1
<1>3. /\ ending' \in [pc : {"none", "lock", "broadcast", "closing", "done"}, err : BOOLEAN,
                      by : {"nobody", "reader", "closer", "sender"}, to : Seq(Chans)]
      /\ ending'.pc = "lock" /\ ending'.by = by /\ ending'.to = ending.to
  BY <1>2 DEF ListenersTypeOK
<1>4. /\ dispatching' \in [pc : {"read", "lock", "send", "shutdown"}, n : Nat, to : Seq(Chans)]
      /\ dispatching'.to = dispatching.to /\ dispatching'.n = dispatching.n
      /\ by # "sender" => dispatching'.pc \in {"read", "shutdown"}
      /\ dispatching'.pc \in {"read", "shutdown"} => dispatching.pc \in {"read", "shutdown"}
  BY <1>2 DEF ListenersTypeOK
<1>5. ListenersTypeOK'
  BY <1>1, <1>3, <1>4 DEF ListenersTypeOK
<1>6. UnderWay'
  BY <1>1, <1>3, <1>4 DEF UnderWay, Members
<1>7. Locks'
  BY <1>1, <1>3, <1>4 DEF Locks
<1>8. AllOwed' /\ EndOwed' /\ Notified!ShutdownIsSafe'
  <2>1. \A c \in Chans : OnItsWay(c)' = OnItsWay(c)
    BY <1>1, <1>3, <1>4 DEF OnItsWay, Members
  <2>2. AllOwed'
    BY <1>1, <2>1 DEF AllOwed
  <2>3. EndOwed' /\ Notified!ShutdownIsSafe'
    BY <1>1, <1>3 DEF EndOwed, Members, Notified!ShutdownIsSafe
  <2>4. QED
    BY <2>2, <2>3
<1>9. QED
  BY <1>1, <1>5, <1>6, <1>7, <1>8, Undisturbed, SMTT(30)

LEMMA LockStep ==
  ASSUME ListenersInv, Notified!Lock
  PROVE  ListenersInv'
<1> USE DEF ListenersInv
<1>1. /\ UNCHANGED <<pending, lists, buffered, closedChans, heard, dispatching, count, panicked>>
      /\ ending.pc = "lock" /\ mutex = "nobody" /\ mutex' = "shutdown"
      /\ \/ /\ ending.err
            /\ ending' = [ending EXCEPT !.pc = "broadcast", !.to = lists["close"]]
            /\ owed' = [c \in Chans |-> IF c \in Members(lists["close"]) THEN Append(owed[c], Notified!Error)
                                                                        ELSE owed[c]]
         \/ /\ ~ending.err
            /\ ending' = [ending EXCEPT !.pc = "closing", !.to = <<>>]
            /\ UNCHANGED owed
  BY Zenon DEF Notified!Lock, Notified!Locked, Notified!Runs, Notified!Owe, Members, Chans
<1>2. "close" \in Kinds /\ Notified!Error \in Nat /\ ending.to = <<>> /\ lists["close"] \in Seq(Chans)
  BY <1>1 DEF Kinds, Notified!Kinds, Notified!Error, UnderWay, ListenersTypeOK
<1>3. /\ ending' \in [pc : {"none", "lock", "broadcast", "closing", "done"}, err : BOOLEAN,
                      by : {"nobody", "reader", "closer", "sender"}, to : Seq(Chans)]
      /\ ending'.by = ending.by /\ ending'.err = ending.err
      /\ ending'.pc = IF ending.err THEN "broadcast" ELSE "closing"
      /\ ending'.to = IF ending.err THEN lists["close"] ELSE <<>>
  BY <1>1, <1>2 DEF ListenersTypeOK
<1>4. owed' \in [Chans -> Seq(Nat)]
  <2>1. owed \in [Chans -> Seq(Nat)] /\ \A c \in Chans : Append(owed[c], Notified!Error) \in Seq(Nat)
    BY <1>2 DEF ListenersTypeOK
  <2>2. QED
    BY <1>1, <2>1
<1>5. ListenersTypeOK'
  BY <1>1, <1>3, <1>4 DEF ListenersTypeOK
<1>6. UnderWay'
  <2>1. Members(ending'.to) \subseteq Members(lists["close"]) /\ Notified!IsInjective(ending'.to)
    BY <1>2, <1>3, NoMembers DEF Registered
  <2>2. QED
    BY <1>1, <1>3, <2>1 DEF UnderWay, Members
<1>7. Locks'
  <2>1. closedChans = {} /\ ending.by # "nobody"
    BY <1>1 DEF Locks
  <2>2. QED
    BY <1>1, <1>3, <2>1 DEF Locks
<1>8. AllOwed' /\ NoneOwed' /\ EndOwed'
  <2>1. Members(ending.to) = {} /\ \A c \in Members(lists["close"]) : c \in Chans /\ owed[c] = <<>>
    BY <1>1, <1>2, NoMembers, MembersAreChans DEF EndOwed
  <2>2. \A c \in Chans : Listed(c)' = Listed(c)
    BY <1>1 DEF Listed, Members
  <2>3. CASE ~ending.err
    <3>1. UNCHANGED owed /\ Members(ending'.to) = {}
      BY <1>1, <1>3, <2>3, NoMembers
    <3>2. \A c \in Chans : OnItsWay(c)' = OnItsWay(c)
      BY <1>1, <2>1, <3>1 DEF OnItsWay, Members
    <3>3. EndOwed'
      BY <1>1, <1>3, <2>1, <2>3, <3>1 DEF EndOwed, Members
    <3>4. QED
      BY <1>1, <2>2, <3>1, <3>2, <3>3 DEF AllOwed, NoneOwed
  <2>4. CASE ending.err
    <3>1. Members(dispatching.to) \cap Members(lists["close"]) = {}
      BY <1>2, CloseApart DEF UnderWay
    <3>2. \A c \in Chans : IF c \in Members(lists["close"]) THEN owed'[c] = <<Notified!Error>> ELSE owed'[c] = owed[c]
      BY <1>1, <1>2, <2>1, <2>4, HeardOn
    <3>3. \A c \in Chans : IF c \in Members(lists["close"])
                           THEN OnItsWay(c) = <<>> /\ OnItsWay(c)' = <<Notified!Error>>
                           ELSE OnItsWay(c)' = OnItsWay(c)
      BY <1>1, <1>3, <2>1, <2>4, <3>1 DEF OnItsWay, Members
    <3>4. AllOwed'
      <4>1. ASSUME NEW c \in Chans PROVE owed'[c] = (heard[c] \o buffered[c]) \o OnItsWay(c)'
        <5>1. CASE c \in Members(lists["close"])
          <6>1. heard[c] \in Seq(Nat) /\ buffered[c] \in Seq(Nat) /\ heard[c] \o buffered[c] \in Seq(Nat)
            BY HeardOn DEF ListenersTypeOK
          <6>2. (heard[c] \o buffered[c]) \o <<>> = <<>>
            BY <2>1, <3>3, <5>1 DEF AllOwed
          <6>3. heard[c] \o buffered[c] = <<>>
            BY <6>1, <6>2, HeardOn
          <6>4. <<>> \o <<Notified!Error>> = <<Notified!Error>>
            BY <1>2, HeardOn
          <6>5. QED
            BY <3>2, <3>3, <5>1, <6>3, <6>4
        <5>2. CASE c \notin Members(lists["close"])
          BY <3>2, <3>3, <5>2 DEF AllOwed
        <5>3. QED
          BY <5>1, <5>2
      <4>2. QED
        BY <1>1, <4>1 DEF AllOwed
    <3>5. NoneOwed'
      <4>1. \A c \in Members(lists["close"]) : Listed(c)
        BY <1>2 DEF Listed
      <4>2. QED
        BY <2>2, <3>2, <4>1 DEF NoneOwed
    <3>6. EndOwed'
      BY <1>1, <1>3, <2>1, <2>4, <3>2 DEF EndOwed, Members
    <3>7. QED
      BY <3>4, <3>5, <3>6
  <2>5. QED
    BY <2>3, <2>4
<1>9. Notified!ShutdownIsSafe'
  BY <1>1, <1>3 DEF Notified!ShutdownIsSafe
<1>10. QED
  BY <1>1, <1>5, <1>6, <1>7, <1>8, <1>9, Undisturbed

LEMMA BroadcastStep ==
  ASSUME ListenersInv, Notified!Broadcast
  PROVE  ListenersInv'
<1> USE DEF ListenersInv
<1>1. PICK c : c = Head(ending.to)
  OBVIOUS
<1>2. /\ UNCHANGED <<pending, lists, mutex, closedChans, heard, owed, dispatching, count, panicked>>
      /\ ending.pc = "broadcast"
      /\ \/ /\ ending.to # <<>>
            /\ buffered' = [buffered EXCEPT ![c] = Append(@, Notified!Error)]
            /\ ending' = [ending EXCEPT !.to = Tail(@)]
         \/ /\ ending.to = <<>>
            /\ ending' = [ending EXCEPT !.pc = "closing"]
            /\ UNCHANGED buffered
  BY <1>1, Zenon DEF Notified!Broadcast, Notified!Put
<1>3. mutex = "shutdown" /\ ending.by # "nobody" /\ closedChans = {}
  BY <1>2 DEF Locks
<1>4. CASE /\ ending.to = <<>>
           /\ ending' = [ending EXCEPT !.pc = "closing"]
           /\ UNCHANGED buffered
  <2>1. /\ ending' \in [pc : {"none", "lock", "broadcast", "closing", "done"}, err : BOOLEAN,
                        by : {"nobody", "reader", "closer", "sender"}, to : Seq(Chans)]
        /\ ending'.pc = "closing" /\ ending'.by = ending.by /\ ending'.err = ending.err /\ ending'.to = ending.to
    BY <1>4 DEF ListenersTypeOK
  <2>2. ListenersTypeOK'
    BY <1>2, <1>4, <2>1 DEF ListenersTypeOK
  <2>3. UnderWay' /\ Locks'
    BY <1>2, <1>3, <1>4, <2>1 DEF UnderWay, Locks, Members
  <2>4. \A d \in Chans : OnItsWay(d)' = OnItsWay(d)
    BY <1>2, <2>1 DEF OnItsWay, Members
  <2>5. AllOwed' /\ EndOwed' /\ Notified!ShutdownIsSafe'
    BY <1>2, <1>4, <2>1, <2>4 DEF AllOwed, EndOwed, Members, Notified!ShutdownIsSafe
  <2>6. QED
    BY <1>2, <2>2, <2>3, <2>5, Undisturbed
<1>5. CASE /\ ending.to # <<>>
           /\ buffered' = [buffered EXCEPT ![c] = Append(@, Notified!Error)]
           /\ ending' = [ending EXCEPT !.to = Tail(@)]
  <2>1. /\ ending.to \in Seq(Chans) /\ c \in Chans /\ Tail(ending.to) \in Seq(Chans) /\ Notified!Error \in Nat
    BY <1>1, <1>5 DEF ListenersTypeOK, Notified!Error
  <2>2. /\ ending' \in [pc : {"none", "lock", "broadcast", "closing", "done"}, err : BOOLEAN,
                        by : {"nobody", "reader", "closer", "sender"}, to : Seq(Chans)]
        /\ ending'.pc = "broadcast" /\ ending'.by = ending.by /\ ending'.err = ending.err
        /\ ending'.to = Tail(ending.to)
    BY <1>2, <1>5, <2>1 DEF ListenersTypeOK
  <2>3. /\ Members(ending.to) = Members(ending'.to) \cup {c}
        /\ Notified!IsInjective(ending'.to) /\ c \notin Members(ending'.to)
    BY <1>1, <1>5, <2>1, <2>2, TailMembers DEF UnderWay
  <2>4. /\ buffered[c] \in Seq(Nat) /\ heard[c] \in Seq(Nat) /\ Append(buffered[c], Notified!Error) \in Seq(Nat)
        /\ buffered' \in [Chans -> Seq(Nat)] /\ buffered'[c] = Append(buffered[c], Notified!Error)
        /\ \A d \in Chans : d # c => buffered'[d] = buffered[d]
    BY <1>5, <2>1, SMTT(20) DEF ListenersTypeOK
  <2>5. ListenersTypeOK'
    BY <1>2, <2>2, <2>4 DEF ListenersTypeOK
  <2>6. UnderWay' /\ Locks'
    BY <1>2, <1>3, <2>2, <2>3 DEF UnderWay, Locks, Members
  <2>7. c \notin Members(dispatching.to)
    BY <2>3, CloseApart DEF UnderWay
  <2>8. AllOwed'
    <3>1. OnItsWay(c) = <<Notified!Error>> /\ OnItsWay(c)' = <<>>
      BY <1>2, <2>2, <2>3, <2>7 DEF OnItsWay, Members
    <3>2. \A d \in Chans : d # c => OnItsWay(d)' = OnItsWay(d)
      BY <1>2, <2>2, <2>3 DEF OnItsWay, Members
    <3>3. (heard[c] \o Append(buffered[c], Notified!Error)) \o <<>> = (heard[c] \o buffered[c]) \o <<Notified!Error>>
      BY <2>1, <2>4, HeardOn
    <3>4. \A d \in Chans : owed[d] = (heard[d] \o buffered'[d]) \o OnItsWay(d)'
      BY <2>4, <3>1, <3>2, <3>3 DEF AllOwed
    <3>5. QED
      BY <1>2, <3>4 DEF AllOwed
  <2>9. EndOwed' /\ Notified!ShutdownIsSafe'
    BY <1>2, <2>2 DEF EndOwed, Members, Notified!ShutdownIsSafe
  <2>10. QED
    BY <1>2, <2>5, <2>6, <2>8, <2>9, Undisturbed
<1>6. QED
  BY <1>2, <1>4, <1>5


(* One list after another, and a set as a list.                            *)
LEMMA InjectiveConcat ==
  ASSUME NEW S, NEW s \in Seq(S), NEW t \in Seq(S),
         Notified!IsInjective(s), Notified!IsInjective(t), Members(s) \cap Members(t) = {}
  PROVE  /\ s \o t \in Seq(S) /\ Notified!IsInjective(s \o t)
         /\ Members(s \o t) = Members(s) \cup Members(t)
<1> DEFINE m == Len(s)
           n == Len(t)
           u == s \o t
<1>1. m \in Nat /\ n \in Nat /\ DOMAIN s = 1..m /\ DOMAIN t = 1..n /\ u \in Seq(S) /\ DOMAIN u = 1..(m+n)
  OBVIOUS
<1>2. /\ \A i \in 1..m : u[i] = s[i]
      /\ \A i \in 1..(m+n) : i \notin 1..m => u[i] = t[i-m]
      /\ \A i \in 1..n : u[i+m] = t[i]
  OBVIOUS
<1> HIDE DEF m, n, u
<1>3. /\ \A i \in 1..(m+n) : i \notin 1..m => i - m \in 1..n
      /\ \A i \in 1..m : i \in 1..(m+n)
      /\ \A i \in 1..n : i + m \in 1..(m+n)
      /\ \A i, j \in 1..(m+n) : i - m = j - m => i = j
  BY <1>1
<1>4. /\ \A i, j \in 1..m : s[i] = s[j] => i = j
      /\ \A i, j \in 1..n : t[i] = t[j] => i = j
      /\ \A i \in 1..m, j \in 1..n : s[i] # t[j]
  <2>1. /\ \A i, j \in 1..m : s[i] = s[j] => i = j
        /\ \A i, j \in 1..n : t[i] = t[j] => i = j
    BY <1>1, Zenon DEF Notified!IsInjective
  <2>2. \A i \in 1..m : s[i] \in Members(s)
    BY <1>1, Zenon DEF Members, Notified!Range
  <2>3. \A j \in 1..n : t[j] \in Members(t)
    BY <1>1, Zenon DEF Members, Notified!Range
  <2>4. QED
    BY <2>1, <2>2, <2>3
<1>5. Notified!IsInjective(u)
  <2>1. SUFFICES ASSUME NEW i \in 1..(m+n), NEW j \in 1..(m+n), u[i] = u[j] PROVE i = j
    BY <1>1 DEF Notified!IsInjective
  <2>2. CASE i \in 1..m /\ j \in 1..m
    BY <1>2, <1>4, <2>1, <2>2
  <2>3. CASE i \notin 1..m /\ j \notin 1..m
    <3>1. t[i-m] = t[j-m] /\ i - m \in 1..n /\ j - m \in 1..n
      BY <1>2, <1>3, <2>1, <2>3
    <3>2. i - m = j - m
      BY <1>4, <3>1
    <3>3. QED
      BY <1>3, <3>2
  <2>4. CASE (i \in 1..m /\ j \notin 1..m) \/ (i \notin 1..m /\ j \in 1..m)
    BY <1>2, <1>3, <1>4, <2>1, <2>4
  <2>5. QED
    BY <2>2, <2>3, <2>4
<1>6. {u[i] : i \in 1..(m+n)} = {s[i] : i \in 1..m} \cup {t[i] : i \in 1..n}
  <2>1. \A i \in 1..(m+n) : (i \in 1..m /\ u[i] = s[i]) \/ (i - m \in 1..n /\ u[i] = t[i-m])
    BY <1>2, <1>3
  <2>2. \A i \in 1..m : i \in 1..(m+n) /\ u[i] = s[i]
    BY <1>2, <1>3
  <2>3. \A i \in 1..n : i + m \in 1..(m+n) /\ u[i+m] = t[i]
    BY <1>2, <1>3
  <2>4. QED
    BY <2>1, <2>2, <2>3, SMTT(30)
<1>7. QED
  BY <1>1, <1>5, <1>6 DEF u, Members, Notified!Range

LEMMA MembersFinite ==
  ASSUME NEW S, NEW q \in Seq(S)
  PROVE  IsFiniteSet(Members(q))
<1> DEFINE n == Len(q)
<1>1. n \in Nat /\ DOMAIN q = 1..n /\ IsFiniteSet(1..n)
  BY FS_Interval
<1>2. q \in Surjection(1..n, Members(q))
  <2>1. q \in [1..n -> Members(q)]
    BY <1>1 DEF Members, Notified!Range
  <2>2. \A x \in Members(q) : \E i \in 1..n : q[i] = x
    BY <1>1 DEF Members, Notified!Range
  <2>3. QED
    BY <2>1, <2>2 DEF Surjection
<1>3. QED
  BY <1>1, <1>2, FS_Surjection

LEMMA SetListed ==
  ASSUME NEW T, IsFiniteSet(T)
  PROVE  /\ Notified!SetToSeq(T) \in Seq(T)
         /\ Notified!IsInjective(Notified!SetToSeq(T))
<1> DEFINE n == Cardinality(T)
           l == Notified!SetToSeq(T)
<1>1. n \in Nat
  BY FS_CardinalityType
<1>2. Notified!Cardinality(T) = n
  BY Zenon DEF Notified!Cardinality, Cardinality
<1>3. \E f \in [1..n -> T] : Notified!IsInjective(f)
  <2>1. PICK f \in Bijection(1..n, T) : TRUE
    BY FS_CardinalityType DEF ExistsBijection
  <2> HIDE DEF n
  <2>2. f \in Injection(1..n, T)
    BY <2>1 DEF Bijection
  <2>3. f \in [1..n -> T] /\ Notified!IsInjective(f)
    BY <2>2 DEF Injection, IsInjective, Notified!IsInjective
  <2>4. QED
    BY <2>3
<1>4. l \in [1..n -> T] /\ Notified!IsInjective(l)
  <2>1. l = CHOOSE f \in [1..n -> T] : Notified!IsInjective(f)
    BY <1>2, Zenon DEF Notified!SetToSeq
  <2> HIDE DEF n, l
  <2>2. QED
    BY <1>3, <2>1, Zenon
<1> HIDE DEF n, l
<1>5. l \in Seq(T)
  BY <1>1, <1>4
<1>6. QED
  BY <1>4, <1>5 DEF l

(* No Go channel is closed twice: those that are registered twice are kept *)
(* apart by the map `seen`.                                                *)
LEMMA ClosedOnce ==
  ASSUME ListenersTypeOK, Registered
  PROVE  Notified!IsInjective(Notified!ToClose)
<1> DEFINE c == lists["close"]
           f == lists["flow"]
           r == lists["return"]
           d == lists["cancel"]
           T == Members(lists["ack"]) \cup Members(lists["nack"])
           l == Notified!SetToSeq(T)
<1>1. {"close", "flow", "return", "cancel", "ack", "nack"} \subseteq Kinds
  BY DEF Kinds, Notified!Kinds
<1>2. \A k \in Kinds : lists[k] \in Seq(Chans) /\ Notified!IsInjective(lists[k])
  BY DEF ListenersTypeOK, Registered
<1>3. \A j, k \in {"close", "flow", "return", "cancel"} :
         j # k => Members(lists[j]) \cap Members(lists[k]) = {}
  BY <1>1, ListsApart DEF Notified!Confirmations
<1>4. \A j \in {"close", "flow", "return", "cancel"} : \A k \in {"ack", "nack"} :
         Members(lists[j]) \cap Members(lists[k]) = {}
  BY <1>1, ListsApart DEF Notified!Confirmations
<1>5. IsFiniteSet(T)
  BY <1>1, <1>2, MembersFinite, FS_Union
<1>6. T \subseteq Chans
  BY <1>1, MembersAreChans
<1>7. l \in Seq(T) /\ Notified!IsInjective(l)
  BY <1>5, SetListed
<1>8. l \in Seq(Chans) /\ Members(l) \subseteq T
  <2> HIDE DEF l, T
  <2>1. QED
    BY <1>6, <1>7 DEF Members, Notified!Range
<1>9. /\ c \in Seq(Chans) /\ f \in Seq(Chans) /\ r \in Seq(Chans) /\ d \in Seq(Chans)
      /\ Notified!IsInjective(c) /\ Notified!IsInjective(f) /\ Notified!IsInjective(r) /\ Notified!IsInjective(d)
  BY <1>1, <1>2
<1>10. /\ Members(c) \cap Members(f) = {} /\ Members(c) \cap Members(r) = {} /\ Members(c) \cap Members(d) = {}
       /\ Members(f) \cap Members(r) = {} /\ Members(f) \cap Members(d) = {} /\ Members(r) \cap Members(d) = {}
  BY <1>3
<1>11. /\ Members(c) \cap T = {} /\ Members(f) \cap T = {}
       /\ Members(r) \cap T = {} /\ Members(d) \cap T = {}
  BY <1>4
<1>12. Notified!ToClose = (((c \o f) \o r) \o d) \o l
  BY Zenon DEF Notified!ToClose, Notified!Others, Members
<1> HIDE DEF c, f, r, d, T, l
<1>13. c \o f \in Seq(Chans) /\ Notified!IsInjective(c \o f) /\ Members(c \o f) = Members(c) \cup Members(f)
  BY <1>9, <1>10, InjectiveConcat
<1>14. PICK cf \in Seq(Chans) : cf = c \o f
  BY <1>13
<1>15. /\ cf \o r \in Seq(Chans) /\ Notified!IsInjective(cf \o r)
       /\ Members(cf \o r) = (Members(c) \cup Members(f)) \cup Members(r)
  <2>1. Notified!IsInjective(cf) /\ Members(cf) = Members(c) \cup Members(f)
    BY <1>13, <1>14, Zenon
  <2>2. Members(cf) \cap Members(r) = {}
    BY <2>1, <1>10
  <2>3. QED
    BY <1>9, <2>1, <2>2, InjectiveConcat
<1>16. PICK cfr \in Seq(Chans) : cfr = cf \o r
  BY <1>15
<1>17. /\ cfr \o d \in Seq(Chans) /\ Notified!IsInjective(cfr \o d)
       /\ Members(cfr \o d) = ((Members(c) \cup Members(f)) \cup Members(r)) \cup Members(d)
  <2>1. Notified!IsInjective(cfr) /\ Members(cfr) = (Members(c) \cup Members(f)) \cup Members(r)
    BY <1>15, <1>16, Zenon
  <2>2. Members(cfr) \cap Members(d) = {}
    BY <2>1, <1>10
  <2>3. QED
    BY <1>9, <2>1, <2>2, InjectiveConcat
<1>18. PICK cfrd \in Seq(Chans) : cfrd = cfr \o d
  BY <1>17
<1>19. Notified!IsInjective(cfrd \o l)
  <2>1. /\ Notified!IsInjective(cfrd)
        /\ Members(cfrd) = ((Members(c) \cup Members(f)) \cup Members(r)) \cup Members(d)
    BY <1>17, <1>18, Zenon
  <2>2. Members(cfrd) \cap Members(l) = {}
    BY <1>8, <1>11, <2>1
  <2>3. QED
    BY <1>7, <1>8, <2>1, <2>2, InjectiveConcat
<1>20. QED
  BY <1>12, <1>14, <1>16, <1>18, <1>19, Zenon

LEMMA CloseAllStep ==
  ASSUME ListenersInv, Notified!CloseAll
  PROVE  ListenersInv'
<1> USE DEF ListenersInv
<1>1. /\ UNCHANGED <<pending, lists, buffered, heard, owed, dispatching, count>>
      /\ ending.pc = "closing" /\ mutex' = "nobody"
      /\ ending' = [ending EXCEPT !.pc = "done"]
      /\ panicked' = "no"
  BY ClosedOnce, Zenon DEF Notified!CloseAll
<1>2. /\ ending' \in [pc : {"none", "lock", "broadcast", "closing", "done"}, err : BOOLEAN,
                      by : {"nobody", "reader", "closer", "sender"}, to : Seq(Chans)]
      /\ ending'.pc = "done" /\ ending'.by = ending.by /\ ending'.err = ending.err /\ ending'.to = ending.to
  BY <1>1 DEF ListenersTypeOK
<1>3. ListenersTypeOK'
  BY <1>1, <1>2 DEF ListenersTypeOK
<1>4. UnderWay' /\ Locks'
  BY <1>1, <1>2 DEF UnderWay, Locks, Members
<1>5. \A d \in Chans : OnItsWay(d)' = OnItsWay(d)
  BY <1>1, <1>2 DEF OnItsWay, Members
<1>6. AllOwed' /\ EndOwed' /\ Notified!ShutdownIsSafe'
  BY <1>1, <1>2, <1>5 DEF AllOwed, EndOwed, Members, Notified!ShutdownIsSafe
<1>7. QED
  BY <1>1, <1>3, <1>4, <1>6, Undisturbed

LEMMA ListenersStep == ListenersInv /\ [Notified!Next]_listenersVars => ListenersInv'
<1> SUFFICES ASSUME ListenersInv, [Notified!Next]_listenersVars PROVE ListenersInv'
  OBVIOUS
<1>1. CASE Notified!Reading
  BY <1>1, ReadingStep, SendStep, Zenon DEF Notified!Reading
<1>2. CASE Notified!Ending
  BY <1>2, LockStep, BroadcastStep, CloseAllStep, Zenon DEF Notified!Ending
<1>3. CASE Notified!ReadClose \/ Notified!ReadCloseOk \/ Notified!SendFails
  BY <1>3, BeginStep, Zenon
<1>4. CASE Notified!Close \/ UNCHANGED listenersVars
  <2>1. UNCHANGED <<pending, lists, mutex, buffered, closedChans, heard, owed, dispatching, count, ending, panicked>>
    BY <1>4, Zenon DEF Notified!Close, listenersVars
  <2>2. ListenersTypeOK'
    BY <2>1 DEF ListenersInv, ListenersTypeOK
  <2>3. QED
    BY <2>1, <2>2, Undisturbed DEF ListenersInv
<1>5. CASE \E kind \in Notified!Kinds \ {"close"} : Notified!Dispatch(kind)
  BY <1>5, DispatchStep, Zenon
<1>6. CASE \E call \in Registrations : Notified!Notify(call)
  BY <1>6, NotifyStep, Zenon
<1>7. CASE \E c \in Notified!Chans : Notified!Receive(c)
  BY <1>7, ReceiveStep, Zenon
<1>8. QED
  BY <1>1, <1>2, <1>3, <1>4, <1>5, <1>6, <1>7, Zenon DEF Notified!Next

LEMMA PrefixOfConcat ==
  ASSUME NEW s \in Seq(Nat), NEW t \in Seq(Nat)
  PROVE  Notified!IsPrefix(s, s \o t)
<1>1. Len(s) \in Nat /\ Len(t) \in Nat /\ Len(s \o t) = Len(s) + Len(t)
  OBVIOUS
<1>2. SubSeq(s \o t, 1, Len(s)) = SubSeq(s, 1, Len(s))
  OBVIOUS
<1>3. QED
  BY <1>1, <1>2 DEF Notified!IsPrefix

(* Listeners are told everything (channel.go, dispatch and shutdown): each *)
(* Go channel gets every message that came after it was registered, once   *)
(* and in order, and the error that ended the channel, if one did, last;   *)
(* no Go channel is closed twice, and only a shutdown that a failed send   *)
(* started can close one the reader is still sending to.                   *)
THEOREM ListenersAreTold == Spec => []ListenersTold
<1>1. ListenersInv /\ [Next]_vars => ListenersInv'
  <2>1. [Next]_vars => [Notified!Next]_listenersVars
    <3>1. CASE Next
      BY <3>1, Zenon DEF Next
    <3>2. CASE UNCHANGED vars
      BY <3>2, Zenon DEF vars
    <3>3. QED
      BY <3>1, <3>2
  <2>2. QED
    BY <2>1, ListenersStep
<1>2. ListenersInv => ListenersTold
  <2> SUFFICES ASSUME ListenersInv PROVE ListenersTold
    OBVIOUS
  <2> USE DEF ListenersInv
  <2>1. \A c \in Chans : /\ heard[c] \o buffered[c] \in Seq(Nat)
                         /\ (heard[c] \o buffered[c]) \o <<>> = heard[c] \o buffered[c]
    BY HeardOn DEF ListenersTypeOK
  <2>2. \A c \in Chans : OnItsWay(c) \in Seq(Nat)
    BY DEF OnItsWay, ListenersTypeOK, Notified!Error
  <2>3. \A c \in Chans : Notified!IsPrefix(heard[c] \o buffered[c], owed[c])
    BY <2>1, <2>2, PrefixOfConcat DEF AllOwed
  <2>4. ASSUME dispatching.pc \in {"read", "shutdown"}, ending.pc # "broadcast", NEW c \in Chans
        PROVE  heard[c] \o buffered[c] = owed[c]
    <3>1. OnItsWay(c) = <<>>
      BY <2>4, NoMembers DEF UnderWay, OnItsWay
    <3>2. QED
      BY <2>1, <3>1 DEF AllOwed
  <2>5. Notified!HearsAll
    BY <2>3, <2>4 DEF Notified!HearsAll, Notified!Received, Chans
  <2>6. Notified!EndIsTold
    <3>1. SUFFICES ASSUME ending.pc = "done", NEW c \in Members(lists["close"])
                   PROVE  heard[c] \o buffered[c] = IF ending.err THEN <<Notified!Error>> ELSE <<>>
      BY DEF Notified!EndIsTold, Notified!Received, Members
    <3>2. "close" \in Kinds
      BY DEF Kinds, Notified!Kinds
    <3>3. c \in Chans /\ c \notin Members(dispatching.to) /\ c \notin Members(ending.to)
      BY <3>1, <3>2, MembersAreChans, CloseApart, NoMembers DEF UnderWay
    <3>4. OnItsWay(c) = <<>>
      BY <3>3 DEF OnItsWay
    <3>5. heard[c] \o buffered[c] = owed[c]
      BY <2>1, <3>3, <3>4 DEF AllOwed
    <3>6. QED
      BY <3>1, <3>5 DEF EndOwed
  <2>7. QED
    BY <2>5, <2>6 DEF ListenersTold, Notified!ListenersTold
<1>3. QED
  BY ListenersInit, <1>1, <1>2, PTL DEF Spec

-----------------------------------------------------------------------------
(* Shutdown of a connection *)

(* A frame of the handshake, or of a channel.                              *)
Offered == {{}, {"PLAIN", "AMQPLAIN"}, {"EXTERNAL"}}
FromServer ==
  [kind : {"start", "tune", "open-ok", "close-ok", "close", "channel.open-ok"}, arg : Offered \cup Users]

ConnectionTypeOK ==
  /\ opener \in {"header", "start", "tune", "vhost", "ready", "failed"}
  /\ DOMAIN user = Users /\ DOMAIN listener = Connection!Listeners
  /\ \A l \in Connection!Listeners : listener[l] \in {"none", "registered", "told", "closed"}
  /\ channels \subseteq Users /\ removed \subseteq Users /\ sendClosed \subseteq Users
  /\ DOMAIN shut = {"pc", "err"} /\ shut.pc \in {"none", "notify", "channels", "done"}
  /\ wire \in Seq(FromServer)

(* Until Open has returned there are no channels, nobody closes and no     *)
(* answer to an opened channel is under way: nobody but Open waits for     *)
(* the error of the connection.                                            *)
OnlyOpenWaits ==
  opener # "ready" => /\ \A u \in Users : user[u] = "idle"
                      /\ closer = "idle" /\ reader # "closeWith"
                      /\ \A i \in 1..Len(wire) : wire[i].kind # "channel.open-ok"

(* The channels shut down so far have their error, if there is one.        *)
ChannelsTold ==
  /\ shut.pc \in {"none", "notify"} => sendClosed = {}
  /\ shut.pc = "done" => removed \subseteq sendClosed
  /\ \A u \in sendClosed : shut.err /\ user[u] = "wait" => u \in chErrors

ConnectionInv == ConnectionTypeOK /\ OnlyOpenWaits /\ ChannelsTold /\ Connection!NobodyForgotten

(* Frames arrive in order: what is left after one was read, one more, or   *)
(* the first of them.                                                      *)
NoOpenOk(w) == \A i \in 1..Len(w) : w[i].kind # "channel.open-ok"

LEMMA WireRead ==
  ASSUME NEW w \in Seq(FromServer), w # <<>>
  PROVE  /\ Head(w) \in FromServer /\ Tail(w) \in Seq(FromServer)
         /\ NoOpenOk(w) => NoOpenOk(Tail(w)) /\ Head(w).kind # "channel.open-ok"
<1> HIDE DEF FromServer
<1>1. /\ Tail(w) \in Seq(FromServer) /\ Len(Tail(w)) = Len(w) - 1 /\ Len(w) \in Nat \ {0}
      /\ \A i \in 1..Len(Tail(w)) : Tail(w)[i] = w[i + 1]
      /\ Head(w) = w[1] /\ Head(w) \in FromServer
  BY HeadTailProperties
<1>2. \A i \in 1..Len(Tail(w)) : i + 1 \in 1..Len(w)
  BY <1>1
<1>3. 1 \in 1..Len(w)
  BY <1>1
<1>4. QED
  BY <1>1, <1>2, <1>3 DEF NoOpenOk

LEMMA WireAnswered ==
  ASSUME NEW w \in Seq(FromServer), NEW a \in FromServer
  PROVE  /\ w \o <<a>> \in Seq(FromServer) /\ w \o <<>> = w
         /\ NoOpenOk(w) /\ a.kind # "channel.open-ok" => NoOpenOk(w \o <<a>>)
<1> HIDE DEF FromServer
<1>1. /\ w \o <<a>> \in Seq(FromServer) /\ w \o <<>> = w
      /\ Len(w \o <<a>>) = Len(w) + 1 /\ Len(w) \in Nat
      /\ \A i \in 1..Len(w) : (w \o <<a>>)[i] = w[i]
      /\ (w \o <<a>>)[Len(w) + 1] = a
  OBVIOUS
<1>2. \A i \in 1..(Len(w) + 1) : i \in 1..Len(w) \/ i = Len(w) + 1
  BY <1>1
<1>3. QED
  BY <1>1, <1>2 DEF NoOpenOk

LEMMA WireCut ==
  ASSUME NEW w \in Seq(FromServer), NEW n \in 0..Len(w)
  PROVE  /\ SubSeq(w, 1, n) \in Seq(FromServer)
         /\ NoOpenOk(w) => NoOpenOk(SubSeq(w, 1, n))
<1> HIDE DEF FromServer
<1>1. /\ Len(w) \in Nat /\ n \in Nat /\ n <= Len(w) /\ \A i \in 1..n : i \in 1..Len(w)
  OBVIOUS
<1>2. /\ SubSeq(w, 1, n) \in Seq(FromServer) /\ Len(SubSeq(w, 1, n)) = n
      /\ \A i \in 1..n : SubSeq(w, 1, n)[i] = w[i]
  BY <1>1
<1>3. QED
  BY <1>1, <1>2 DEF NoOpenOk

(* What the server sends back.                                             *)
LEMMA Answers ==
  /\ Connection!Answer("tune", {}) \in FromServer /\ Connection!Answer("tune", {}).kind # "channel.open-ok"
  /\ Connection!Answer("open-ok", {}) \in FromServer /\ Connection!Answer("open-ok", {}).kind # "channel.open-ok"
  /\ Connection!Answer("close-ok", {}) \in FromServer /\ Connection!Answer("close", {}) \in FromServer
  /\ Connection!Answer("close", {}).kind # "channel.open-ok"
  /\ \A m \in {{"PLAIN", "AMQPLAIN"}, {"EXTERNAL"}} :
       Connection!Answer("start", m) \in FromServer /\ Connection!Answer("start", m).kind # "channel.open-ok"
  /\ \A u \in Users : Connection!Answer("channel.open-ok", u) \in FromServer
<1>1. ASSUME NEW k \in {"start", "tune", "open-ok", "close-ok", "close", "channel.open-ok"},
             NEW a \in Offered \cup Users
      PROVE  Connection!Answer(k, a) \in FromServer /\ Connection!Answer(k, a).kind = k
  BY DEF Connection!Answer, FromServer
<1>2. {} \in Offered /\ {"PLAIN", "AMQPLAIN"} \in Offered /\ {"EXTERNAL"} \in Offered
  BY DEF Offered
<1>3. QED
  BY <1>1, <1>2

(* It holds of a connection that has just been dialed.                     *)
LEMMA ConnectionInit == Init => ConnectionInv
<1>1. <<>> \in Seq(FromServer) /\ Len(<<>>) = 0
  OBVIOUS
<1>2. QED
  BY <1>1 DEF Init, Connection!Init, ConnectionInv, ConnectionTypeOK, OnlyOpenWaits, ChannelsTold,
              Connection!NobodyForgotten

(* Registering a listener: closed at once when it comes too late.          *)
LEMMA ListenerRegistered ==
  ASSUME ConnectionTypeOK, NEW l \in Connection!Listeners, Connection!NotifyClose(l),
         Connection!NobodyForgotten
  PROVE  /\ DOMAIN listener' = Connection!Listeners
         /\ \A k \in Connection!Listeners : /\ listener'[k] \in {"none", "registered", "told", "closed"}
                                            /\ shut.pc = "done" => listener'[k] \in {"none", "closed"}
BY DEF ConnectionTypeOK, Connection!NotifyClose, Connection!NoNotify, Connection!NobodyForgotten

(* Open keeps the invariant.                                               *)
LEMMA OpeningKeeps ==
  ASSUME ConnectionInv, Connection!Opening
  PROVE  ConnectionInv'
<1> USE DEF ConnectionInv
<1> DEFINE Rest == <<closer, channels, sendClosed, chErrors, removed, shut, user>>
(* What each request of the handshake does to the wire and to Open.        *)
<1>1. ASSUME opener \in {"header", "start", "tune", "vhost"}, wire' \in Seq(FromServer), NoOpenOk(wire'),
             opener' \in {"start", "tune", "vhost", "failed", "ready"},
             opener' \in {"start", "tune", "vhost"} =>
               socket # "closed" \/ (connErrors' = connErrors /\ opener \in {"start", "tune", "vhost"}),
             reader' \in {reader, "deadline"},
             socket' = socket, UNCHANGED Rest,
             opener' = "failed" \/ connErrors' = connErrors,
             DOMAIN listener' = Connection!Listeners,
             \A k \in Connection!Listeners : /\ listener'[k] \in {"none", "registered", "told", "closed"}
                                             /\ shut.pc = "done" => listener'[k] \in {"none", "closed"}
      PROVE  ConnectionInv'
  <2>1. ConnectionTypeOK'
    BY <1>1 DEF ConnectionTypeOK
  <2>2. OnlyOpenWaits'
    BY <1>1 DEF OnlyOpenWaits, NoOpenOk
  <2>3. ChannelsTold'
    BY <1>1 DEF ChannelsTold
  <2>4. Connection!NobodyForgotten'
    <3>1. SUFFICES ASSUME shut.pc = "done"
                   PROVE  /\ socket' = "closed"
                          /\ \A l \in Connection!Listeners : listener'[l] \in {"none", "closed"}
                          /\ shut.err /\ opener' \in {"start", "tune", "vhost"} => connErrors'
                          /\ \A u \in removed : shut.err /\ user[u] = "wait" => u \in chErrors
      BY <1>1 DEF Connection!NobodyForgotten
    <3>2. socket' = "closed"
      BY <1>1, <3>1 DEF Connection!NobodyForgotten
    <3>3. shut.err /\ opener' \in {"start", "tune", "vhost"} => connErrors'
      BY <1>1, <3>1 DEF Connection!NobodyForgotten
    <3>4. \A u \in removed : shut.err /\ user[u] = "wait" => u \in chErrors
      BY <3>1 DEF Connection!NobodyForgotten
    <3>5. QED
      BY <1>1, <3>1, <3>2, <3>3, <3>4
  <2>5. QED
    BY <2>1, <2>2, <2>3, <2>4
<1>2. /\ DOMAIN listener = Connection!Listeners
      /\ \A k \in Connection!Listeners : /\ listener[k] \in {"none", "registered", "told", "closed"}
                                         /\ shut.pc = "done" => listener[k] \in {"none", "closed"}
  BY DEF ConnectionTypeOK, Connection!NobodyForgotten
<1>3. wire \in Seq(FromServer) /\ (opener # "ready" => NoOpenOk(wire))
  BY DEF ConnectionTypeOK, OnlyOpenWaits, NoOpenOk
<1>4. CASE Connection!open
  <2>1. /\ opener = "header" /\ UNCHANGED <<reader, socket, connErrors, listener>> /\ UNCHANGED Rest
        /\ \/ /\ socket # "closed" /\ opener' = "start"
              /\ \E m \in {{"PLAIN", "AMQPLAIN"}, {"EXTERNAL"}} :
                   wire' = IF socket = "up" THEN wire \o <<Connection!Answer("start", m)>> ELSE wire
           \/ opener' = "failed" /\ wire' = wire
    <3>1. /\ opener = "header" /\ UNCHANGED <<reader, socket, connErrors, listener>> /\ UNCHANGED Rest
      BY <1>4 DEF Connection!open
    <3>2. CASE \E m \in {{"PLAIN", "AMQPLAIN"}, {"EXTERNAL"}} :
                 Connection!Sent(<<Connection!Answer("start", m)>>) /\ opener' = "start"
      BY <3>1, <3>2, Zenon DEF Connection!Sent
    <3>3. CASE Connection!SendFails /\ opener' = "failed"
      <4>1. wire' = wire
        BY <3>3 DEF Connection!SendFails
      <4>2. QED
        BY <3>1, <3>3, <4>1
    <3>4. \/ \E m \in {{"PLAIN", "AMQPLAIN"}, {"EXTERNAL"}} :
               Connection!Sent(<<Connection!Answer("start", m)>>) /\ opener' = "start"
          \/ Connection!SendFails /\ opener' = "failed"
      BY <1>4, Zenon DEF Connection!open
    <3>5. QED
      BY <3>2, <3>3, <3>4
  <2>2. wire' \in Seq(FromServer) /\ NoOpenOk(wire')
    BY <1>3, <2>1, Answers, WireAnswered
  <2>3. /\ opener = "header" /\ reader' = reader /\ socket' = socket /\ connErrors' = connErrors
        /\ listener' = listener /\ UNCHANGED Rest
        /\ opener' \in {"start", "failed"} /\ (opener' = "start" => socket # "closed")
    BY <2>1
  <2>4. QED
    BY <1>1, <1>2, <2>2, <2>3
<1>5. CASE Connection!OpenFails
  <2>1. /\ opener \in {"start", "tune", "vhost"} /\ opener' = "failed"
        /\ UNCHANGED <<reader, socket, wire, listener>> /\ UNCHANGED Rest
    BY <1>5 DEF Connection!OpenFails
  <2>2. QED
    BY <1>1, <1>2, <1>3, <2>1
<1>6. CASE Connection!openStart
  <2>1. /\ opener = "start" /\ wire # <<>> /\ reader' = "deadline"
        /\ UNCHANGED <<socket, connErrors, listener>> /\ UNCHANGED Rest
        /\ \/ Connection!Then("tune", <<Connection!Answer("tune", {})>>)
           \/ opener' = "failed" /\ wire' = Tail(wire)
    BY <1>6, Zenon DEF Connection!openStart, Connection!Received
  <2>2. \/ /\ opener' = "tune" /\ socket # "closed"
           /\ wire' = Tail(wire) \o (IF socket = "up" THEN <<Connection!Answer("tune", {})>> ELSE <<>>)
        \/ opener' = "failed" /\ wire' = Tail(wire)
    BY <2>1, Zenon DEF Connection!Then
  <2>3. wire' \in Seq(FromServer) /\ NoOpenOk(wire')
    BY <1>3, <2>1, <2>2, Answers, WireAnswered, WireRead
  <2>4. QED
    BY <1>1, <1>2, <2>1, <2>2, <2>3
<1>7. CASE Connection!openTune
  <2>1. /\ opener = "tune" /\ wire # <<>> /\ reader' = "deadline"
        /\ UNCHANGED <<socket, connErrors>> /\ UNCHANGED Rest
        /\ Connection!NotifyClose("heartbeater")
        /\ Connection!Then("vhost", <<Connection!Answer("open-ok", {})>>)
    BY <1>7 DEF Connection!openTune, Connection!Received
  <2>2. \/ /\ opener' = "vhost" /\ socket # "closed"
           /\ wire' = Tail(wire) \o (IF socket = "up" THEN <<Connection!Answer("open-ok", {})>> ELSE <<>>)
        \/ opener' = "failed" /\ wire' = Tail(wire)
    BY <2>1, Zenon DEF Connection!Then
  <2>3. wire' \in Seq(FromServer) /\ NoOpenOk(wire')
    BY <1>3, <2>1, <2>2, Answers, WireAnswered, WireRead
  <2>4. "heartbeater" \in Connection!Listeners
    BY DEF Connection!Listeners
  <2>5. QED
    BY <1>1, <2>1, <2>2, <2>3, <2>4, ListenerRegistered
<1>8. CASE Connection!openVhost
  <2>1. /\ opener = "vhost" /\ opener' = "ready" /\ wire # <<>> /\ wire' = Tail(wire) /\ reader' = "deadline"
        /\ UNCHANGED <<socket, connErrors, listener>> /\ UNCHANGED Rest
    BY <1>8 DEF Connection!openVhost, Connection!Received
  <2>2. wire' \in Seq(FromServer) /\ NoOpenOk(wire')
    BY <1>3, <2>1, WireRead
  <2>3. QED
    BY <1>1, <1>2, <2>1, <2>2
<1>9. QED
  BY <1>4, <1>5, <1>6, <1>7, <1>8 DEF Connection!Opening

(* Steps that open no channel, register no listener and do not shut down:  *)
(* they may read, answer or lose frames, and once Open has returned take   *)
(* the error of the connection.                                            *)
LEMMA QuietKeeps ==
  ASSUME ConnectionInv, UNCHANGED <<opener, user, channels, sendClosed, chErrors, removed, shut, listener>>,
         connErrors' = connErrors \/ opener = "ready", socket' = socket \/ socket = "up",
         wire' \in Seq(FromServer),
         opener # "ready" => NoOpenOk(wire') /\ closer' = "idle" /\ reader' # "closeWith"
  PROVE  ConnectionInv'
<1> USE DEF ConnectionInv
<1>1. ConnectionTypeOK'
  BY DEF ConnectionTypeOK
<1>2. OnlyOpenWaits'
  BY DEF OnlyOpenWaits, NoOpenOk
<1>3. ChannelsTold'
  BY DEF ChannelsTold
<1>4. Connection!NobodyForgotten'
  BY DEF Connection!NobodyForgotten
<1>5. QED
  BY <1>1, <1>2, <1>3, <1>4

(* What was to be read, and that only channels of an open connection ask   *)
(* for more than the handshake.                                            *)
LEMMA WireSoFar ==
  ASSUME ConnectionInv
  PROVE  /\ wire \in Seq(FromServer)
         /\ opener # "ready" => NoOpenOk(wire) /\ closer = "idle" /\ reader # "closeWith"
BY DEF ConnectionInv, ConnectionTypeOK, OnlyOpenWaits, NoOpenOk

(* The reader keeps the invariant.                                         *)
LEMMA ReaderKeeps ==
  ASSUME ConnectionInv, Connection!Reading \/ Connection!DeadlineExpires
  PROVE  ConnectionInv'
<1> DEFINE Rest == <<opener, user, channels, sendClosed, chErrors, removed, shut, listener>>
<1>1. CASE Connection!ReadCloseOk
  <2>1. /\ wire # <<>> /\ wire' = Tail(wire) /\ closer = "wait" /\ UNCHANGED Rest
        /\ connErrors' = connErrors /\ socket' = socket
    BY <1>1 DEF Connection!ReadCloseOk, Connection!Received
  <2>2. QED
    BY <2>1, WireSoFar, WireRead, QuietKeeps
<1>2. CASE Connection!ReadClose
  <2>1. /\ wire # <<>> /\ wire' = Tail(wire) /\ reader' = "shutdown" /\ closer' = closer /\ UNCHANGED Rest
        /\ connErrors' = connErrors /\ socket' = socket
    BY <1>2 DEF Connection!ReadClose
  <2>2. QED
    BY <2>1, WireSoFar, WireRead, QuietKeeps
<1>3. CASE Connection!dispatchN
  <2> DEFINE u == Head(wire).arg
  <2>1. /\ wire # <<>> /\ wire' = Tail(wire) /\ Head(wire).kind = "channel.open-ok" /\ user[u] = "wait"
        /\ user' = [user EXCEPT ![u] = "open"]
        /\ UNCHANGED <<opener, closer, channels, sendClosed, chErrors, removed, shut, connErrors, listener, socket>>
    BY <1>3 DEF Connection!dispatchN, Connection!Received
  <2>2. wire' \in Seq(FromServer) /\ opener = "ready"
    BY <2>1, WireSoFar, WireRead
  <2>3. DOMAIN user' = Users /\ \A v \in Users : user'[v] = "wait" => user[v] = "wait"
    BY <2>1 DEF ConnectionInv, ConnectionTypeOK
  <2> HIDE DEF u
  <2>4. ConnectionTypeOK' /\ OnlyOpenWaits'
    BY <2>1, <2>2, <2>3 DEF ConnectionInv, ConnectionTypeOK, OnlyOpenWaits
  <2>5. ChannelsTold'
    BY <2>1, <2>3 DEF ConnectionInv, ConnectionTypeOK, ChannelsTold
  <2>6. Connection!NobodyForgotten'
    BY <2>1, <2>2, <2>3 DEF ConnectionInv, ConnectionTypeOK, Connection!NobodyForgotten
  <2>7. QED
    BY <2>4, <2>5, <2>6 DEF ConnectionInv, ConnectionTypeOK
<1>4. CASE Connection!dispatchClosed
  <2>1. /\ wire # <<>> /\ wire' = Tail(wire) /\ Head(wire).kind = "channel.open-ok" /\ UNCHANGED Rest
        /\ connErrors' = connErrors /\ socket' = socket
    BY <1>4 DEF Connection!dispatchClosed
  <2>2. wire' \in Seq(FromServer) /\ opener = "ready"
    BY <2>1, WireSoFar, WireRead
  <2>3. QED
    BY <2>1, <2>2, QuietKeeps
<1>5. CASE Connection!CloseWithFails
  <2>1. /\ wire' = wire /\ reader = "closeWith" /\ UNCHANGED Rest /\ socket' = socket
    BY <1>5 DEF Connection!CloseWithFails
  <2>2. QED
    BY <2>1, WireSoFar, QuietKeeps
<1>6. CASE Connection!PushDeadline \/ Connection!ReadFails \/ Connection!ReaderResumes \/ Connection!DeadlineExpires
  <2>1. /\ wire' = wire /\ reader' # "closeWith" /\ closer' = closer /\ UNCHANGED Rest
        /\ connErrors' = connErrors /\ socket' = socket
    BY <1>6 DEF Connection!PushDeadline, Connection!ReadFails, Connection!ReaderResumes,
                Connection!DeadlineExpires, Connection!Fails
  <2>2. QED
    BY <2>1, WireSoFar, QuietKeeps
<1>7. QED
  BY <1>1, <1>2, <1>3, <1>4, <1>5, <1>6 DEF Connection!Reading

(* So do the heartbeater, Close, the peer and the network.                 *)
LEMMA OthersKeep ==
  ASSUME ConnectionInv,
         \/ Connection!Beating \/ Connection!Close \/ Connection!CloseFails \/ Connection!CloseReturns
         \/ Connection!PeerCloses \/ Connection!PeerLost
  PROVE  ConnectionInv'
<1> DEFINE Rest == <<opener, user, channels, sendClosed, chErrors, removed, shut, listener>>
<1>1. CASE Connection!Beating
  <2>1. /\ wire' = wire /\ reader' = reader /\ closer' = closer /\ UNCHANGED Rest
        /\ connErrors' = connErrors /\ socket' = socket
    BY <1>1 DEF Connection!Beating, Connection!ResetDeadline, Connection!HeartbeatFails,
                Connection!HeartbeaterEnds, Connection!SendFails
  <2>2. QED
    BY <2>1, WireSoFar, QuietKeeps
<1>2. CASE Connection!Close
  <2>1. /\ opener = "ready" /\ UNCHANGED Rest /\ connErrors' = connErrors /\ socket' = socket
        /\ wire' \in {wire, wire \o <<Connection!Answer("close-ok", {})>>}
    BY <1>2 DEF Connection!Close, Connection!Sent, Connection!SendFails
  <2>2. wire' \in Seq(FromServer)
    BY <2>1, WireSoFar, WireAnswered, Answers
  <2>3. QED
    BY <2>1, <2>2, QuietKeeps
<1>3. CASE Connection!CloseFails
  <2>1. /\ closer = "wait" /\ wire' = wire /\ UNCHANGED Rest /\ socket' = socket
    BY <1>3 DEF Connection!CloseFails
  <2>2. QED
    BY <2>1, WireSoFar, QuietKeeps
<1>4. CASE Connection!CloseReturns
  <2>1. /\ closer = "shutdown" /\ wire' = wire /\ UNCHANGED Rest /\ socket' = socket /\ connErrors' = connErrors
    BY <1>4 DEF Connection!CloseReturns
  <2>2. QED
    BY <2>1, WireSoFar, QuietKeeps
<1>5. CASE Connection!PeerCloses
  <2>1. /\ socket = "up" /\ UNCHANGED Rest /\ UNCHANGED <<closer, reader>> /\ connErrors' = connErrors
        /\ wire' = wire \o <<Connection!Answer("close", {})>>
    BY <1>5, WireSoFar DEF Connection!PeerCloses
  <2>2. wire' \in Seq(FromServer) /\ (opener # "ready" => NoOpenOk(wire'))
    BY <2>1, WireSoFar, WireAnswered, Answers
  <2>3. QED
    BY <2>1, <2>2, WireSoFar, QuietKeeps
<1>6. CASE Connection!PeerLost
  <2>1. /\ socket = "up" /\ UNCHANGED Rest /\ UNCHANGED <<closer, reader>> /\ connErrors' = connErrors
        /\ \E n \in 0..Len(wire) : wire' = SubSeq(wire, 1, n)
    BY <1>6, Zenon DEF Connection!PeerLost
  <2>2. wire' \in Seq(FromServer) /\ (opener # "ready" => NoOpenOk(wire'))
    BY <2>1, WireSoFar, WireCut
  <2>3. QED
    BY <2>1, <2>2, WireSoFar, QuietKeeps
<1>7. QED
  BY <1>1, <1>2, <1>3, <1>4, <1>5, <1>6

(* Opening a channel keeps the invariant: a call that waits on a channel   *)
(* was there before its shutdown, which leaves an error.                   *)
LEMMA UsingKeeps ==
  ASSUME ConnectionInv, NEW u \in Users, Connection!Using(u)
  PROVE  ConnectionInv'
<1> USE DEF ConnectionInv
<1>1. CASE Connection!add(u)
  <2>1. /\ opener = "ready" /\ channels' = channels \cup {u} /\ user' = [user EXCEPT ![u] = "added"]
        /\ UNCHANGED <<opener, sendClosed, chErrors, removed, shut, connErrors, listener, socket, wire>>
    BY <1>1 DEF Connection!add
  <2>2. DOMAIN user' = Users /\ \A v \in Users : user'[v] = "wait" => user[v] = "wait"
    BY <2>1 DEF ConnectionTypeOK
  <2>3. ConnectionTypeOK' /\ OnlyOpenWaits' /\ ChannelsTold'
    BY <2>1, <2>2 DEF ConnectionTypeOK, OnlyOpenWaits, ChannelsTold
  <2>4. Connection!NobodyForgotten'
    BY <2>1, <2>2 DEF ConnectionTypeOK, Connection!NobodyForgotten
  <2>5. QED
    BY <2>3, <2>4
<1>2. CASE Connection!Channel(u)
  <2>1. /\ user[u] = "added"
        /\ UNCHANGED <<opener, channels, sendClosed, chErrors, removed, shut, connErrors, listener, socket>>
        /\ \/ user' = [user EXCEPT ![u] = "failed"] /\ wire' = wire
           \/ /\ u \notin sendClosed /\ user' = [user EXCEPT ![u] = "wait"]
              /\ wire' \in {wire, wire \o <<Connection!Answer("channel.open-ok", u)>>}
    BY <1>2 DEF Connection!Channel, Connection!Sent, Connection!SendFails
  <2>2. opener = "ready"
    BY <2>1 DEF OnlyOpenWaits
  <2>3. wire' \in Seq(FromServer)
    BY <2>1, WireSoFar, WireAnswered, Answers
  <2>4. DOMAIN user' = Users /\ \A v \in sendClosed : user'[v] = "wait" => user[v] = "wait"
    BY <2>1 DEF ConnectionTypeOK
  <2>5. ConnectionTypeOK' /\ OnlyOpenWaits'
    BY <2>1, <2>2, <2>3, <2>4 DEF ConnectionTypeOK, OnlyOpenWaits
  <2>6. ChannelsTold'
    BY <2>1, <2>4 DEF ChannelsTold
  <2>7. Connection!NobodyForgotten'
    BY <2>1, <2>2, <2>4 DEF ChannelsTold, Connection!NobodyForgotten
  <2>8. QED
    BY <2>5, <2>6, <2>7
<1>3. CASE Connection!ChannelFails(u)
  <2>1. /\ user[u] = "wait" /\ chErrors' = chErrors \ {u} /\ user' = [user EXCEPT ![u] = "failed"]
        /\ UNCHANGED <<opener, channels, sendClosed, removed, shut, connErrors, listener, socket, wire>>
    BY <1>3 DEF Connection!ChannelFails
  <2>2. opener = "ready"
    BY <2>1 DEF OnlyOpenWaits
  <2>3. DOMAIN user' = Users /\ \A v \in Users : user'[v] = "wait" => user[v] = "wait" /\ v # u
    BY <2>1 DEF ConnectionTypeOK
  <2>4. ConnectionTypeOK' /\ OnlyOpenWaits'
    BY <2>1, <2>2, <2>3 DEF ConnectionTypeOK, OnlyOpenWaits
  <2>5. ChannelsTold'
    BY <2>1, <2>3 DEF ConnectionTypeOK, ChannelsTold
  <2>6. Connection!NobodyForgotten'
    BY <2>1, <2>2, <2>3 DEF ConnectionTypeOK, Connection!NobodyForgotten
  <2>7. QED
    BY <2>4, <2>5, <2>6
<1>4. QED
  BY <1>1, <1>2, <1>3 DEF Connection!Using

(* So does redial, which registers a listener, early or late.              *)
LEMMA ListenKeeps ==
  ASSUME ConnectionInv, Connection!Listen
  PROVE  ConnectionInv'
<1> USE DEF ConnectionInv
<1>1. /\ Connection!NotifyClose("redial") /\ "redial" \in Connection!Listeners
      /\ UNCHANGED <<opener, reader, user, closer, channels, sendClosed, chErrors, removed, shut, connErrors,
                     socket, wire>>
  BY DEF Connection!Listen, Connection!Listeners
<1>2. /\ DOMAIN listener' = Connection!Listeners
      /\ \A k \in Connection!Listeners : /\ listener'[k] \in {"none", "registered", "told", "closed"}
                                         /\ shut.pc = "done" => listener'[k] \in {"none", "closed"}
  BY <1>1, ListenerRegistered
<1>3. ConnectionTypeOK' /\ OnlyOpenWaits' /\ ChannelsTold'
  BY <1>1, <1>2 DEF ConnectionTypeOK, OnlyOpenWaits, ChannelsTold
<1>4. Connection!NobodyForgotten'
  BY <1>1, <1>2 DEF Connection!NobodyForgotten
<1>5. QED
  BY <1>3, <1>4

(* The shutdown itself: each channel it removed gets its error, and in the *)
(* end the connection's own is there and the listeners are closed.         *)
LEMMA ShutdownKeeps ==
  ASSUME ConnectionInv, Connection!Shutting \/ Connection!CloseShutdown
  PROVE  ConnectionInv'
<1> USE DEF ConnectionInv
<1> DEFINE Rest == <<opener, reader, user, closer, wire>>
<1>1. ASSUME NEW e, Connection!Begin(e) PROVE ConnectionInv'
  <2>1. /\ shut.pc = "none" /\ shut' = [pc |-> "notify", err |-> e]
        /\ UNCHANGED <<channels, sendClosed, chErrors, removed, connErrors, listener, socket>> /\ UNCHANGED Rest
    BY <1>1 DEF Connection!Begin
  <2>2. shut'.pc = "notify" /\ DOMAIN shut' = {"pc", "err"}
    BY <2>1
  <2>3. ConnectionTypeOK' /\ OnlyOpenWaits' /\ ChannelsTold' /\ Connection!NobodyForgotten'
    BY <2>1, <2>2 DEF ConnectionTypeOK, OnlyOpenWaits, ChannelsTold, Connection!NobodyForgotten
  <2>4. QED
    BY <2>3
<1>2. ASSUME NEW l \in Connection!Listeners, Connection!Notify(l) PROVE ConnectionInv'
  <2>1. /\ shut.pc = "notify" /\ listener' = [listener EXCEPT ![l] = "told"]
        /\ UNCHANGED <<channels, sendClosed, chErrors, removed, shut, connErrors, socket>> /\ UNCHANGED Rest
    BY <1>2 DEF Connection!Notify
  <2>2. ConnectionTypeOK' /\ OnlyOpenWaits' /\ ChannelsTold' /\ Connection!NobodyForgotten'
    BY <2>1 DEF ConnectionTypeOK, OnlyOpenWaits, ChannelsTold, Connection!NobodyForgotten
  <2>3. QED
    BY <2>2
<1>3. CASE Connection!removeAll
  <2>1. /\ shut.pc = "notify" /\ shut' = [shut EXCEPT !.pc = "channels"]
        /\ removed' = channels /\ channels' = {}
        /\ UNCHANGED <<sendClosed, chErrors, connErrors, listener, socket>> /\ UNCHANGED Rest
    BY <1>3 DEF Connection!removeAll
  <2>2. shut'.pc = "channels" /\ shut'.err = shut.err /\ DOMAIN shut' = {"pc", "err"}
    BY <2>1 DEF ConnectionTypeOK
  <2>3. ConnectionTypeOK' /\ OnlyOpenWaits' /\ ChannelsTold' /\ Connection!NobodyForgotten'
    BY <2>1, <2>2 DEF ConnectionTypeOK, OnlyOpenWaits, ChannelsTold, Connection!NobodyForgotten
  <2>4. QED
    BY <2>3
<1>4. ASSUME NEW u \in Users, Connection!ChannelShutdown(u) PROVE ConnectionInv'
  <2>1. /\ shut.pc = "channels" /\ sendClosed' = sendClosed \cup {u}
        /\ chErrors' = IF shut.err THEN chErrors \cup {u} ELSE chErrors
        /\ UNCHANGED <<channels, removed, shut, connErrors, listener, socket>> /\ UNCHANGED Rest
    BY <1>4 DEF Connection!ChannelShutdown
  <2>2. ConnectionTypeOK' /\ OnlyOpenWaits' /\ ChannelsTold' /\ Connection!NobodyForgotten'
    BY <2>1 DEF ConnectionTypeOK, OnlyOpenWaits, ChannelsTold, Connection!NobodyForgotten
  <2>3. QED
    BY <2>2
<1>5. CASE Connection!Finish
  <2>1. /\ shut.pc = "channels" /\ removed \subseteq sendClosed
        /\ connErrors' = (connErrors \/ shut.err) /\ socket' = "closed"
        /\ listener' = [l \in Connection!Listeners |-> IF listener[l] = "none" THEN "none" ELSE "closed"]
        /\ shut' = [shut EXCEPT !.pc = "done"]
        /\ UNCHANGED <<channels, sendClosed, chErrors, removed>> /\ UNCHANGED Rest
    BY <1>5 DEF Connection!Finish
  <2>2. shut'.pc = "done" /\ shut'.err = shut.err /\ DOMAIN shut' = {"pc", "err"}
    BY <2>1 DEF ConnectionTypeOK
  <2>3. DOMAIN listener' = Connection!Listeners /\ \A l \in Connection!Listeners : listener'[l] \in {"none", "closed"}
    BY <2>1
  <2>4. ConnectionTypeOK' /\ OnlyOpenWaits' /\ ChannelsTold'
    BY <2>1, <2>2, <2>3 DEF ConnectionTypeOK, OnlyOpenWaits, ChannelsTold
  <2>5. shut.err => connErrors'
    BY <2>1, Zenon
  <2>6. Connection!NobodyForgotten'
    BY <2>1, <2>2, <2>3, <2>5 DEF ChannelsTold, Connection!NobodyForgotten
  <2>7. QED
    BY <2>4, <2>6
<1>6. QED
  BY <1>1, <1>2, <1>3, <1>4, <1>5, Zenon DEF Connection!Shutting, Connection!shutdown, Connection!CloseShutdown

(* Every step of any of its goroutines, the server or the network keeps it. *)
LEMMA ConnectionStep == ConnectionInv /\ [Connection!Next]_connectionVars => ConnectionInv'
<1> SUFFICES ASSUME ConnectionInv, [Connection!Next]_connectionVars PROVE ConnectionInv'
  OBVIOUS
<1>1. CASE UNCHANGED connectionVars
  BY <1>1 DEF connectionVars, ConnectionInv, ConnectionTypeOK, OnlyOpenWaits, ChannelsTold,
              Connection!NobodyForgotten
<1>2. CASE Connection!Next
  <2>1. CASE Connection!Opening
    BY <2>1, OpeningKeeps
  <2>2. CASE Connection!Reading \/ Connection!DeadlineExpires
    BY <2>2, ReaderKeeps
  <2>3. CASE Connection!Beating \/ Connection!Close \/ Connection!PeerCloses \/ Connection!PeerLost
    BY <2>3, OthersKeep
  <2>4. CASE Connection!Closing
    BY <2>4, OthersKeep, ShutdownKeeps DEF Connection!Closing
  <2>5. CASE Connection!Shutting
    BY <2>5, ShutdownKeeps
  <2>6. CASE Connection!Listen
    BY <2>6, ListenKeeps
  <2>7. CASE \E u \in Users : Connection!Using(u)
    BY <2>7, UsingKeeps
  <2>8. QED
    BY <1>2, <2>1, <2>2, <2>3, <2>4, <2>5, <2>6, <2>7, Zenon DEF Connection!Next
<1>3. QED
  BY <1>1, <1>2

(* However the goroutines of a connection interleave with its shutdown,    *)
(* for any number of them that open channels: the socket is closed in the  *)
(* end, every listener hears of it whenever it registered, the Open that   *)
(* waits finds the one error of the connection, and after a loss every     *)
(* call that waits on a removed channel finds that channel's.  What Close  *)
(* of the connection removes has no error for its calls (shutdown(nil)).   *)
THEOREM ShutdownForgetsNobody == Spec => []NobodyForgotten
<1>1. ConnectionInv /\ [Next]_vars => ConnectionInv'
  <2>1. [Next]_vars => [Connection!Next]_connectionVars
    <3>1. CASE Next
      BY <3>1, Zenon DEF Next
    <3>2. CASE UNCHANGED vars
      BY <3>2, Zenon DEF vars
    <3>3. QED
      BY <3>1, <3>2
  <2>2. QED
    BY <2>1, ConnectionStep
<1>2. ConnectionInv => NobodyForgotten
  BY DEF ConnectionInv, NobodyForgotten
<1>3. QED
  BY ConnectionInit, <1>1, <1>2, PTL DEF Spec
=============================================================================
