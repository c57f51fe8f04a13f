--------------------------- MODULE DeliveryQueues ---------------------------
(***************************************************************************)
(* What Channel.Consume promises: for each consumer tag an unbounded queue *)
(* that never makes the connection wait for the consumer, keeps the order  *)
(* of the deliveries and, once closed, still hands over what it holds      *)
(* before the consumer sees the end.                                       *)
(***************************************************************************)
EXTENDS Naturals, Sequences

CONSTANTS Tags, Deliveries

VARIABLES
  open,        \* the tags that take deliveries
  queue,       \* tag -> what its consumer has not received
  ended        \* tag -> has its consumer been told the end

Init ==
  /\ open = {}
  /\ queue = [t \in Tags |-> <<>>]
  /\ ended = [t \in Tags |-> FALSE]

Open(t) ==
  /\ t \notin open /\ ~ended[t] /\ queue[t] = <<>>
  /\ open' = open \cup {t}
  /\ UNCHANGED <<queue, ended>>

Deliver(t, d) ==
  /\ t \in open
  /\ queue' = [queue EXCEPT ![t] = Append(@, d)]
  /\ UNCHANGED <<open, ended>>

Take(t) ==
  /\ queue[t] # <<>>
  /\ queue' = [queue EXCEPT ![t] = Tail(@)]
  /\ UNCHANGED <<open, ended>>

Close(tags) ==
  /\ open' = open \ tags
  /\ UNCHANGED <<queue, ended>>

End(t) ==
  /\ t \notin open /\ queue[t] = <<>> /\ ~ended[t]
  /\ ended' = [ended EXCEPT ![t] = TRUE]
  /\ UNCHANGED <<open, queue>>

Next ==
  \/ \E t \in Tags : Open(t) \/ Take(t) \/ End(t) \/ \E d \in Deliveries : Deliver(t, d)
  \/ \E tags \in SUBSET Tags : Close(tags)

Spec == Init /\ [][Next]_<<open, queue, ended>>
=============================================================================
