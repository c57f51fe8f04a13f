---------------------------- MODULE ServiceProofs ----------------------------
(***************************************************************************)
(* Proofs about the parts of MCService, for every value of its constants   *)
(* that meets the assumptions of the modules.                              *)
(***************************************************************************)
EXTENDS MCService, WellFoundedInduction, TLAPS

-----------------------------------------------------------------------------
(* Sequences: their items, and whether no item is there twice.             *)
Items(s) == Loop!Range(s)
Distinct(s) == Loop!IsInjective(s)

(* A sequence grows by its new item.                                       *)
LEMMA ItemsAppend ==
  ASSUME NEW S, NEW s \in Seq(S), NEW e \in S
  PROVE  /\ Items(Append(s, e)) = Items(s) \cup {e}
         /\ Distinct(s) /\ e \notin Items(s) => Distinct(Append(s, e))
<1> DEFINE t == Append(s, e)
<1>1. /\ t \in Seq(S) /\ DOMAIN s = 1..Len(s) /\ DOMAIN t = 1..(Len(s) + 1) /\ Len(s) \in Nat
      /\ t[Len(s) + 1] = e /\ \A i \in 1..Len(s) : t[i] = s[i]
  OBVIOUS
<1> HIDE DEF t
<1>2. Items(t) = Items(s) \cup {e}
  BY <1>1 DEF Items, Loop!Range
<1>3. Distinct(s) /\ e \notin Items(s) => Distinct(t)
  BY <1>1 DEF Items, Loop!Range, Distinct, Loop!IsInjective
<1>4. QED
  BY <1>2, <1>3 DEF t

(* Without its first item a sequence holds what it held, but for that item *)
(* where none is there twice.                                              *)
LEMMA ItemsTail ==
  ASSUME NEW S, NEW s \in Seq(S), s # <<>>
  PROVE  /\ Head(s) \in S /\ Tail(s) \in Seq(S)
         /\ Head(s) \in Items(s) /\ Items(Tail(s)) \subseteq Items(s)
         /\ Distinct(s) => Distinct(Tail(s)) /\ Head(s) \notin Items(Tail(s))
<1> DEFINE t == Tail(s)
<1>1. /\ t \in Seq(S) /\ DOMAIN s = 1..Len(s) /\ DOMAIN t = 1..(Len(s) - 1) /\ Len(s) \in Nat \ {0}
      /\ \A i \in 1..(Len(s) - 1) : t[i] = s[i + 1]
  OBVIOUS
<1>2. Head(s) = s[1] /\ 1 \in DOMAIN s /\ s[1] \in S
  BY <1>1
<1> HIDE DEF t
<1>3. Head(s) \in Items(s) /\ Items(t) \subseteq Items(s)
  BY <1>1, <1>2 DEF Items, Loop!Range
<1>4. ASSUME Distinct(s) PROVE Distinct(t) /\ Head(s) \notin Items(t)
  <2>1. \A i, j \in 1..Len(s) : s[i] = s[j] => i = j
    BY <1>1, <1>4 DEF Distinct, Loop!IsInjective
  <2>2. \A i \in DOMAIN t : i + 1 \in 1..Len(s) /\ i + 1 # 1 /\ t[i] = s[i + 1]
    BY <1>1
  <2>3. Distinct(t)
    BY <1>1, <2>1, <2>2 DEF Distinct, Loop!IsInjective
  <2>4. Head(s) \notin Items(t)
    BY <1>1, <1>2, <2>1, <2>2 DEF Items, Loop!Range
  <2>5. QED
    BY <2>3, <2>4
<1>5. QED
  BY <1>1, <1>2, <1>3, <1>4 DEF t

(* The empty sequence.                                                     *)
LEMMA ItemsEmpty == Items(<<>>) = {} /\ Distinct(<<>>)
  BY DEF Items, Loop!Range, Distinct, Loop!IsInjective

-----------------------------------------------------------------------------
(* Redial *)

Conns == Loop!Conns

RedialTypeOK ==
  /\ conn \in 0..MaxConns /\ up \in [Conns -> BOOLEAN]
  /\ queue \in [Conns -> Seq(Commands)] /\ buffer \in [Conns -> Seq(Commands)]
  /\ handle \in [Conns -> {"none", "range", "send", "ack", "done"}]
  /\ current \in [Conns -> Commands \cup {Loop!none}]
  /\ \A n \in Conns : handle[n] \in {"send", "ack"} => current[n] \in Commands
  /\ executed \in Seq(Commands) /\ published \subseteq Commands

(* One connection at a time: only the current one may be up, and dialing   *)
(* starts with none; what is to come is not bound and has no messages.     *)
OneUp ==
  /\ \A n \in Conns : up[n] => n = conn
  /\ redial \in {"dial", "sleep"} => \A n \in Conns : ~up[n]
  /\ redial \notin {"dial", "sleep"} => conn \in Conns
  /\ \A n \in Conns : n > conn => queue[n] = <<>> /\ n \notin bound

(* What the client holds of a connection's deliveries and monitor has not  *)
(* received.                                                               *)
Held(n) == Items(buffer[n]) \cup (IF handle[n] = "send" THEN {current[n]} ELSE {})

(* No message is in two places: the queue of the current connection, what  *)
(* the client holds for each connection, what was executed.  Queues of     *)
(* connections that are lost deliver no more.                              *)
Apart ==
  /\ \A n \in Conns : Distinct(queue[n]) /\ Distinct(buffer[n])
  /\ \A n \in Conns : handle[n] = "send" => current[n] \notin Items(buffer[n])
  /\ \A m, n \in Conns : m # n => Held(m) \cap Held(n) = {}
  /\ \A n \in Conns : Held(n) \cap Items(executed) = {}
  /\ \A n \in Conns : n = conn => /\ Items(queue[n]) \cap Items(executed) = {}
                                  /\ \A m \in Conns : Items(queue[n]) \cap Held(m) = {}

(* All of it was published, and each message is published once.            *)
Known ==
  /\ \A n \in Conns : Items(queue[n]) \cup Held(n) \subseteq published
  /\ Items(executed) \subseteq published

(* Acknowledged is what was executed.                                      *)
AckedAfter ==
  /\ acked \subseteq Items(executed)
  /\ \A n \in Conns : handle[n] = "ack" => current[n] \in Items(executed)

RedialInv == RedialTypeOK /\ OneUp /\ Apart /\ Known /\ AckedAfter /\ Distinct(executed)

(* A step that moves no message keeps them apart.                          *)
LEMMA NothingMoves ==
  ASSUME Apart, Known, AckedAfter, Distinct(executed),
         UNCHANGED <<conn, queue, acked, buffer, handle, current, executed, published>>
  PROVE  Apart' /\ Known' /\ AckedAfter' /\ Distinct(executed)'
<1>1. \A n \in Conns : Held(n)' = Held(n)
  BY DEF Held
<1>2. Conns' = Conns
  BY DEF Conns, Loop!Conns
<1>3. Apart'
  BY <1>1, <1>2 DEF Apart
<1>4. Known' /\ AckedAfter' /\ Distinct(executed)'
  BY <1>1, <1>2 DEF Known, AckedAfter
<1>5. QED
  BY <1>3, <1>4

(* Nothing is published, held or executed at first.                        *)
LEMMA RedialInit == Loop!Init => RedialInv
<1> SUFFICES ASSUME Loop!Init PROVE RedialInv
  OBVIOUS
<1>1. MaxConns \in Nat
  BY LoopAssumption DEF Loop!RedialAssumption
<1>2. \A n \in Conns : n > 0
  BY <1>1 DEF Conns, Loop!Conns
<1>3. QED
  BY <1>1, <1>2, ItemsEmpty DEF Loop!Init, RedialInv, RedialTypeOK, OneUp, Apart, Held, Known, AckedAfter, Conns

(* Every step of redial, handle, monitor and broker keeps the invariant.   *)
LEMMA RedialStep == RedialInv /\ [Loop!Next]_redialVars => RedialInv'
<1> SUFFICES ASSUME RedialInv, [Loop!Next]_redialVars PROVE RedialInv'
  OBVIOUS
<1>0. MaxConns \in Nat /\ Conns = 1..MaxConns /\ Conns' = Conns
  BY LoopAssumption DEF Loop!RedialAssumption, Conns, Loop!Conns
<1> USE <1>0 DEF RedialInv
<1>1. CASE Loop!Dial
  <2>1. RedialTypeOK'
    BY <1>1 DEF Loop!Dial, RedialTypeOK
  <2>2. /\ conn' = conn + 1 /\ conn < MaxConns /\ redial = "dial" /\ redial' = "channel"
        /\ \A n \in Conns : up'[n] <=> n = conn'
        /\ UNCHANGED <<queue, bound, acked, buffer, handle, current, executed, published>>
    BY <1>1 DEF Loop!Dial, RedialTypeOK, OneUp
  <2>3. OneUp'
    <3>1. conn \in Nat /\ conn' \in Conns
      BY <2>2 DEF RedialTypeOK
    <3>2. \A n \in Conns : n > conn' => queue'[n] = <<>> /\ n \notin bound'
      BY <2>2, <3>1 DEF OneUp
    <3>3. QED
      BY <2>2, <3>1, <3>2 DEF OneUp
  <2>4. \A n \in Conns : n = conn' => queue[n] = <<>>
    BY <2>2 DEF RedialTypeOK, OneUp
  <2>5. Apart'
    <3>1. \A n \in Conns : Held(n)' = Held(n)
      BY <2>2 DEF Held
    <3>2. QED
      BY <2>2, <2>4, <3>1, ItemsEmpty DEF Apart
  <2>6. Known' /\ AckedAfter' /\ Distinct(executed)'
    BY <2>2 DEF Known, AckedAfter, Held
  <2>7. QED
    BY <2>1, <2>3, <2>5, <2>6
<1>2. CASE \/ Loop!DialFails \/ Loop!Wake \/ Loop!RemoteControlFails \/ Loop!HandOver
           \/ Loop!SetUpStats \/ Loop!Listen \/ Loop!Closed \/ Loop!QueueDeclare
           \/ Loop!Channel \/ Loop!ChannelHangs \/ Loop!MonitorSticks
  <2>1. UNCHANGED <<conn, up, queue, bound, acked, buffer, handle, current, executed, published>>
    BY <1>2 DEF Loop!DialFails, Loop!Wake, Loop!RemoteControlFails, Loop!HandOver, Loop!SetUpStats,
       Loop!Listen, Loop!Closed, Loop!QueueDeclare, Loop!Channel, Loop!ChannelHangs, Loop!MonitorSticks
  <2>2. redial' \in {"dial", "sleep"} => \A n \in Conns : ~up[n]
    BY <1>2 DEF Loop!DialFails, Loop!Wake, Loop!RemoteControlFails, Loop!HandOver, Loop!SetUpStats,
       Loop!Listen, Loop!Closed, Loop!QueueDeclare, Loop!Channel, Loop!ChannelHangs, Loop!MonitorSticks, OneUp
  <2>3. redial' \notin {"dial", "sleep"} => redial \notin {"dial", "sleep"}
    BY <1>2 DEF Loop!DialFails, Loop!Wake, Loop!RemoteControlFails, Loop!HandOver, Loop!SetUpStats,
       Loop!Listen, Loop!Closed, Loop!QueueDeclare, Loop!Channel, Loop!ChannelHangs, Loop!MonitorSticks, OneUp
  <2>4. RedialTypeOK' /\ OneUp'
    BY <2>1, <2>2, <2>3 DEF RedialTypeOK, OneUp
  <2>5. Apart' /\ Known' /\ AckedAfter' /\ Distinct(executed)'
    BY <2>1, NothingMoves
  <2>6. QED
    BY <2>4, <2>5
<1>3. CASE Loop!QueueBind
  <2>1. /\ redial = "bind" /\ redial' = "consume" /\ bound' \subseteq bound \cup {conn}
        /\ UNCHANGED <<conn, up, queue, acked, buffer, handle, current, executed, published>>
    BY <1>3 DEF Loop!QueueBind
  <2>2. RedialTypeOK'
    BY <2>1 DEF RedialTypeOK
  <2>3. conn \in Conns /\ \A n \in Conns : n > conn => n # conn
    BY <2>1 DEF OneUp
  <2>4. OneUp'
    BY <2>1, <2>3 DEF OneUp
  <2>5. Apart' /\ Known' /\ AckedAfter' /\ Distinct(executed)'
    BY <2>1, NothingMoves
  <2>6. QED
    BY <2>2, <2>4, <2>5
<1>4. CASE Loop!Consume
  <2>1. \A n \in Conns : Held(n)' \subseteq Held(n)
    BY <1>4 DEF Loop!Consume, RedialTypeOK, OneUp, Held
  <2>2. RedialTypeOK' /\ OneUp'
    BY <1>4 DEF Loop!Consume, RedialTypeOK, OneUp
  <2>3. Apart'
    BY <1>4, <2>1 DEF Loop!Consume, RedialTypeOK, OneUp, Apart
  <2>4. QED
    BY <1>4, <2>1, <2>2, <2>3 DEF Loop!Consume, Known, AckedAfter, RedialTypeOK, OneUp
<1>5. ASSUME NEW n \in Conns, Loop!Receive(n)
      PROVE  RedialInv'
  <2>1. /\ buffer[n] \in Seq(Commands) /\ buffer[n] # <<>> /\ handle[n] = "range"
        /\ buffer'[n] = Tail(buffer[n]) /\ current'[n] = Head(buffer[n]) /\ handle'[n] = "send"
        /\ \A m \in Conns : m # n => /\ buffer'[m] = buffer[m] /\ current'[m] = current[m]
                                     /\ handle'[m] = handle[m]
    BY <1>5 DEF Loop!Receive, RedialTypeOK
  <2>2. /\ Head(buffer[n]) \in Commands /\ Tail(buffer[n]) \in Seq(Commands)
        /\ Head(buffer[n]) \in Items(buffer[n]) /\ Items(Tail(buffer[n])) \subseteq Items(buffer[n])
        /\ Distinct(Tail(buffer[n])) /\ Head(buffer[n]) \notin Items(Tail(buffer[n]))
    BY <2>1, ItemsTail DEF Apart
  <2>3. \A m \in Conns : Held(m)' \subseteq Held(m)
    BY <2>1, <2>2 DEF Held
  <2>4. RedialTypeOK'
    BY <1>5, <2>1, <2>2 DEF Loop!Receive, RedialTypeOK
  <2>5. OneUp' /\ AckedAfter' /\ Distinct(executed)'
    BY <1>5, <2>1 DEF Loop!Receive, OneUp, AckedAfter
  <2>6. Apart'
    BY <1>5, <2>1, <2>2, <2>3 DEF Loop!Receive, Apart
  <2>7. Known'
    BY <1>5, <2>3 DEF Loop!Receive, Known
  <2>8. QED
    BY <2>4, <2>5, <2>6, <2>7
<1>6. ASSUME NEW n \in Conns, Loop!Execute(n)
      PROVE  RedialInv'
  <2>1. /\ handle[n] = "send" /\ executed' = Append(executed, current[n]) /\ handle'[n] = "ack"
        /\ current[n] \in Commands
        /\ \A m \in Conns : m # n => handle'[m] = handle[m]
        /\ UNCHANGED <<redial, conn, up, queue, bound, acked, buffer, current, published>>
    BY <1>6 DEF Loop!Execute, RedialTypeOK
  <2>2. current[n] \in Held(n) /\ current[n] \notin Items(executed)
    BY <2>1 DEF Held, Apart
  <2>3. Items(executed') = Items(executed) \cup {current[n]} /\ Distinct(executed')
    BY <2>1, <2>2, ItemsAppend DEF RedialTypeOK
  <2>4. Held(n)' = Held(n) \ {current[n]} /\ \A m \in Conns : m # n => Held(m)' = Held(m)
    BY <2>1 DEF Held, Apart
  <2>5. RedialTypeOK'
    BY <2>1, <1>6 DEF Loop!Execute, RedialTypeOK
  <2>6. OneUp' /\ AckedAfter'
    BY <2>1, <2>3 DEF OneUp, AckedAfter
  <2>7. Apart'
    BY <2>1, <2>2, <2>3, <2>4 DEF Apart
  <2>8. Known'
    BY <2>1, <2>2, <2>3, <2>4 DEF Known
  <2>9. QED
    BY <2>3, <2>5, <2>6, <2>7, <2>8 DEF Distinct, Loop!IsInjective
<1>7. ASSUME NEW n \in Conns, Loop!Ack(n) \/ Loop!Drained(n)
      PROVE  RedialInv'
  <2>1. /\ handle[n] # "send" /\ handle'[n] \in {"range", "done"}
        /\ handle' = [handle EXCEPT ![n] = handle'[n]]
        /\ acked' \subseteq acked \cup (IF handle[n] = "ack" THEN {current[n]} ELSE {})
        /\ UNCHANGED <<redial, conn, up, queue, bound, buffer, current, executed, published>>
    BY <1>7 DEF Loop!Ack, Loop!Drained, RedialTypeOK
  <2>2. \A m \in Conns : Held(m)' = Held(m)
    BY <2>1 DEF Held, RedialTypeOK
  <2>3. RedialTypeOK' /\ OneUp'
    BY <2>1 DEF OneUp, RedialTypeOK
  <2>4. \A m \in Conns : handle'[m] = "send" <=> handle[m] = "send"
    BY <2>1 DEF RedialTypeOK
  <2>5. \A m \in Conns : handle'[m] = "ack" => handle[m] = "ack"
    BY <2>1 DEF RedialTypeOK
  <2>6. Apart'
    BY <2>1, <2>2, <2>4 DEF Apart
  <2>7. Known' /\ Distinct(executed)'
    BY <2>1, <2>2 DEF Known
  <2>8. AckedAfter'
    BY <2>1, <2>5 DEF AckedAfter
  <2>9. QED
    BY <2>3, <2>6, <2>7, <2>8
<1>8. CASE Loop!Shutdown
  <2>1. /\ queue' = [queue EXCEPT ![rcChan] = <<>>] /\ bound' \subseteq bound
        /\ UNCHANGED <<redial, conn, up, acked, buffer, handle, current, executed, published>>
    BY <1>8 DEF Loop!Shutdown
  <2>2. queue' \in [Conns -> Seq(Commands)] /\ \A n \in Conns : queue'[n] \in {queue[n], <<>>}
    <3>1. queue \in [Conns -> Seq(Commands)] /\ <<>> \in Seq(Commands)
      BY DEF RedialTypeOK
    <3>2. queue' = [n \in Conns |-> IF n = rcChan THEN <<>> ELSE queue[n]]
      BY <2>1, <3>1
    <3>3. QED
      BY <3>1, <3>2
  <2>3. RedialTypeOK'
    BY <2>1, <2>2 DEF RedialTypeOK
  <2>4. OneUp' /\ AckedAfter' /\ Distinct(executed)'
    BY <2>1, <2>2 DEF OneUp, AckedAfter
  <2>5. \A n \in Conns : Held(n)' = Held(n)
    BY <2>1 DEF Held
  <2>6. Apart' /\ Known'
    BY <2>1, <2>2, <2>5, ItemsEmpty DEF Apart, Known
  <2>7. QED
    BY <2>3, <2>4, <2>6
<1>9. ASSUME NEW m \in Commands, Loop!Publish(m)
      PROVE  RedialInv'
  <2>1. /\ m \notin published /\ published' = published \cup {m}
        /\ queue' = [n \in Conns |-> IF n \in bound THEN Append(queue[n], m) ELSE queue[n]]
        /\ UNCHANGED <<redial, conn, up, bound, acked, buffer, handle, current, executed>>
    BY <1>9 DEF Loop!Publish, Conns
  <2>2. \A n \in Conns : /\ queue'[n] \in Seq(Commands) /\ Items(queue'[n]) \subseteq Items(queue[n]) \cup {m}
                         /\ Distinct(queue'[n])
    <3> SUFFICES ASSUME NEW n \in Conns
                 PROVE  /\ queue'[n] \in Seq(Commands) /\ Items(queue'[n]) \subseteq Items(queue[n]) \cup {m}
                        /\ Distinct(queue'[n])
      OBVIOUS
    <3>1. queue[n] \in Seq(Commands) /\ m \notin Items(queue[n]) /\ Distinct(queue[n])
      BY <2>1 DEF RedialTypeOK, Known, Apart
    <3>2. QED
      BY <2>1, <3>1, ItemsAppend
  <2>3. RedialTypeOK'
    BY <2>1, <2>2 DEF RedialTypeOK
  <2>4. OneUp' /\ AckedAfter' /\ Distinct(executed)'
    BY <2>1 DEF OneUp, AckedAfter
  <2>5. \A n \in Conns : Held(n)' = Held(n)
    BY <2>1 DEF Held
  <2> HIDE DEF Held
  <2>6. /\ m \notin published /\ published' = published \cup {m}
        /\ UNCHANGED <<conn, buffer, handle, current, executed>>
    BY <2>1
  <2>7. \A n \in Conns : /\ Items(queue[n]) \subseteq published /\ Held(n) \subseteq published
                         /\ Items(executed) \subseteq published
    BY DEF Known
  <2>8. Known'
    <3>1. \A n \in Conns : Items(queue'[n]) \subseteq published' /\ Held(n)' \subseteq published'
      BY <2>2, <2>5, <2>6, <2>7
    <3>2. Items(executed)' \subseteq published'
      BY <2>6 DEF Known
    <3>3. QED
      BY <3>1, <3>2 DEF Known
  <2>9. \A n \in Conns : m \notin Held(n) /\ m \notin Items(executed)
    BY <2>6, <2>7
  <2>10. Apart'
    <3>1. \A n \in Conns : Distinct(queue'[n]) /\ Distinct(buffer'[n])
      BY <2>2, <2>6 DEF Apart
    <3>2. \A n \in Conns : Held(n)' \cap Items(executed') = {}
      BY <2>5, <2>6 DEF Apart
    <3>3. \A k, n \in Conns : k # n => Held(k)' \cap Held(n)' = {}
      BY <2>5 DEF Apart
    <3>4. ASSUME NEW n \in Conns, n = conn
          PROVE  /\ Items(queue'[n]) \cap Items(executed) = {}
                 /\ \A k \in Conns : Items(queue'[n]) \cap Held(k) = {}
      <4>1. Items(queue'[n]) \subseteq Items(queue[n]) \cup {m}
        BY <2>2
      <4>2. Items(queue[n]) \cap Items(executed) = {} /\ \A k \in Conns : Items(queue[n]) \cap Held(k) = {}
        BY <3>4 DEF Apart
      <4>3. QED
        BY <2>9, <4>1, <4>2, Zenon
    <3>5. \A n \in Conns : handle'[n] = "send" => current'[n] \notin Items(buffer'[n])
      BY <2>6 DEF Apart
    <3>6. \A n \in Conns : n = conn' => /\ Items(queue'[n]) \cap Items(executed') = {}
                                        /\ \A k \in Conns : Items(queue'[n]) \cap Held(k)' = {}
      BY <2>5, <2>6, <3>4
    <3>7. QED
      BY <3>1, <3>2, <3>3, <3>5, <3>6, Zenon DEF Apart
  <2>11. QED
    BY <2>3, <2>4, <2>8, <2>10
<1>10. ASSUME NEW n \in Conns, Loop!Deliver(n)
       PROVE  RedialInv'
  <2>1. /\ n = conn /\ queue[n] \in Seq(Commands) /\ queue[n] # <<>> /\ buffer[n] \in Seq(Commands)
        /\ buffer' = [buffer EXCEPT ![n] = Append(buffer[n], Head(queue[n]))]
        /\ queue' = [queue EXCEPT ![n] = Tail(queue[n])]
        /\ UNCHANGED <<redial, conn, up, bound, acked, handle, current, executed, published>>
    BY <1>10 DEF Loop!Deliver, RedialTypeOK, OneUp
  <2> DEFINE d == Head(queue[n])
  <2>2. /\ d \in Commands /\ Tail(queue[n]) \in Seq(Commands)
        /\ d \in Items(queue[n]) /\ Items(Tail(queue[n])) \subseteq Items(queue[n])
        /\ Distinct(Tail(queue[n])) /\ d \notin Items(Tail(queue[n]))
    BY <2>1, ItemsTail DEF Apart
  <2>3. d \notin Items(executed) /\ \A m \in Conns : d \notin Held(m)
    BY <2>1, <2>2 DEF Apart
  <2>4. d \notin Items(buffer[n])
    BY <2>3 DEF Held
  <2>5. Items(buffer'[n]) = Items(buffer[n]) \cup {d} /\ Distinct(buffer'[n])
    BY <2>1, <2>2, <2>4, ItemsAppend DEF RedialTypeOK, Apart
  <2> HIDE DEF d
  <2>6. /\ queue'[n] = Tail(queue[n])
        /\ \A m \in Conns : m # n => queue'[m] = queue[m] /\ buffer'[m] = buffer[m]
    BY <2>1 DEF RedialTypeOK
  <2>7. Held(n)' = Held(n) \cup {d} /\ \A m \in Conns : m # n => Held(m)' = Held(m)
    BY <2>1, <2>5, <2>6 DEF Held
  <2>8. RedialTypeOK'
    BY <2>1, <2>2 DEF RedialTypeOK, d
  <2>9. OneUp' /\ AckedAfter' /\ Distinct(executed)'
    BY <2>1, <2>6 DEF OneUp, AckedAfter
  <2>10. Known'
    BY <2>1, <2>2, <2>6, <2>7 DEF Known
  <2>11. Apart'
    <3>1. \A m \in Conns : Distinct(queue'[m]) /\ Distinct(buffer'[m])
      BY <2>2, <2>5, <2>6 DEF Apart
    <3>2. \A m \in Conns : handle[m] = "send" => current[m] \notin Items(buffer'[m])
      BY <2>3, <2>5, <2>6 DEF Apart, Held
    <3>3. \A k, m \in Conns : k # m => Held(k)' \cap Held(m)' = {}
      BY <2>3, <2>7 DEF Apart
    <3>4. \A m \in Conns : Held(m)' \cap Items(executed) = {}
      BY <2>3, <2>7 DEF Apart
    <3>5. /\ Items(queue'[n]) \cap Items(executed) = {}
          /\ \A m \in Conns : Items(queue'[n]) \cap Held(m)' = {}
      BY <2>1, <2>2, <2>6, <2>7 DEF Apart
    <3>6. QED
      BY <2>1, <3>1, <3>2, <3>3, <3>4, <3>5 DEF Apart
  <2>12. QED
    BY <2>8, <2>9, <2>10, <2>11
<1>11. CASE Loop!Lose
  <2>1. /\ conn \in Conns /\ up' = [up EXCEPT ![conn] = FALSE]
        /\ UNCHANGED <<redial, conn, queue, bound, acked, buffer, handle, current, executed, published>>
    BY <1>11 DEF Loop!Lose, RedialTypeOK
  <2>2. RedialTypeOK' /\ OneUp'
    BY <2>1 DEF RedialTypeOK, OneUp
  <2>3. Apart' /\ Known' /\ AckedAfter' /\ Distinct(executed)'
    BY <2>1, NothingMoves
  <2>4. QED
    BY <2>2, <2>3
<1>12. ASSUME NEW k \in Conns, Loop!BrokerNotices(k)
       PROVE  RedialInv'
  <2>1. /\ queue' = [queue EXCEPT ![k] = <<>>] /\ bound' \subseteq bound
        /\ UNCHANGED <<redial, conn, up, acked, buffer, handle, current, executed, published>>
    BY <1>12 DEF Loop!BrokerNotices, Loop!AutoDelete
  <2>2. queue' \in [Conns -> Seq(Commands)] /\ \A n \in Conns : queue'[n] \in {queue[n], <<>>}
    BY <2>1 DEF RedialTypeOK
  <2>3. RedialTypeOK'
    BY <2>1, <2>2 DEF RedialTypeOK
  <2>4. OneUp' /\ AckedAfter' /\ Distinct(executed)'
    BY <2>1, <2>2 DEF OneUp, AckedAfter
  <2>5. \A n \in Conns : Held(n)' = Held(n)
    BY <2>1 DEF Held
  <2>6. Apart' /\ Known'
    BY <2>1, <2>2, <2>5, ItemsEmpty DEF Apart, Known
  <2>7. QED
    BY <2>3, <2>4, <2>6
<1>13. CASE UNCHANGED redialVars
  <2>1. RedialTypeOK' /\ OneUp'
    BY <1>13 DEF redialVars, RedialTypeOK, OneUp
  <2>2. Apart' /\ Known' /\ AckedAfter' /\ Distinct(executed)'
    BY <1>13, NothingMoves DEF redialVars
  <2>3. QED
    BY <2>1, <2>2
<1>14. QED
  BY <1>1, <1>2, <1>3, <1>4, <1>5, <1>6, <1>7, <1>8, <1>9, <1>10, <1>11, <1>12, <1>13
  DEF Loop!Next, Loop!Loop, Loop!Handling, Loop!Broking, Conns

(* A command is executed at most once and acknowledged only after that,    *)
(* whatever connections are lost and whenever (main.go, remote_control.go).*)
THEOREM CommandsExecutedOnce == Spec => []CommandsOnce
<1>1. Init => RedialInv
  BY RedialInit DEF Init
<1>2. RedialInv /\ [Next \/ Ends]_vars => RedialInv'
  <2>1. [Next \/ Ends]_vars => [Loop!Next]_redialVars
    <3>1. CASE Next
      BY <3>1, Zenon DEF Next
    <3>2. CASE Ends \/ UNCHANGED vars
      BY <3>2, Zenon DEF Ends, vars
    <3>3. QED
      BY <3>1, <3>2
  <2>2. QED
    BY <2>1, RedialStep
<1>3. RedialInv => CommandsOnce
  BY DEF RedialInv, AckedAfter, CommandsOnce, Loop!CommandsOnce, Loop!ExecutedOnce, Loop!AckedIsExecuted,
     Items, Distinct
<1>4. QED
  BY <1>1, <1>2, <1>3, PTL DEF Spec

-----------------------------------------------------------------------------
(* Logging *)

Texts == {"none", "line", "Failed to fire hook", "Failed to obtain reader"}
Calls == [pc : {"idle", "logger", "entryf", "entry", "fire", "format", "lock", "write", "written", "after"},
          lv : Nat, entry : {"plain", "unfit"}, n : Nat, allowed : Nat,
          text : Texts, then : {"none", "after", "format"}]
LineParts == [by : Routines, n : Nat, text : Texts, part : {1, 2}, lv : Nat]

LogTypeOK ==
  /\ level \in Nat \ {0} /\ mu \in Routines \cup {Log!NoOne}
  /\ call \in [Routines -> Calls] /\ out \in Seq(LineParts)

(* Whoever writes holds the mutex, and the last part written is its first  *)
(* part of a line, or the end of a line when nobody is within one.         *)
OneWrites ==
  /\ \A g \in Routines : call[g].pc \in {"write", "written"} => mu = g
  /\ \A g \in Routines : call[g].pc = "written" =>
        out # <<>> /\ LET last == out[Len(out)] IN
          last.part = 1 /\ last.by = g /\ last.n = call[g].n /\ last.text = call[g].text
  /\ out # <<>> /\ out[Len(out)].part = 1 => \E g \in Routines : call[g].pc = "written"

(* A call that got as far as the hooks was allowed to; what is written of  *)
(* a goroutine's call bears its number and its level.                      *)
Allowed ==
  /\ \A g \in Routines : call[g].pc # "idle" => level <= call[g].allowed
  /\ \A g \in Routines : call[g].pc \in {"fire", "format", "lock", "write", "written"} =>
        call[g].lv <= call[g].allowed
  /\ \A i \in DOMAIN out : LET of == call[out[i].by] IN
        out[i].n <= of.n /\ (out[i].n = of.n => out[i].lv = of.lv)

(* The complaint about a hook comes before the line, which only an entry   *)
(* that JSON cannot express does without.                                  *)
LineAtLast ==
  \A g \in Routines : call[g].pc \in {"lock", "write", "written"} =>
    /\ call[g].then \in {"format", "after"}
    /\ call[g].entry = "plain" => call[g].text = "line" \/ call[g].then = "format"

(* Once the mutex is released the line is out.                             *)
LineOut(g) ==
  \E i \in DOMAIN out : out[i].by = g /\ out[i].n = call[g].n /\ out[i].part = 2 /\ out[i].text = "line"
LineThen == \A g \in Routines : call[g].pc = "after" /\ call[g].entry = "plain" => LineOut(g)

LogInv ==
  LogTypeOK /\ OneWrites /\ Allowed /\ LineAtLast /\ LineThen /\ Log!LinesWhole /\ Log!FatalIsLogged

(* The assumptions on goroutines and levels.                               *)
LEMMA LevelsAreNumbers ==
  /\ Log!NoOne \notin Routines /\ Levels \subseteq Nat /\ Settings \subseteq Nat \ {0}
  /\ Entries \subseteq {"plain", "unfit"}
  BY LogAssumption DEF Log!LoggingAssumption, Log!PanicLevel

(* Nothing is logged at first.                                             *)
LEMMA LogInit == Log!Init => LogInv
<1> SUFFICES ASSUME Log!Init PROVE LogInv
  OBVIOUS
<1>1. LogTypeOK
  BY DEF Log!Init, Log!InfoLevel, Log!Idle, LogTypeOK, Calls, Texts
<1>2. OneWrites /\ Allowed /\ LineAtLast /\ LineThen
  BY DEF Log!Init, Log!Idle, OneWrites, Allowed, LineAtLast, LineThen
<1>3. Log!LinesWhole /\ Log!FatalIsLogged
  BY DEF Log!Init, Log!LinesWhole, Log!FatalIsLogged
<1>4. QED
  BY <1>1, <1>2, <1>3 DEF LogInv

(* What is out are parts of lines.                                         *)
LEMMA OutTyped ==
  ASSUME LogTypeOK
  PROVE  \A i \in DOMAIN out : out[i] \in LineParts /\ out[i].by \in Routines /\ out[i].n \in Nat
<1>1. \A i \in DOMAIN out : out[i] \in LineParts
  BY DEF LogTypeOK
<1>2. QED
  BY <1>1 DEF LineParts

(* A step of one goroutine, whose call becomes k, that writes nothing.     *)
Quiet(g, k) ==
  /\ exited = <<>> /\ call' = [call EXCEPT ![g] = k]
  /\ level' = level /\ out' = out /\ exited' = exited
  /\ k.n >= call[g].n /\ (k.n = call[g].n => k.lv = call[g].lv)
  /\ call[g].pc \notin {"write", "written"} /\ k.pc \notin {"written", "after"}
  /\ \/ mu' = mu /\ k.pc # "write"
     \/ mu = Log!NoOne /\ mu' = g
  /\ k.pc # "idle" => level <= k.allowed
  /\ k.pc \in {"fire", "format", "lock", "write"} => k.lv <= k.allowed
  /\ k.pc \in {"lock", "write"} =>
       k.then \in {"format", "after"} /\ (k.entry = "plain" => k.text = "line" \/ k.then = "format")

(* It keeps the invariant.                                                 *)
LEMMA QuietStep == ASSUME LogInv, NEW g \in Routines, NEW k \in Calls, Quiet(g, k) PROVE LogInv'
<1> USE DEF Quiet
<1>1. \A h \in Routines : call'[h] = IF h = g THEN k ELSE call[h]
  BY DEF LogInv, LogTypeOK
<1>2. LogTypeOK'
  BY DEF LogInv, LogTypeOK
<1>3. \A h \in Routines : call'[h].pc = "written" <=> call[h].pc = "written"
  BY <1>1
<1>4. OneWrites'
  <2>1. \A h \in Routines : call'[h].pc \in {"write", "written"} => mu' = h
    BY <1>1, LevelsAreNumbers DEF LogInv, OneWrites
  <2>2. \A h \in Routines : call'[h].pc = "written" => call'[h] = call[h]
    BY <1>1
  <2>3. QED
    BY <1>3, <2>1, <2>2 DEF LogInv, OneWrites
<1>5. Allowed'
  <2>1. \A i \in DOMAIN out : LET of == call'[out[i].by] IN
          out[i].n <= of.n /\ (out[i].n = of.n => out[i].lv = of.lv)
    <3>1. \A i \in DOMAIN out : out[i].by \in Routines /\ out[i].n \in Nat
      BY OutTyped DEF LogInv
    <3>2. k.n \in Nat /\ call[g].n \in Nat
      BY DEF LogInv, LogTypeOK, Calls
    <3>3. QED
      BY <1>1, <3>1, <3>2 DEF LogInv, Allowed
  <2>2. QED
    BY <1>1, <2>1 DEF LogInv, Allowed
<1>6. LineAtLast'
  BY <1>1 DEF LogInv, LineAtLast
<1>7. LineThen'
  <2>1. \A h \in Routines : call'[h].pc = "after" => call'[h] = call[h]
    BY <1>1
  <2>2. QED
    BY <2>1 DEF LogInv, LineThen, LineOut
<1>8. Log!LinesWhole' /\ Log!FatalIsLogged'
  BY DEF LogInv, Log!LinesWhole, Log!FatalIsLogged, Log!SameLine
<1>9. QED
  BY <1>2, <1>4, <1>5, <1>6, <1>7, <1>8 DEF LogInv

(* A part of a line is appended.                                           *)
LEMMA PartAppended ==
  ASSUME NEW e \in LineParts, out \in Seq(LineParts), out' = Append(out, e)
  PROVE  /\ out' \in Seq(LineParts) /\ out' # <<>> /\ Len(out') = Len(out) + 1 /\ Len(out) \in Nat
         /\ out'[Len(out')] = e /\ DOMAIN out' = 1..(Len(out) + 1) /\ DOMAIN out = 1..Len(out)
         /\ \A i \in 1..Len(out) : out'[i] = out[i]
  OBVIOUS

(* Lines stay whole when what is appended ends an open line, and only then *)
(* is an end.                                                              *)
WholeTo(s, n) ==
  \A i \in 1..n : /\ s[i].part = 1 /\ i < n => s[i + 1].part = 2 /\ Log!SameLine(s[i], s[i + 1])
                  /\ s[i].part = 2 => i > 1 /\ Log!SameLine(s[i - 1], s[i])

LEMMA WholeGrows ==
  ASSUME NEW s, NEW t, NEW n \in Nat, WholeTo(s, n), \A i \in 1..n : t[i] = s[i],
         n > 0 /\ s[n].part = 1 => t[n + 1].part = 2 /\ Log!SameLine(s[n], t[n + 1]),
         t[n + 1].part = 2 => n > 0 /\ Log!SameLine(s[n], t[n + 1])
  PROVE  WholeTo(t, n + 1)
<1> SUFFICES ASSUME NEW i \in 1..(n + 1)
             PROVE  /\ t[i].part = 1 /\ i < n + 1 => t[i + 1].part = 2 /\ Log!SameLine(t[i], t[i + 1])
                    /\ t[i].part = 2 => i > 1 /\ Log!SameLine(t[i - 1], t[i])
  BY DEF WholeTo
<1>1. CASE i = n + 1
  <2>1. i - 1 = n /\ (n > 0 => t[n] = s[n])
    BY <1>1
  <2>2. QED
    BY <1>1, <2>1
<1>2. CASE i = n
  <2>1. n > 0 /\ t[n] = s[n] /\ (n > 1 => t[n - 1] = s[n - 1])
    BY <1>2
  <2>2. s[n].part = 2 => n > 1 /\ Log!SameLine(s[n - 1], s[n])
    BY <1>2 DEF WholeTo
  <2>3. QED
    BY <1>2, <2>1, <2>2
<1>3. CASE i < n
  <2>1. i \in 1..n /\ t[i] = s[i] /\ t[i + 1] = s[i + 1] /\ (i > 1 => t[i - 1] = s[i - 1])
    BY <1>3
  <2>2. /\ s[i].part = 1 => s[i + 1].part = 2 /\ Log!SameLine(s[i], s[i + 1])
        /\ s[i].part = 2 => i > 1 /\ Log!SameLine(s[i - 1], s[i])
    BY <1>3, <2>1 DEF WholeTo
  <2>3. QED
    BY <2>1, <2>2
<1>4. QED
  BY <1>1, <1>2, <1>3

LEMMA LinesStayWhole ==
  ASSUME Log!LinesWhole, NEW e \in LineParts, out \in Seq(LineParts), out' = Append(out, e),
         out # <<>> /\ out[Len(out)].part = 1 => e.part = 2 /\ Log!SameLine(out[Len(out)], e),
         e.part = 2 => out # <<>> /\ Log!SameLine(out[Len(out)], e)
  PROVE  Log!LinesWhole'
<1> DEFINE n == Len(out)
<1>1. /\ Len(out') = n + 1 /\ n \in Nat /\ out'[n + 1] = e
      /\ DOMAIN out' = 1..(n + 1) /\ DOMAIN out = 1..n
      /\ \A i \in 1..n : out'[i] = out[i]
  BY PartAppended
<1>2. n > 0 <=> out # <<>>
  OBVIOUS
<1>3. WholeTo(out, n)
  BY <1>1 DEF Log!LinesWhole, WholeTo
<1>4. /\ n > 0 /\ out[n].part = 1 => out'[n + 1].part = 2 /\ Log!SameLine(out[n], out'[n + 1])
      /\ out'[n + 1].part = 2 => n > 0 /\ Log!SameLine(out[n], out'[n + 1])
  BY <1>1, <1>2
<1> HIDE DEF n
<1>5. WholeTo(out', n + 1)
  BY <1>1, <1>3, <1>4, WholeGrows
<1>6. QED
  BY <1>1, <1>5 DEF Log!LinesWhole, WholeTo, Log!SameLine

(* The first part, written by whom holds the mutex.                        *)
LEMMA WriteStep == ASSUME LogInv, NEW g \in Routines, Log!Write(g) PROVE LogInv'
<1> DEFINE e == [by |-> g, n |-> call[g].n, text |-> call[g].text, part |-> 1, lv |-> call[g].lv]
<1>1. /\ call[g] \in Calls /\ call[g].pc = "write" /\ exited = <<>> /\ exited' = <<>>
      /\ call' = [call EXCEPT ![g].pc = "written"] /\ UNCHANGED <<level, mu>>
      /\ mu = g /\ out' = Append(out, e)
  BY DEF Log!Write, Log!At, Log!Runs, Log!Go, Log!Part, LogInv, LogTypeOK, OneWrites
<1>2. call' \in [Routines -> Calls]
  BY <1>1 DEF LogInv, LogTypeOK, Calls
<1>3. \A h \in Routines : /\ call'[h].n = call[h].n /\ call'[h].lv = call[h].lv /\ call'[h].text = call[h].text
                           /\ call'[h].entry = call[h].entry /\ call'[h].then = call[h].then
                           /\ call'[h].allowed = call[h].allowed
                           /\ call'[h].pc = IF h = g THEN "written" ELSE call[h].pc
  BY <1>1 DEF LogInv, LogTypeOK, Calls
<1>4. e \in LineParts
  BY <1>1 DEF LineParts, Calls
<1>5. e.by = g /\ e.n = call[g].n /\ e.text = call[g].text /\ e.part = 1 /\ e.lv = call[g].lv
  OBVIOUS
<1> HIDE DEF e
<1>6. /\ out' \in Seq(LineParts) /\ out' # <<>> /\ Len(out') = Len(out) + 1 /\ Len(out) \in Nat
      /\ out'[Len(out')] = e /\ DOMAIN out' = 1..(Len(out) + 1) /\ DOMAIN out = 1..Len(out)
      /\ \A i \in 1..Len(out) : out'[i] = out[i]
  BY <1>1, <1>4, PartAppended DEF LogInv, LogTypeOK
<1>7. \A h \in Routines : call[h].pc # "written"
  BY <1>1 DEF LogInv, OneWrites
<1>8. out # <<>> => out[Len(out)].part # 1
  BY <1>7 DEF LogInv, OneWrites
<1>9. LogTypeOK'
  BY <1>1, <1>2, <1>6 DEF LogInv, LogTypeOK
<1>10. OneWrites'
  <2>1. \A h \in Routines : call'[h].pc \in {"write", "written"} => mu' = h
    BY <1>1, <1>3 DEF LogInv, OneWrites
  <2>2. \A h \in Routines : call'[h].pc = "written" => h = g
    BY <1>3, <1>7
  <2>3. QED
    BY <1>3, <1>5, <1>6, <2>1, <2>2 DEF OneWrites
<1>11. Allowed'
  <2>1. \A i \in DOMAIN out : out[i].by \in Routines
    BY OutTyped DEF LogInv
  <2>2. \A i \in DOMAIN out' : LET of == call'[out'[i].by] IN
          out'[i].n <= of.n /\ (out'[i].n = of.n => out'[i].lv = of.lv)
    <3> SUFFICES ASSUME NEW i \in 1..(Len(out) + 1)
                 PROVE  LET of == call'[out'[i].by] IN
                          out'[i].n <= of.n /\ (out'[i].n = of.n => out'[i].lv = of.lv)
      BY <1>6
    <3>1. CASE i \in 1..Len(out)
      BY <1>3, <1>6, <2>1, <3>1 DEF LogInv, Allowed
    <3>2. CASE i = Len(out) + 1
      BY <1>1, <1>3, <1>5, <1>6, <3>2 DEF Calls
    <3>3. QED
      BY <1>6, <3>1, <3>2
  <2>3. QED
    BY <1>1, <1>3, <2>2 DEF LogInv, Allowed
<1>12. LineAtLast'
  BY <1>1, <1>3 DEF LogInv, LineAtLast
<1>13. Log!LinesWhole'
  BY <1>1, <1>4, <1>5, <1>8, LinesStayWhole DEF LogInv, LogTypeOK
<1>14. Log!FatalIsLogged'
  BY <1>1 DEF Log!FatalIsLogged
<1>15. LineThen'
  <2> SUFFICES ASSUME NEW h \in Routines, call'[h].pc = "after", call'[h].entry = "plain"
               PROVE  LineOut(h)'
    BY DEF LineThen
  <2>1. LineOut(h)
    BY <1>3 DEF LogInv, LineThen
  <2>2. QED
    BY <1>3, <1>6, <2>1 DEF LineOut
<1>16. QED
  BY <1>9, <1>10, <1>11, <1>12, <1>13, <1>14, <1>15 DEF LogInv

(* The rest of the line; the mutex is released.                            *)
LEMMA WrittenStep == ASSUME LogInv, NEW g \in Routines, Log!Written(g) PROVE LogInv'
<1> DEFINE e == [by |-> g, n |-> call[g].n, text |-> call[g].text, part |-> 2, lv |-> call[g].lv]
<1> DEFINE next == call[g].then
<1>1. /\ call[g] \in Calls /\ call[g].pc = "written" /\ exited = <<>>
      /\ call' = [call EXCEPT ![g].pc = next] /\ UNCHANGED level /\ exited' = <<>>
      /\ mu = g /\ mu' = Log!NoOne /\ out' = Append(out, e)
  BY DEF Log!Written, Log!At, Log!Runs, Log!Go, Log!Part, Log!Unlock, LogInv, LogTypeOK, OneWrites
<1>2. next \in {"format", "after"} /\ (next = "after" /\ call[g].entry = "plain" => call[g].text = "line")
  BY <1>1 DEF LogInv, LineAtLast
<1>3. e \in LineParts
  BY <1>1 DEF LineParts, Calls
<1>4. e.by = g /\ e.n = call[g].n /\ e.text = call[g].text /\ e.part = 2 /\ e.lv = call[g].lv
  OBVIOUS
<1> HIDE DEF e, next
<1>5. call' \in [Routines -> Calls]
  BY <1>1, <1>2 DEF LogInv, LogTypeOK, Calls
<1>6. \A h \in Routines : /\ call'[h].n = call[h].n /\ call'[h].lv = call[h].lv /\ call'[h].text = call[h].text
                           /\ call'[h].entry = call[h].entry /\ call'[h].then = call[h].then
                           /\ call'[h].allowed = call[h].allowed
                           /\ call'[h].pc = IF h = g THEN next ELSE call[h].pc
  BY <1>1 DEF LogInv, LogTypeOK, Calls
<1>7. /\ out' \in Seq(LineParts) /\ out' # <<>> /\ Len(out') = Len(out) + 1 /\ Len(out) \in Nat
      /\ out'[Len(out')] = e /\ DOMAIN out' = 1..(Len(out) + 1) /\ DOMAIN out = 1..Len(out)
      /\ \A i \in 1..Len(out) : out'[i] = out[i]
  BY <1>1, <1>3, PartAppended DEF LogInv, LogTypeOK
<1>8. out # <<>> /\ Log!SameLine(out[Len(out)], e)
  BY <1>1, <1>4 DEF LogInv, OneWrites, Log!SameLine
<1>9. LogTypeOK'
  BY <1>1, <1>5, <1>7 DEF LogInv, LogTypeOK
<1>10. OneWrites'
  <2>1. \A h \in Routines : call'[h].pc \notin {"write", "written"}
    BY <1>1, <1>2, <1>6 DEF LogInv, OneWrites
  <2>2. out'[Len(out')].part = 2
    BY <1>4, <1>7
  <2>3. QED
    BY <2>1, <2>2 DEF OneWrites
<1>11. Allowed'
  <2>1. \A i \in DOMAIN out : out[i].by \in Routines
    BY OutTyped DEF LogInv
  <2>2. \A i \in DOMAIN out' : LET of == call'[out'[i].by] IN
          out'[i].n <= of.n /\ (out'[i].n = of.n => out'[i].lv = of.lv)
    <3> SUFFICES ASSUME NEW i \in 1..(Len(out) + 1)
                 PROVE  LET of == call'[out'[i].by] IN
                          out'[i].n <= of.n /\ (out'[i].n = of.n => out'[i].lv = of.lv)
      BY <1>7
    <3>1. CASE i \in 1..Len(out)
      BY <1>6, <1>7, <2>1, <3>1 DEF LogInv, Allowed
    <3>2. CASE i = Len(out) + 1
      BY <1>1, <1>4, <1>6, <1>7, <3>2 DEF Calls
    <3>3. QED
      BY <1>7, <3>1, <3>2
  <2>3. QED
    BY <1>1, <1>2, <1>6, <2>2 DEF LogInv, Allowed
<1>12. LineAtLast'
  BY <1>2, <1>6 DEF LogInv, LineAtLast
<1>13. Log!LinesWhole'
  BY <1>1, <1>3, <1>4, <1>8, LinesStayWhole DEF LogInv, LogTypeOK
<1>14. Log!FatalIsLogged'
  BY <1>1 DEF Log!FatalIsLogged
<1>15. LineThen'
  <2> SUFFICES ASSUME NEW h \in Routines, call'[h].pc = "after", call'[h].entry = "plain"
               PROVE  LineOut(h)'
    BY DEF LineThen
  <2>1. CASE h = g
    BY <1>2, <1>4, <1>6, <1>7, <2>1 DEF LineOut
  <2>2. CASE h # g
    <3>1. LineOut(h)
      BY <1>6, <2>2 DEF LogInv, LineThen
    <3>2. QED
      BY <1>6, <1>7, <3>1 DEF LineOut
  <2>3. QED
    BY <2>1, <2>2
<1>16. QED
  BY <1>9, <1>10, <1>11, <1>12, <1>13, <1>14, <1>15 DEF LogInv

(* The call ends; a Fatal ends the process.                                *)
LEMMA LeaveStep == ASSUME LogInv, NEW g \in Routines, Log!Leave(g) PROVE LogInv'
<1>1. /\ call[g] \in Calls /\ call[g].pc = "after" /\ exited = <<>>
      /\ call' = [call EXCEPT ![g].pc = "idle"] /\ UNCHANGED <<level, mu, out>>
      /\ exited' = (IF call[g].lv = Log!FatalLevel THEN <<g, call[g].n>> ELSE <<>>)
  BY DEF Log!Leave, Log!At, Log!Runs, Log!Go, Log!After, LogInv, LogTypeOK
<1>2. call' \in [Routines -> Calls]
  BY <1>1 DEF LogInv, LogTypeOK, Calls
<1>3. \A h \in Routines : /\ call'[h].n = call[h].n /\ call'[h].lv = call[h].lv /\ call'[h].text = call[h].text
                           /\ call'[h].entry = call[h].entry /\ call'[h].then = call[h].then
                           /\ call'[h].allowed = call[h].allowed
                           /\ call'[h].pc = IF h = g THEN "idle" ELSE call[h].pc
  BY <1>1 DEF LogInv, LogTypeOK, Calls
<1>4. LogTypeOK'
  BY <1>1, <1>2 DEF LogInv, LogTypeOK
<1>5. OneWrites'
  <2>1. \A h \in Routines : call'[h].pc \in {"write", "written"} => call'[h].pc = call[h].pc
    BY <1>3
  <2>2. \A h \in Routines : call[h].pc = "written" => call'[h].pc = "written"
    BY <1>1, <1>3
  <2>3. QED
    BY <1>1, <1>3, <2>1, <2>2 DEF LogInv, OneWrites
<1>6. Allowed'
  <2>1. \A i \in DOMAIN out : out[i].by \in Routines
    BY OutTyped DEF LogInv
  <2>2. QED
    BY <1>1, <1>3, <2>1 DEF LogInv, Allowed
<1>7. LineAtLast' /\ LineThen'
  BY <1>1, <1>3 DEF LogInv, LineAtLast, LineThen, LineOut
<1>8. Log!LinesWhole'
  BY <1>1 DEF LogInv, Log!LinesWhole, Log!SameLine
<1>9. Log!FatalIsLogged'
  <2> SUFFICES ASSUME exited' # <<>>, call'[exited'[1]].entry = "plain"
               PROVE  \E i \in DOMAIN out' : /\ out'[i].by = exited'[1] /\ out'[i].n = exited'[2]
                                             /\ out'[i].part = 2 /\ out'[i].text = "line"
    BY DEF Log!FatalIsLogged
  <2>1. exited' = <<g, call[g].n>> /\ call[g].entry = "plain"
    BY <1>1, <1>3
  <2>2. LineOut(g)
    BY <1>1, <2>1 DEF LogInv, LineThen
  <2>3. QED
    BY <1>1, <2>1, <2>2 DEF LineOut
<1>10. QED
  BY <1>4, <1>5, <1>6, <1>7, <1>8, <1>9 DEF LogInv

(* Every step of the loggers, and of who changes their settings, keeps the *)
(* invariant.                                                              *)
LEMMA LogStep == LogInv /\ [Log!Next]_loggingVars => LogInv'
<1> SUFFICES ASSUME LogInv, [Log!Next]_loggingVars PROVE LogInv'
  OBVIOUS
<1>0. \A g \in Routines : /\ call[g] \in Calls /\ call[g].lv \in Nat /\ call[g].n \in Nat /\ call[g].allowed \in Nat
  BY DEF LogInv, LogTypeOK, Calls
<1>00. level \in Nat /\ level >= 1
  BY DEF LogInv, LogTypeOK
<1>1. ASSUME NEW g \in Routines, NEW lv \in Levels, NEW entry \in Entries, Log!Call(g, lv, entry)
      PROVE  LogInv'
  <2> DEFINE k == [pc |-> IF entry = "plain" THEN "logger" ELSE "entryf", lv |-> lv, entry |-> entry,
                   n |-> call[g].n + 1, allowed |-> level, text |-> "none", then |-> "none"]
  <2>1. /\ call[g].pc = "idle" /\ exited = <<>> /\ UNCHANGED <<level, mu, out, exited>>
    BY <1>1 DEF Log!Call, Log!At, Log!Runs
  <2>2. call' = [call EXCEPT ![g] = k]
    BY <1>1, Zenon DEF Log!Call
  <2>3. lv \in Nat /\ entry \in {"plain", "unfit"} /\ call[g].n + 1 \in Nat
    BY <1>0, LevelsAreNumbers
  <2>4. k \in Calls
    BY <1>00, <2>3 DEF Calls, Texts
  <2>5. k.pc \in {"logger", "entryf"} /\ k.n = call[g].n + 1 /\ k.allowed = level
    OBVIOUS
  <2> HIDE DEF k
  <2>6. k.n >= call[g].n /\ k.n # call[g].n /\ level <= k.allowed
    BY <1>0, <1>00, <2>5
  <2>7. Quiet(g, k)
    BY <2>1, <2>2, <2>5, <2>6 DEF Quiet
  <2>8. QED
    BY <2>4, <2>7, QuietStep
<1>2. ASSUME NEW g \in Routines, NEW pc \in {"logger", "entryf", "entry"}, NEW next \in {"entryf", "entry", "fire"},
             Log!Check(g, pc, next)
      PROVE  LogInv'
  <2> DEFINE k == [call[g] EXCEPT !.pc = IF level >= call[g].lv THEN next ELSE "idle"]
  <2>1. /\ call[g].pc = pc /\ exited = <<>> /\ call' = [call EXCEPT ![g] = k]
        /\ UNCHANGED <<level, mu, out, exited>>
    <3>1. call[g].lv = Log!FatalLevel => level >= call[g].lv
      BY <1>00 DEF Log!FatalLevel
    <3>2. QED
      BY <1>0, <1>2, <3>1 DEF Log!Check, Log!At, Log!Runs, Log!Go, Log!After, Log!Enabled, LogInv, LogTypeOK
  <2>2. /\ k.n = call[g].n /\ k.lv = call[g].lv /\ k.allowed = call[g].allowed
        /\ k.pc = IF level >= call[g].lv THEN next ELSE "idle"
    BY <1>0 DEF Calls
  <2>3. k \in Calls
    BY <1>0 DEF Calls
  <2>4. level <= call[g].allowed
    BY <2>1 DEF LogInv, Allowed
  <2> HIDE DEF k
  <2>5. k.pc # "idle" => k.lv <= k.allowed
    BY <1>0, <1>00, <2>2, <2>4
  <2>6. Quiet(g, k)
    BY <1>0, <2>1, <2>2, <2>4, <2>5 DEF Quiet
  <2>7. QED
    BY <2>3, <2>6, QuietStep
<1>3. ASSUME NEW g \in Routines, Log!Fire(g) \/ Log!Format(g)
      PROVE  LogInv'
  <2>1. PICK k \in Calls :
          /\ call[g].pc \in {"fire", "format"} /\ exited = <<>> /\ call' = [call EXCEPT ![g] = k]
          /\ UNCHANGED <<level, mu, out, exited>>
          /\ k.n = call[g].n /\ k.lv = call[g].lv /\ k.allowed = call[g].allowed /\ k.pc \in {"format", "lock"}
          /\ k.pc = "lock" => k.then \in {"format", "after"} /\ (k.entry = "plain" => k.text = "line" \/ k.then = "format")
    <3>1. CASE Log!Fire(g) /\ call' = [call EXCEPT ![g].pc = "format"]
      <4>1. [call[g] EXCEPT !.pc = "format"] \in Calls
        BY <1>0 DEF Calls
      <4>2. QED
        BY <1>0, <3>1, <4>1 DEF Log!Fire, Log!At, Log!Runs, Calls
    <3>2. ASSUME NEW text \in Texts, NEW then \in {"after", "format"}, Log!Writes(g, text, then),
                 call[g].pc \in {"fire", "format"}, exited = <<>>, UNCHANGED <<level, mu, out, exited>>,
                 call[g].entry = "plain" => text = "line" \/ then = "format"
          PROVE  \E k \in Calls :
                   /\ call[g].pc \in {"fire", "format"} /\ exited = <<>> /\ call' = [call EXCEPT ![g] = k]
                   /\ UNCHANGED <<level, mu, out, exited>>
                   /\ k.n = call[g].n /\ k.lv = call[g].lv /\ k.allowed = call[g].allowed
                   /\ k.pc \in {"format", "lock"}
                   /\ k.pc = "lock" => k.then \in {"format", "after"} /\ (k.entry = "plain" => k.text = "line" \/ k.then = "format")
      <4> DEFINE k == [call[g] EXCEPT !.pc = "lock", !.text = text, !.then = then]
      <4>1. k \in Calls /\ k.n = call[g].n /\ k.lv = call[g].lv /\ k.allowed = call[g].allowed
            /\ k.pc = "lock" /\ k.entry = call[g].entry /\ k.text = text /\ k.then = then
        BY <1>0 DEF Calls
      <4>2. call' = [call EXCEPT ![g] = k]
        BY <3>2 DEF Log!Writes
      <4> HIDE DEF k
      <4>3. QED
        BY <3>2, <4>1, <4>2
    <3>3. CASE Log!Fire(g) /\ Log!Writes(g, "Failed to fire hook", "format")
      BY <3>2, <3>3 DEF Log!Fire, Log!At, Log!Runs, Texts
    <3>4. CASE Log!Format(g)
      BY <3>2, <3>4 DEF Log!Format, Log!At, Log!Runs, Texts
    <3>5. QED
      BY <1>3, <3>1, <3>3, <3>4 DEF Log!Fire, Log!Go
  <2>2. level <= call[g].allowed /\ call[g].lv <= call[g].allowed
    BY <2>1 DEF LogInv, Allowed
  <2>3. Quiet(g, k)
    BY <1>0, <2>1, <2>2 DEF Quiet
  <2>4. QED
    BY <2>3, QuietStep
<1>4. ASSUME NEW g \in Routines, Log!Lock(g)
      PROVE  LogInv'
  <2> DEFINE k == [call[g] EXCEPT !.pc = "write"]
  <2>1. /\ call[g].pc = "lock" /\ exited = <<>> /\ call' = [call EXCEPT ![g] = k]
        /\ mu = Log!NoOne /\ mu' = g /\ UNCHANGED <<level, out, exited>>
    BY <1>4 DEF Log!Lock, Log!At, Log!Runs, Log!Go
  <2>2. /\ k.n = call[g].n /\ k.lv = call[g].lv /\ k.allowed = call[g].allowed /\ k.pc = "write"
        /\ k.entry = call[g].entry /\ k.text = call[g].text /\ k.then = call[g].then /\ k \in Calls
    BY <1>0 DEF Calls
  <2>3. /\ level <= call[g].allowed /\ call[g].lv <= call[g].allowed
        /\ call[g].then \in {"format", "after"}
        /\ call[g].entry = "plain" => call[g].text = "line" \/ call[g].then = "format"
    BY <2>1 DEF LogInv, Allowed, LineAtLast
  <2> HIDE DEF k
  <2>4. Quiet(g, k)
    BY <1>0, <2>1, <2>2, <2>3 DEF Quiet
  <2>5. QED
    BY <2>2, <2>4, QuietStep
<1>5. ASSUME NEW l \in Settings, Log!SetLevel(l)
      PROVE  LogInv'
  <2>1. /\ level' = l /\ UNCHANGED <<mu, out, exited>> /\ exited = <<>> /\ l \in Nat \ {0}
        /\ call' = [g \in Routines |-> [call[g] EXCEPT !.allowed = IF l > @ THEN l ELSE @]]
    BY <1>5, LevelsAreNumbers DEF Log!SetLevel, Log!Set, Log!Runs
  <2>2. \A g \in Routines : /\ call'[g] \in Calls
                             /\ call'[g].n = call[g].n /\ call'[g].lv = call[g].lv /\ call'[g].text = call[g].text
                             /\ call'[g].entry = call[g].entry /\ call'[g].then = call[g].then
                             /\ call'[g].pc = call[g].pc
                             /\ call'[g].allowed >= l /\ call'[g].allowed >= call[g].allowed
                             /\ call'[g].allowed \in Nat
    <3> SUFFICES ASSUME NEW g \in Routines
                 PROVE  /\ call'[g] \in Calls
                        /\ call'[g].n = call[g].n /\ call'[g].lv = call[g].lv /\ call'[g].text = call[g].text
                        /\ call'[g].entry = call[g].entry /\ call'[g].then = call[g].then
                        /\ call'[g].pc = call[g].pc
                        /\ call'[g].allowed >= l /\ call'[g].allowed >= call[g].allowed
                        /\ call'[g].allowed \in Nat
      OBVIOUS
    <3> DEFINE a == IF l > call[g].allowed THEN l ELSE call[g].allowed
    <3>1. a \in Nat /\ a >= l /\ a >= call[g].allowed
      BY <1>0, <2>1
    <3>2. call'[g] = [call[g] EXCEPT !.allowed = a]
      BY <2>1
    <3> HIDE DEF a
    <3>3. [call[g] EXCEPT !.allowed = a] \in Calls
      BY <1>0, <3>1 DEF Calls
    <3>4. /\ call'[g].n = call[g].n /\ call'[g].lv = call[g].lv /\ call'[g].text = call[g].text
          /\ call'[g].entry = call[g].entry /\ call'[g].then = call[g].then
          /\ call'[g].pc = call[g].pc /\ call'[g].allowed = a
      BY <1>0, <3>2 DEF Calls
    <3>5. QED
      BY <3>1, <3>2, <3>3, <3>4
  <2>3. LogTypeOK'
    BY <2>1, <2>2 DEF LogInv, LogTypeOK
  <2>4. OneWrites'
    <3>1. mu' = mu /\ out' = out
      BY <2>1
    <3>2. \A g \in Routines : /\ call'[g].pc = call[g].pc /\ call'[g].n = call[g].n
                               /\ call'[g].text = call[g].text
      BY <2>2
    <3>3. QED
      BY <3>1, <3>2 DEF LogInv, OneWrites
  <2>5. Allowed'
    <3>1. \A i \in DOMAIN out : out[i].by \in Routines
      BY OutTyped DEF LogInv
    <3>2. \A g \in Routines : call'[g].pc # "idle" => level' <= call'[g].allowed
      BY <2>1, <2>2
    <3>3. \A g \in Routines : call'[g].pc \in {"fire", "format", "lock", "write", "written"} =>
            call'[g].lv <= call'[g].allowed
      BY <1>0, <2>2 DEF LogInv, Allowed
    <3>4. \A i \in DOMAIN out : LET of == call'[out[i].by] IN
            out[i].n <= of.n /\ (out[i].n = of.n => out[i].lv = of.lv)
      BY <2>2, <3>1 DEF LogInv, Allowed
    <3>5. QED
      BY <2>1, <3>2, <3>3, <3>4 DEF Allowed
  <2>6. LineAtLast'
    BY <2>2 DEF LogInv, LineAtLast
  <2>7. Log!LinesWhole'
    BY <2>1 DEF LogInv, Log!LinesWhole, Log!SameLine
  <2>8. LineThen' /\ Log!FatalIsLogged'
    BY <2>1, <2>2 DEF LogInv, LineThen, LineOut, Log!FatalIsLogged
  <2>9. QED
    BY <2>3, <2>4, <2>5, <2>6, <2>7, <2>8 DEF LogInv
<1>6. CASE UNCHANGED <<level, mu, call, out, exited>>
  <2>1. LogTypeOK' /\ OneWrites' /\ Allowed' /\ LineAtLast' /\ LineThen'
    BY <1>6 DEF LogInv, LogTypeOK, OneWrites, Allowed, LineAtLast, LineThen, LineOut
  <2>2. Log!LinesWhole' /\ Log!FatalIsLogged'
    BY <1>6 DEF LogInv, Log!LinesWhole, Log!FatalIsLogged, Log!SameLine
  <2>3. QED
    BY <2>1, <2>2 DEF LogInv
<1>7. Log!SetFormatter \/ Log!AddHook \/ UNCHANGED loggingVars => UNCHANGED <<level, mu, call, out, exited>>
  BY DEF Log!SetFormatter, Log!AddHook, Log!Set, loggingVars
<1>8. \A g \in Routines : Log!LoggerCheck(g) \/ Log!EntryfCheck(g) \/ Log!EntryCheck(g) => LogInv'
  BY <1>2 DEF Log!LoggerCheck, Log!EntryfCheck, Log!EntryCheck
<1>9. \A g \in Routines : Log!Step(g) => LogInv'
  BY <1>3, <1>4, <1>8, WriteStep, WrittenStep, LeaveStep DEF Log!Step
<1>10. QED
  BY <1>1, <1>5, <1>6, <1>7, <1>9 DEF Log!Next

(* The log shows whole lines, at levels that were on during the call, and  *)
(* a Fatal's line is out before the process ends, however the goroutines   *)
(* that log and those that set levels, formatters and hooks interleave     *)
(* (logrus: logger.go, entry.go, exported.go).                             *)
THEOREM LogIsWhole == Spec => []LogHolds
<1>1. Init => LogInv
  BY LogInit DEF Init
<1>2. LogInv /\ [Next \/ Ends]_vars => LogInv'
  <2>1. [Next \/ Ends]_vars => [Log!Next]_loggingVars
    <3>1. CASE Next
      BY <3>1, Zenon DEF Next
    <3>2. CASE Ends \/ UNCHANGED vars
      BY <3>2, Zenon DEF Ends, vars
    <3>3. QED
      BY <3>1, <3>2
  <2>2. QED
    BY <2>1, LogStep
<1>3. LogInv => LogHolds
  <2> SUFFICES ASSUME LogInv PROVE Log!LevelRespected
    BY DEF LogInv, LogHolds, Log!LogHolds
  <2>1. \A i \in DOMAIN out : out[i].by \in Routines
    BY OutTyped DEF LogInv
  <2>2. QED
    BY <2>1 DEF LogInv, Allowed, Log!LevelRespected
<1>4. QED
  BY <1>1, <1>2, <1>3, PTL DEF Spec

-----------------------------------------------------------------------------
(* The mock clock: for every set of timers, all durations and every time   *)
(* it may be moved to, timers are created between moves or by the          *)
(* functions that a move runs.                                             *)
ClockTimers == [kind : {Clock!None, "timer", "ticker", "func"}, next : Nat, d : Nat, fn : BOOLEAN]
ClockExecuting == {"callback", "send", "ticker", "remove"}

ClockTypeOK ==
  /\ now \in Nat /\ timers \subseteq Ids
  /\ timer \in [Ids -> ClockTimers]
  /\ run \in [pc : {"idle", "run", "arrive"} \cup ClockExecuting, max : Nat, cur : Ids \cup {Clock!None},
               past : BOOLEAN]
  /\ run.pc \in ClockExecuting => run.cur \in Ids

(* No timer is behind the clock, whatever Add is about to do next; none is *)
(* at it between two moves, and none is left once Add found none due.  On  *)
(* the way to a time that is past there is nothing to execute.             *)
NoneBehind ==
  /\ \A i \in timers : timer[i].next >= now
  /\ run.pc = "idle" => \A i \in timers : timer[i].next > now
  /\ run.pc = "arrive" => \A i \in timers : timer[i].next > run.max
  /\ run.pc # "idle" /\ ~run.past => now <= run.max
  /\ run.pc # "idle" /\ run.past => /\ run.pc \in {"run", "arrive"} /\ run.max < now
                                   /\ \A i \in timers : timer[i].next > now

ClockInv == ClockTypeOK /\ NoneBehind

(* Sorting a list of timers that is not empty finds one to be first        *)
(* (clock.go, runNextTimer).                                               *)
LEMMA FirstExists ==
  ASSUME ClockTypeOK, timers # {}
  PROVE  \E i \in timers : Clock!First(i)
<1> DEFINE Less == OpToRel(<, Nat)
           Times == {timer[i].next : i \in timers}
<1>1. Times \subseteq Nat /\ Times # {}
  BY DEF ClockTypeOK, ClockTimers
<1>2. \E x \in Times : \A y \in Times : <<y, x>> \notin Less
  <2>1. IsWellFoundedOn(Less, Nat)
    BY NatLessThanWellFounded
  <2>2. QED
    BY <1>1, <2>1, WFMin
<1>3. PICK x \in Times : \A y \in Times : <<y, x>> \notin Less
  BY <1>2
<1>4. \A y \in Times : x <= y
  <2> SUFFICES ASSUME NEW y \in Times
               PROVE  x <= y
    OBVIOUS
  <2>1. x \in Nat /\ y \in Nat
    BY <1>1
  <2>2. <<y, x>> \in Nat \X Nat /\ <<y, x>>[1] = y /\ <<y, x>>[2] = x
    BY <2>1
  <2>3. ~(<<y, x>>[1] < <<y, x>>[2])
    BY <1>3, <2>2, Zenon DEF OpToRel
  <2>4. QED
    BY <2>1, <2>2, <2>3
<1>5. QED
  BY <1>1, <1>4 DEF Clock!First

(* So a move that finds no first timer due has passed all of them.         *)
LEMMA NoneDueMeansNone ==
  ASSUME ClockTypeOK, \A i \in timers : Clock!First(i) => ~Clock!Due(i)
  PROVE  \A i \in timers : timer[i].next > run.max
<1> SUFFICES ASSUME NEW j \in timers
             PROVE  timer[j].next > run.max
  OBVIOUS
<1>1. PICK i \in timers : Clock!First(i)
  BY FirstExists
<1>2. timer[i].next \in Nat /\ timer[j].next \in Nat /\ run.max \in Nat
  BY DEF ClockTypeOK, ClockTimers
<1>3. timer[i].next <= timer[j].next /\ ~(timer[i].next <= run.max)
  BY <1>1 DEF Clock!First, Clock!Due
<1>4. QED
  BY <1>2, <1>3

(* The clock starts with nothing in its list.                              *)
LEMMA ClockInit == Clock!Init => ClockInv
  BY DEF Clock!Init, ClockInv, ClockTypeOK, NoneBehind, Clock!Idle, Clock!Uncreated, ClockTimers, ClockExecuting

(* A timer that is created is ahead of the clock: Create, AfterFunc.       *)
LEMMA CreatedAhead ==
  ASSUME ClockInv, NEW i \in Ids, NEW d \in Durations,
         NEW kind \in {"timer", "ticker", "func"}, Clock!MayCreate,
         timer' = [timer EXCEPT ![i] = [kind |-> kind, next |-> now + d, d |-> d, fn |-> FALSE]],
         timers' = timers \cup {i}, UNCHANGED <<now, c, run>>
  PROVE  ClockInv'
<1> USE DEF ClockInv, ClockTypeOK, NoneBehind, ClockExecuting
<1>1. d \in Nat /\ d > 0 /\ now + d \in Nat /\ now + d > now
  BY ClockAssumption DEF Clock!MockClockAssumption
<1>2. timer' \in [Ids -> ClockTimers]
  BY <1>1 DEF ClockTimers
<1>3. \A j \in timers' : timer'[j].next = IF j = i THEN now + d ELSE timer[j].next
  OBVIOUS
<1>4. run.pc \in {"idle", "callback"}
  BY DEF Clock!MayCreate
<1>5. QED
  BY <1>1, <1>2, <1>3, <1>4

(* Every step keeps the invariant.                                         *)
LEMMA ClockStep == ClockInv /\ [Clock!Next]_clockVars => ClockInv'
<1> SUFFICES ASSUME ClockInv, [Clock!Next]_clockVars
             PROVE  ClockInv'
  OBVIOUS
<1> USE DEF ClockInv, ClockTypeOK, NoneBehind, ClockExecuting
<1>1. ASSUME NEW i \in Ids, NEW d \in Durations, NEW kind \in {"timer", "ticker"}, Clock!Create(i, kind, d)
      PROVE  ClockInv'
  BY <1>1, CreatedAhead DEF Clock!Create
<1>2. ASSUME NEW i \in Ids, NEW d \in Durations, Clock!AfterFunc(i, d)
      PROVE  ClockInv'
  BY <1>2, CreatedAhead DEF Clock!AfterFunc
<1>3. ASSUME NEW i \in Ids, Clock!AfterFuncReturns(i)
      PROVE  ClockInv'
  <2>1. timer' \in [Ids -> ClockTimers] /\ \A j \in Ids : timer'[j].next = timer[j].next
    BY <1>3 DEF Clock!AfterFuncReturns, ClockTimers
  <2>2. QED
    BY <1>3, <2>1 DEF Clock!AfterFuncReturns
<1>4. ASSUME NEW i \in Ids, Clock!Receive(i) \/ Clock!Stop(i)
      PROVE  ClockInv'
  BY <1>4 DEF Clock!Receive, Clock!Stop, Clock!removeClockTimer
<1>5. ASSUME NEW t, Clock!Run(t)
      PROVE  ClockInv'
  <2> DEFINE past == t < now
  <2>1. /\ run.pc = "idle" /\ t \in 0..Horizon /\ UNCHANGED <<now, timers, timer>>
        /\ run' = [pc |-> "run", max |-> t, cur |-> Clock!None, past |-> past]
    BY <1>5, Zenon DEF Clock!Run
  <2>2. past \in BOOLEAN /\ (past <=> t < now)
    OBVIOUS
  <2> HIDE DEF past
  <2>3. t \in Nat
    BY <2>1, ClockAssumption DEF Clock!MockClockAssumption
  <2>4. /\ run'.pc = "run" /\ run'.max = t /\ run'.cur = Clock!None /\ run'.past = past
        /\ run' \in [pc : {"idle", "run", "arrive"} \cup ClockExecuting, max : Nat, cur : Ids \cup {Clock!None},
                     past : BOOLEAN]
    BY <2>1, <2>2, <2>3
  <2>5. QED
    BY <2>1, <2>2, <2>3, <2>4
<1>6. ASSUME NEW i \in Ids, Clock!runNextTimer(i)
      PROVE  ClockInv'
  <2>1. /\ i \in timers /\ timer[i].next \in Nat
        /\ \A j \in timers : timer[j].next \in Nat /\ timer[i].next <= timer[j].next
        /\ timer[i].next <= run.max /\ run.pc = "run"
    BY <1>6 DEF Clock!runNextTimer, Clock!First, Clock!Due, ClockTimers
  <2>2. ~run.past
    BY <2>1
  <2>3. /\ run'.pc \in {"ticker", "callback", "send"} /\ run'.max = run.max /\ run'.cur = i
        /\ run'.past = run.past /\ now' = timer[i].next /\ UNCHANGED <<timers, timer>>
        /\ run' \in [pc : {"idle", "run", "arrive"} \cup ClockExecuting, max : Nat, cur : Ids \cup {Clock!None},
                     past : BOOLEAN]
    BY <1>6 DEF Clock!runNextTimer
  <2>4. QED
    BY <2>1, <2>2, <2>3
<1>7. CASE Clock!NoneDue
  BY <1>7, NoneDueMeansNone DEF Clock!NoneDue
<1>8. CASE Clock!Arrive
  <2>1. \A i \in timers : timer[i].next \in Nat
    BY DEF ClockTimers
  <2>2. QED
    BY <1>8, <2>1 DEF Clock!Arrive, Clock!Idle
<1>9. CASE Clock!Callback \/ Clock!Send
  BY <1>9 DEF Clock!Callback, Clock!Send
<1>10. CASE Clock!Remove
  BY <1>10 DEF Clock!Remove, Clock!removeClockTimer
<1>11. CASE Clock!TickerTick
  <2>1. now + timer[run.cur].d \in Nat /\ now + timer[run.cur].d >= now
    BY <1>11 DEF Clock!TickerTick, ClockTimers
  <2>2. timer' \in [Ids -> ClockTimers]
    BY <1>11, <2>1 DEF Clock!TickerTick, ClockTimers
  <2>3. \A j \in timers : timer'[j].next >= now
    BY <1>11, <2>1 DEF Clock!TickerTick
  <2>4. QED
    BY <1>11, <2>2, <2>3 DEF Clock!TickerTick
<1>12. CASE UNCHANGED clockVars
  BY <1>12 DEF clockVars
<1>13. QED
  BY <1>1, <1>2, <1>3, <1>4, <1>5, <1>6, <1>7, <1>8, <1>9, <1>10, <1>11, <1>12
  DEF Clock!Next, Clock!Adder, Clock!Add, Clock!Set

(* What every part of the service does the clock takes for one of its own  *)
(* steps, or for none.                                                     *)
LEMMA ClockRuns == [Next \/ Ends]_vars => [Clock!Next]_clockVars
<1>1. CASE Next
  BY <1>1, Zenon DEF Next
<1>2. CASE Ends \/ UNCHANGED vars
  BY <1>2, Zenon DEF Ends, vars
<1>3. QED
  BY <1>1, <1>2

(* Nothing is overdue between two moves of the clock, tickers that tick    *)
(* several times in one move and timers its functions start included       *)
(* (clock.go:74).                                                          *)
THEOREM NothingIsOverdue == Spec => []NothingOverdue
<1>1. Init => ClockInv
  BY ClockInit DEF Init
<1>2. ClockInv /\ [Next \/ Ends]_vars => ClockInv'
  BY ClockRuns, ClockStep
<1>3. ClockInv => NothingOverdue
  BY DEF ClockInv, NoneBehind, NothingOverdue, Clock!NothingOverdue
<1>4. QED
  BY <1>1, <1>2, <1>3, PTL DEF Spec

(* On its way to a later time the clock never goes back (clock.go,         *)
(* runNextTimer), as it does at the end of a Set to a time that is past.   *)
THEOREM ClockForwardOnTheWay == Spec => ForwardOnTheWay
<1>1. Init => ClockInv
  BY ClockInit DEF Init
<1>2. ClockInv /\ [Next \/ Ends]_vars => ClockInv'
  BY ClockRuns, ClockStep
<1>3. ClockInv /\ [Clock!Next]_clockVars => [now' >= now \/ run.past]_now
  <2> SUFFICES ASSUME ClockInv, Clock!Next, now' # now, ~run.past
               PROVE  now' >= now
    BY DEF clockVars
  <2>1. Clock!Arrive \/ \E i \in Ids : Clock!runNextTimer(i)
    BY DEF Clock!Next, Clock!Adder, Clock!Add, Clock!Set, Clock!Run, Clock!Create, Clock!AfterFunc,
       Clock!AfterFuncReturns, Clock!Receive, Clock!Stop, Clock!NoneDue, Clock!Callback, Clock!Send,
       Clock!Remove, Clock!TickerTick
  <2>2. CASE Clock!Arrive
    BY <2>2 DEF Clock!Arrive, ClockInv, NoneBehind
  <2>3. ASSUME NEW i \in Ids, Clock!runNextTimer(i)
        PROVE  now' >= now
    BY <2>3 DEF Clock!runNextTimer, Clock!First, ClockInv, NoneBehind
  <2>4. QED
    BY <2>1, <2>2, <2>3
<1>4. QED
  BY <1>1, <1>2, <1>3, ClockRuns, PTL DEF Spec, ForwardOnTheWay, Clock!ForwardOnTheWay
=============================================================================
