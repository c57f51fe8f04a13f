---------------------------- MODULE AmqpContent ----------------------------
(***************************************************************************)
(* A message with a body crosses an AMQP connection as a method frame, a   *)
(* header frame with the size of the body and as many body frames as the   *)
(* negotiated frame size asks for; frames of all channels share one        *)
(* connection.  Channel.sendOpen cuts messages up while it holds the       *)
(* channel's sendM; recvMethod, recvHeader and recvContent put them        *)
(* together again, one small state machine per channel.  The other side of *)
(* the connection is taken to frame messages as sendOpen does, and it may  *)
(* abandon a message for another method (the protocol allows a channel to  *)
(* be closed in the middle of a content).                                  *)
(***************************************************************************)
EXTENDS Integers, Sequences, SequencesExt

CONSTANTS
  Senders,    \* goroutines that publish
  Channels,
  Sizes,      \* sizes of bodies
  Messages,   \* bound: messages published
  ClientMax,  \* Config.FrameSize of the client (proc_box leaves it 0)
  ServerMax,  \* frame-max the server asks for in connection.tune
  Buffer,     \* bound: frames the connection holds; a sender waits when it is full
  Lossy       \* may the connection break

VARIABLES
  sender,     \* sender -> its message and how far sendOpen got with it
  sendM,      \* channel -> holder of its lock, or NoOne
  wire,       \* frames under way
  recv,       \* channel -> state of reassembly
  published,  \* history: channel -> messages completely sent
  delivered,  \* channel -> messages dispatched
  broken,     \* writes fail: the connection is lost
  crashed     \* a panic ended proc_box

vars == <<sender, sendM, wire, recv, published, delivered, broken, crashed>>

NoOne == "no one"

ContentAssumption ==
  /\ Sizes \subseteq Nat /\ Messages \in Nat /\ ClientMax \in Nat /\ ServerMax \in Nat
  /\ Buffer \in Nat /\ Lossy \in BOOLEAN /\ NoOne \notin Senders

Min2(a, b) == IF a > b THEN b ELSE a
Max2(a, b) == IF a > b THEN a ELSE b

(* Negotiation of frame size: 0 is no limit, so the other one counts.      *)
pick(client, server) ==
  IF client = 0 \/ server = 0 THEN Max2(client, server) ELSE Min2(client, server)

frameHeaderSize == 8  \* 7 octets before the payload and one after it
FrameSize == pick(ClientMax, ServerMax)
sizeOfFrame == FrameSize
size == FrameSize - frameHeaderSize

(* The octets of a body name their message, so that a mixture shows.       *)
Body(m) == [k \in 1..m.size |-> <<m.sender, m.number, k>>]

Frame(kind, s) == [kind |-> kind, ch |-> sender[s].ch, msg |-> sender[s].msg, part |-> <<>>]

Idle == [state |-> "method", msg |-> <<>>, need |-> 0, body |-> <<>>]

Init ==
  /\ sender = [s \in Senders |-> [pc |-> "idle", count |-> 0, ch |-> <<>>, msg |-> <<>>, i |-> 0, j |-> 0]]
  /\ sendM = [c \in Channels |-> NoOne]
  /\ wire = <<>>
  /\ recv = [c \in Channels |-> Idle]
  /\ published = [c \in Channels |-> <<>>]
  /\ delivered = [c \in Channels |-> <<>>]
  /\ broken = FALSE
  /\ crashed = FALSE

-----------------------------------------------------------------------------
(* Sending. *)

Begun == MapThenSumSet(LAMBDA s : sender[s].count, Senders)

(* Publish is called; sendOpen begins once it has the channel's lock.      *)
Publish(s, c, n) ==
  /\ ~crashed
  /\ sender[s].pc = "idle" /\ Begun < Messages
  /\ sender' = [sender EXCEPT ![s] = [pc |-> "lock", count |-> @.count + 1, ch |-> c, i |-> 0, j |-> size,
                                      msg |-> [sender |-> s, number |-> @.count + 1, size |-> n]]]
  /\ UNCHANGED <<sendM, wire, recv, published, delivered, broken, crashed>>

LockRegardless(s) ==
  /\ ~crashed
  /\ sender[s].pc = "lock"
  /\ sendM' = [sendM EXCEPT ![sender[s].ch] = s]
  /\ sender' = [sender EXCEPT ![s].pc = "method"]
  /\ UNCHANGED <<wire, recv, published, delivered, broken, crashed>>

Lock(s) ==
  /\ ~crashed
  /\ sender[s].pc = "lock" /\ sendM[sender[s].ch] = NoOne
  /\ sendM' = [sendM EXCEPT ![sender[s].ch] = s]
  /\ sender' = [sender EXCEPT ![s].pc = "method"]
  /\ UNCHANGED <<wire, recv, published, delivered, broken, crashed>>

(* connection.send: one frame, or an error once the connection is broken.  *)
(* Returning from sendOpen releases the lock.                              *)
Return(s) ==
  /\ sendM' = [sendM EXCEPT ![sender[s].ch] = NoOne]
  /\ sender' = [sender EXCEPT ![s].pc = "idle"]

SendFails(s) ==
  /\ ~crashed
  /\ broken /\ sender[s].pc \in {"method", "header", "body"}
  /\ sender[s].pc = "body" => sender[s].i < sender[s].msg.size
  /\ Return(s)
  /\ UNCHANGED <<wire, recv, published, delivered, broken, crashed>>

SendMethod(s) ==
  /\ ~crashed /\ ~broken /\ Len(wire) < Buffer
  /\ sender[s].pc = "method"
  /\ wire' = Append(wire, Frame("method", s))
  /\ sender' = [sender EXCEPT ![s].pc = "header"]
  /\ UNCHANGED <<sendM, recv, published, delivered, broken, crashed>>

SendHeader(s) ==
  /\ ~crashed /\ ~broken /\ Len(wire) < Buffer
  /\ sender[s].pc = "header"
  /\ wire' = Append(wire, Frame("header", s))
  /\ sender' = [sender EXCEPT ![s].pc = "body"]
  /\ UNCHANGED <<sendM, recv, published, delivered, broken, crashed>>

(* The octets of the next body frame.                                      *)
Slice(s) == LET x == sender[s] IN SubSeq(Body(x.msg), x.i + 1, Min2(x.j, x.msg.size))

(* body[i:j] with j before i panics in Go.                                 *)
SendBody(s) ==
  LET i == sender[s].i
      n == sender[s].msg.size
      j == Min2(sender[s].j, n)
  IN
  /\ ~crashed /\ ~broken /\ Len(wire) < Buffer
  /\ sender[s].pc = "body" /\ i < n
  /\ IF j < i
     THEN crashed' = TRUE /\ UNCHANGED <<wire, sender>>
     ELSE /\ wire' = Append(wire, [Frame("body", s) EXCEPT !.part = Slice(s)])
          /\ sender' = [sender EXCEPT ![s].i = j, ![s].j = j + size]
          /\ UNCHANGED crashed
  /\ UNCHANGED <<sendM, recv, published, delivered, broken>>

Sent(s) ==
  /\ ~crashed
  /\ sender[s].pc = "body" /\ sender[s].i >= sender[s].msg.size
  /\ published' = [published EXCEPT ![sender[s].ch] = Append(@, sender[s].msg)]
  /\ Return(s)
  /\ UNCHANGED <<wire, recv, delivered, broken, crashed>>

(* The other side abandons a message for a method without content; a frame *)
(* of the message may still come after that method.                        *)
Abandon(s, late) ==
  /\ ~crashed /\ ~broken /\ Len(wire) < Buffer
  /\ sender[s].pc \in {"header", "body"} /\ sender[s].i < sender[s].msg.size
  /\ wire' = wire \o <<Frame("plain", s)>>
                  \o (IF late THEN <<[Frame(sender[s].pc, s) EXCEPT !.part = Slice(s)]>> ELSE <<>>)
  /\ Return(s)
  /\ UNCHANGED <<recv, published, delivered, broken, crashed>>

Break ==
  /\ Lossy /\ ~broken /\ ~crashed
  /\ broken' = TRUE
  /\ UNCHANGED <<sender, sendM, wire, recv, published, delivered, crashed>>

-----------------------------------------------------------------------------
(* Receiving.  Each step handles the first frame on the wire.              *)

Receive(kind, state) ==
  /\ ~crashed
  /\ wire # <<>> /\ Head(wire).kind = kind /\ recv[Head(wire).ch].state = state
  /\ wire' = Tail(wire)
  /\ UNCHANGED <<sender, sendM, published, broken, crashed>>

Becomes(c, r) == recv' = [recv EXCEPT ![c] = r]
Dispatch(c, msg, body) == delivered' = [delivered EXCEPT ![c] = Append(@, [msg |-> msg, body |-> body])]

(* A method interrupts whatever was being put together.                    *)
recvMethod ==
  \E state \in {"method", "header", "content"} :
    /\ Receive("method", state)
    /\ Becomes(Head(wire).ch, [Idle EXCEPT !.state = "header", !.msg = Head(wire).msg])
    /\ UNCHANGED delivered

recvPlainMethod ==
  \E state \in {"method", "header", "content"} :
    /\ Receive("plain", state)
    /\ Becomes(Head(wire).ch, [recv[Head(wire).ch] EXCEPT !.state = "method"])
    /\ UNCHANGED delivered

HeaderWithoutBody ==
  /\ Receive("header", "header")
  /\ Becomes(Head(wire).ch, [recv[Head(wire).ch] EXCEPT !.state = "content", !.need = Head(wire).msg.size])
  /\ UNCHANGED delivered

recvHeader ==
  LET c == Head(wire).ch
      r == [recv[c] EXCEPT !.need = Head(wire).msg.size]
  IN
  /\ Receive("header", "header")
  /\ IF r.need = 0
     THEN Dispatch(c, r.msg, r.body) /\ Becomes(c, [r EXCEPT !.state = "method"])
     ELSE Becomes(c, [r EXCEPT !.state = "content"]) /\ UNCHANGED delivered

recvContent ==
  LET c == Head(wire).ch
      r == [recv[c] EXCEPT !.body = @ \o Head(wire).part]
  IN
  /\ Receive("body", "content")
  /\ IF Len(r.body) >= r.need
     THEN Dispatch(c, r.msg, r.body) /\ Becomes(c, [r EXCEPT !.state = "method"])
     ELSE Becomes(c, r) /\ UNCHANGED delivered

(* A frame out of place is dropped and reassembly starts over.             *)
OutOfPlace == {<<"header", "method">>, <<"header", "content">>, <<"body", "method">>, <<"body", "header">>}

recvDrop ==
  /\ \E p \in OutOfPlace : Receive(p[1], p[2])
  /\ Becomes(Head(wire).ch, [recv[Head(wire).ch] EXCEPT !.state = "method"])
  /\ UNCHANGED delivered

-----------------------------------------------------------------------------
Finished ==
  /\ ~crashed => wire = <<>> /\ Begun = Messages /\ \A s \in Senders : sender[s].pc = "idle"
  /\ UNCHANGED vars

Next ==
  \/ \E s \in Senders, c \in Channels, n \in Sizes : Publish(s, c, n)
  \/ \E s \in Senders : Lock(s) \/ SendMethod(s) \/ SendHeader(s) \/ SendBody(s) \/ Sent(s)
                        \/ SendFails(s) \/ \E late \in BOOLEAN : Abandon(s, late)
  \/ Break
  \/ recvMethod \/ recvPlainMethod \/ recvHeader \/ recvContent \/ recvDrop
  \/ Finished

Spec == Init /\ [][Next]_vars

-----------------------------------------------------------------------------
(* Every message handed on by a channel's state machine is one that was    *)
(* sent completely on that channel, in the order of sending, with exactly  *)
(* its own body: no octet of an abandoned message, of another sender or of *)
(* another channel gets into it, and none is missing.                      *)
Intact(c) ==
  /\ Len(delivered[c]) =< Len(published[c]) + 1
  /\ \A k \in DOMAIN delivered[c] :
       /\ delivered[c][k].body = Body(delivered[c][k].msg)
       /\ k =< Len(published[c]) => delivered[c][k].msg = published[c][k]
ContentIntact == \A c \in Channels : Intact(c)

(* Once everything on the wire is read nothing published is missing.       *)
NothingMissing ==
  wire = <<>> /\ (\A s \in Senders : sender[s].pc \in {"idle", "lock"}) =>
    \A c \in Channels : Len(delivered[c]) = Len(published[c])

(* No body frame is larger than was negotiated, and none is empty.         *)
FramesFit == \A k \in DOMAIN wire : wire[k].kind = "body" =>
               Len(wire[k].part) \in 1..(FrameSize - frameHeaderSize)

(* What the two ends of a connection owe to every message: it arrives      *)
(* whole, none is missing, and no frame is larger than agreed on.          *)
MessagesArrive == ContentIntact /\ NothingMissing /\ FramesFit
=============================================================================
