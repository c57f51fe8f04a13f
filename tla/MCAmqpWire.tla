---------------------------- MODULE MCAmqpWire ----------------------------
(* Frames for AmqpWire: every method with arguments drawn from the values  *)
(* at the edges of their types, every property, every type of field.       *)
EXTENDS AmqpWire

AllMethods ==
  <<connectionStart, connectionStartOk, connectionSecure, connectionSecureOk, connectionTune,
   connectionTuneOk, connectionOpen, connectionOpenOk, connectionClose, connectionCloseOk,
   connectionBlocked, connectionUnblocked, channelOpen, channelOpenOk, channelFlow,
   channelFlowOk, channelClose, channelCloseOk, exchangeDeclare, exchangeDeclareOk,
   exchangeDelete, exchangeDeleteOk, exchangeBind, exchangeBindOk, exchangeUnbind,
   exchangeUnbindOk, queueDeclare, queueDeclareOk, queueBind, queueBindOk, queueUnbind,
   queueUnbindOk, queuePurge, queuePurgeOk, queueDelete, queueDeleteOk, basicQos, basicQosOk,
   basicConsume, basicConsumeOk, basicCancel, basicCancelOk, basicPublish, basicReturn,
   basicDeliver, basicGet, basicGetOk, basicGetEmpty, basicAck, basicReject,
   basicRecoverAsync, basicRecover, basicRecoverOk, basicNack, txSelect, txSelectOk,
   txCommit, txCommitOk, txRollback, txRollbackOk, confirmSelect, confirmSelectOk>>

String(n) == [i \in 1..n |-> 97]
F(t, v) == [t |-> t, v |-> v]

Scalars == <<F("t", TRUE), F("t", FALSE), F("b", 255), F("s", -2), F("s", 32767), F("I", -2147483647),
             F("l", -1), F("f", 12345), F("d", 206), F("D", [scale |-> 2, value |-> -12345]),
             F("S", String(3)), F("S", <<>>), F("T", 1), F("T", -1), F("x", <<206, 0>>), F("V", 0)>>

Table(a, b) == (<<>> :> a) @@ (String(2) :> b)
Nested == Table(F("F", Table(Scalars[1], F("A", Scalars))), F("A", <<F("F", <<>>), F("A", <<>>)>>))
Unsupported == Table(Scalars[1], F("A", <<F("uint", 1)>>))

Samples == [octet |-> <<0, 255, 206>>, short |-> <<0, 65535, 258>>, long |-> <<0, 2147483647, 65536>>,
            longlong |-> <<1, 2147483647, 0>>, bit |-> <<TRUE, FALSE>>,
            shortstr |-> <<<<>>, String(1), String(255), String(256), String(258)>>,
            longstr |-> <<<<>>, String(1), String(300)>>,
            table |-> <<<<>>, Table(Scalars[4], Scalars[11]), Nested, Unsupported>>,
            timestamp |-> <<<<>>, <<0>>, <<-1>>>>]
Sample(type, k) == Samples[type][(k % Len(Samples[type])) + 1]

\* The k-th choice of arguments: neighbouring arguments get different samples.
Arguments(types, k) == [i \in DOMAIN types |-> Sample(types[i], k + i * (1 + k \div 6))]

Unset == [i \in 1..13 |-> Zero(PropertyTypes[i])]

\* Properties: all, none, each one alone, and every type of field.
All(k) == [i \in 1..13 |-> Sample(PropertyTypes[i], k)]
Alone(i, k) == [Unset EXCEPT ![i] = Sample(PropertyTypes[i], k)]
PropertyChoices ==
  <<Unset>> \o [k \in 1..3 |-> All(k)]
  \o [n \in 1..39 |-> Alone(1 + (n - 1) \div 3, 1 + (n % 3))]
  \o [i \in 1..16 |-> [Unset EXCEPT ![3] = Table(Scalars[i], Scalars[17 - i])]]

MethodFrames ==
  LET n == Len(AllMethods)
      Frame(m, k) == [typ |-> frameMethod, channel |-> 1, method |-> m, args |-> Arguments(m.fields, k)]
  IN  [i \in 1..(12 * n) |-> Frame(AllMethods[1 + (i % n)], i \div n)]
HeaderFrames ==
  [i \in DOMAIN PropertyChoices |->
     [typ |-> frameHeader, channel |-> 65535, class |-> 60, size |-> 70000, props |-> PropertyChoices[i]]]
OtherFrames ==
  [i \in 1..3 |-> [typ |-> frameBody, channel |-> 2, body |-> <<<<>>, <<206>>, String(300)>>[i]]]
  \o <<[typ |-> frameHeartbeat, channel |-> 0]>>

MCFrames == MethodFrames \o HeaderFrames \o OtherFrames
=============================================================================
