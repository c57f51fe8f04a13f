--------------------------- MODULE AmqpMethods ---------------------------
(***************************************************************************)
(* The methods of AMQP 0-9-1 as the vendored client's generated file       *)
(* spec091.go has them.  A method is its class and method id, whether the  *)
(* client waits for an answer after sending it, whether content follows,   *)
(* and the types of its arguments in the order in which write and read     *)
(* treat them.  The seven tables are the branches of parseMethodFrame: for *)
(* each class, which method an id is read as.                              *)
(***************************************************************************)
EXTENDS Integers

Method(class, id, wait, fields) ==
  [class |-> class, id |-> id, wait |-> wait, fields |-> fields, content |-> FALSE]

ContentMethod(class, id, wait, fields) ==
  [Method(class, id, wait, fields) EXCEPT !.content = TRUE]

\* The answers of wait(): `return true && !me.NoWait` is Unless.
Always == "always"
Never  == "never"
Unless == "unless NoWait"

connectionStart == Method(10, 10, Always, <<"octet", "octet", "table", "longstr", "longstr">>)
connectionStartOk == Method(10, 11, Always, <<"table", "shortstr", "longstr", "shortstr">>)
connectionSecure == Method(10, 20, Always, <<"longstr">>)
connectionSecureOk == Method(10, 21, Always, <<"longstr">>)
connectionTune == Method(10, 30, Always, <<"short", "long", "short">>)
connectionTuneOk == Method(10, 31, Always, <<"short", "long", "short">>)
connectionOpen == Method(10, 40, Always, <<"shortstr", "shortstr", "bit">>)
connectionOpenOk == Method(10, 41, Always, <<"shortstr">>)
connectionClose == Method(10, 50, Always, <<"short", "shortstr", "short", "short">>)
connectionCloseOk == Method(10, 51, Always, <<>>)
connectionBlocked == Method(10, 60, Never, <<"shortstr">>)
connectionUnblocked == Method(10, 61, Never, <<>>)

channelOpen == Method(20, 10, Always, <<"shortstr">>)
channelOpenOk == Method(20, 11, Always, <<"longstr">>)
channelFlow == Method(20, 20, Always, <<"bit">>)
channelFlowOk == Method(20, 21, Never, <<"bit">>)
channelClose == Method(20, 40, Always, <<"short", "shortstr", "short", "short">>)
channelCloseOk == Method(20, 41, Always, <<>>)

exchangeDeclare == Method(40, 10, Unless,
  <<"short", "shortstr", "shortstr", "bit", "bit", "bit", "bit", "bit", "table">>)
exchangeDeclareOk == Method(40, 11, Always, <<>>)
exchangeDelete == Method(40, 20, Unless, <<"short", "shortstr", "bit", "bit">>)
exchangeDeleteOk == Method(40, 21, Always, <<>>)
exchangeBind == Method(40, 30, Unless,
  <<"short", "shortstr", "shortstr", "shortstr", "bit", "table">>)
exchangeBindOk == Method(40, 31, Always, <<>>)
exchangeUnbind == Method(40, 40, Unless,
  <<"short", "shortstr", "shortstr", "shortstr", "bit", "table">>)
exchangeUnbindOk == Method(40, 51, Always, <<>>)

queueDeclare == Method(50, 10, Unless,
  <<"short", "shortstr", "bit", "bit", "bit", "bit", "bit", "table">>)
queueDeclareOk == Method(50, 11, Always, <<"shortstr", "long", "long">>)
queueBind == Method(50, 20, Unless, <<"short", "shortstr", "shortstr", "shortstr", "bit", "table">>)
queueBindOk == Method(50, 21, Always, <<>>)
queueUnbind == Method(50, 50, Always, <<"short", "shortstr", "shortstr", "shortstr", "table">>)
queueUnbindOk == Method(50, 51, Always, <<>>)
queuePurge == Method(50, 30, Unless, <<"short", "shortstr", "bit">>)
queuePurgeOk == Method(50, 31, Always, <<"long">>)
queueDelete == Method(50, 40, Unless, <<"short", "shortstr", "bit", "bit", "bit">>)
queueDeleteOk == Method(50, 41, Always, <<"long">>)

basicQos == Method(60, 10, Always, <<"long", "short", "bit">>)
basicQosOk == Method(60, 11, Always, <<>>)
basicConsume == Method(60, 20, Unless,
  <<"short", "shortstr", "shortstr", "bit", "bit", "bit", "bit", "table">>)
basicConsumeOk == Method(60, 21, Always, <<"shortstr">>)
basicCancel == Method(60, 30, Unless, <<"shortstr", "bit">>)
basicCancelOk == Method(60, 31, Always, <<"shortstr">>)
basicPublish == ContentMethod(60, 40, Never, <<"short", "shortstr", "shortstr", "bit", "bit">>)
basicReturn == ContentMethod(60, 50, Never, <<"short", "shortstr", "shortstr", "shortstr">>)
basicDeliver == ContentMethod(60, 60, Never,
  <<"shortstr", "longlong", "bit", "shortstr", "shortstr">>)
basicGet == Method(60, 70, Always, <<"short", "shortstr", "bit">>)
basicGetOk == ContentMethod(60, 71, Always, <<"longlong", "bit", "shortstr", "shortstr", "long">>)
basicGetEmpty == Method(60, 72, Always, <<"shortstr">>)
basicAck == Method(60, 80, Never, <<"longlong", "bit">>)
basicReject == Method(60, 90, Never, <<"longlong", "bit">>)
basicRecoverAsync == Method(60, 100, Never, <<"bit">>)
basicRecover == Method(60, 110, Always, <<"bit">>)
basicRecoverOk == Method(60, 111, Always, <<>>)
basicNack == Method(60, 120, Never, <<"longlong", "bit", "bit">>)

txSelect == Method(90, 10, Always, <<>>)
txSelectOk == Method(90, 11, Always, <<>>)
txCommit == Method(90, 20, Always, <<>>)
txCommitOk == Method(90, 21, Always, <<>>)
txRollback == Method(90, 30, Always, <<>>)
txRollbackOk == Method(90, 31, Always, <<>>)

confirmSelect == Method(85, 10, Always, <<"bit">>)
confirmSelectOk == Method(85, 11, Always, <<>>)

-----------------------------------------------------------------------------
(* parseMethodFrame, class by class. *)

connectionClass ==
  [id \in {10, 11, 20, 21, 30, 31, 40, 41, 50, 51, 60, 61} |->
     CASE id = 10 -> connectionStart [] id = 11 -> connectionStartOk
       [] id = 20 -> connectionSecure [] id = 21 -> connectionSecureOk
       [] id = 30 -> connectionTune [] id = 31 -> connectionTuneOk
       [] id = 40 -> connectionOpen [] id = 41 -> connectionOpenOk
       [] id = 50 -> connectionClose [] id = 51 -> connectionCloseOk
       [] id = 60 -> connectionBlocked [] id = 61 -> connectionUnblocked]

channelClass ==
  [id \in {10, 11, 20, 21, 40, 41} |->
     CASE id = 10 -> channelOpen [] id = 11 -> channelOpenOk [] id = 20 -> channelFlow
       [] id = 21 -> channelFlowOk [] id = 40 -> channelClose
       [] id = 41 -> channelCloseOk]

exchangeClass ==
  [id \in {10, 11, 20, 21, 30, 31, 40, 51} |->
     CASE id = 10 -> exchangeDeclare [] id = 11 -> exchangeDeclareOk
       [] id = 20 -> exchangeDelete [] id = 21 -> exchangeDeleteOk
       [] id = 30 -> exchangeBind [] id = 31 -> exchangeBindOk
       [] id = 40 -> exchangeUnbind [] id = 51 -> exchangeUnbindOk]

queueClass ==
  [id \in {10, 11, 20, 21, 50, 51, 30, 31, 40, 41} |->
     CASE id = 10 -> queueDeclare [] id = 11 -> queueDeclareOk [] id = 20 -> queueBind
       [] id = 21 -> queueBindOk [] id = 50 -> queueUnbind [] id = 51 -> queueUnbindOk
       [] id = 30 -> queuePurge [] id = 31 -> queuePurgeOk [] id = 40 -> queueDelete
       [] id = 41 -> queueDeleteOk]

basicClass ==
  [id \in {10, 11, 20, 21, 30, 31, 40, 50, 60, 70, 71, 72, 80, 90, 100, 110, 111, 120} |->
     CASE id = 10 -> basicQos [] id = 11 -> basicQosOk [] id = 20 -> basicConsume
       [] id = 21 -> basicConsumeOk [] id = 30 -> basicCancel
       [] id = 31 -> basicCancelOk [] id = 40 -> basicPublish [] id = 50 -> basicReturn
       [] id = 60 -> basicDeliver [] id = 70 -> basicGet [] id = 71 -> basicGetOk
       [] id = 72 -> basicGetEmpty [] id = 80 -> basicAck [] id = 90 -> basicReject
       [] id = 100 -> basicRecoverAsync [] id = 110 -> basicRecover
       [] id = 111 -> basicRecoverOk [] id = 120 -> basicNack]

txClass ==
  [id \in {10, 11, 20, 21, 30, 31} |->
     CASE id = 10 -> txSelect [] id = 11 -> txSelectOk [] id = 20 -> txCommit
       [] id = 21 -> txCommitOk [] id = 30 -> txRollback [] id = 31 -> txRollbackOk]

confirmClass ==
  [id \in {10, 11} |->
     CASE id = 10 -> confirmSelect [] id = 11 -> confirmSelectOk]

Class ==
  [class \in {10, 20, 40, 50, 60, 90, 85} |->
     CASE class = 10 -> connectionClass [] class = 20 -> channelClass
       [] class = 40 -> exchangeClass [] class = 50 -> queueClass
       [] class = 60 -> basicClass [] class = 90 -> txClass
       [] class = 85 -> confirmClass]

=============================================================================
