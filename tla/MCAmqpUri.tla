----------------------------- MODULE MCAmqpUri -----------------------------
(* AmqpUri over every address of up to MaxAddress tokens, and over every   *)
(* combination of the other parts of a URL.                                *)
EXTENDS AmqpUri

CONSTANT MaxAddress

ByAddress ==
  [scheme : {"amqp"}, host : BoundedSeq({"[", "]", ":", "h", "1"}, MaxAddress),
   user : {None}, password : {None}, path : {<<>>}]

(* net/url finds no password without a user, and no path behind a scheme   *)
(* that does not begin with a slash.                                       *)
Paths == {<<>>} \cup {<<"/">> \o p : p \in BoundedSeq({"/", "v", "blank"}, 3)}

ByParts ==
  {u \in [scheme : {"amqp", "amqps", "http"}, host : {<<>>, <<"h">>, <<":", "1">>, <<"h", ":", "1", "1">>},
          user : {None, <<"guest">>, <<"u">>}, password : {None, <<"guest">>, <<"p">>, <<"p", "/">>}, path : Paths] :
     u.user = None => u.password = None}

MCUrls == ByAddress \cup ByParts

(* Two brokers to dial one after the other.                                *)
MCLater == [scheme : {"amqps"}, host : {<<"h">>, <<"1">>}, user : {None}, password : {None}, path : {<<>>}]

(* As Dial and DialTLS call it, and with a name of the caller's own.       *)
MCConfigs ==
  {[tls |-> FALSE, serverName |-> None, sasl |-> None, vhost |-> None],
   [tls |-> TRUE, serverName |-> None, sasl |-> None, vhost |-> <<"v">>],
   [tls |-> TRUE, serverName |-> <<"name">>, sasl |-> <<"external">>, vhost |-> None]}
=============================================================================
