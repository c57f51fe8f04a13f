-------------------------- MODULE MCAmqpConnection --------------------------
EXTENDS AmqpConnection

MCMechanisms == {{"PLAIN", "AMQPLAIN"}, {"EXTERNAL"}}
=============================================================================
