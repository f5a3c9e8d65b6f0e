--------------------------- MODULE MCMqttHandler ---------------------------
(* Small instances of MqttHandler: two blocks, three sockets.                *)
EXTENDS MqttHandler

CONSTANTS b1, b2
=============================================================================
