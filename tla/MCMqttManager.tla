--------------------------- MODULE MCMqttManager ---------------------------
(* Instances of MqttManager for TLC.  One operator saves and applies again  *)
(* and again, so a request meets one that waits; a second one adds the same *)
(* steps.                                                                   *)
EXTENDS MqttManager
CONSTANTS menu

MCOperators == {menu}
MCOtaStates == {"downloading", "failed"}
=============================================================================
