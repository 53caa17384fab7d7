----------------------------- MODULE MCNetwork ------------------------------
(* Instances of Network for TLC: the console beside the network task.      *)
EXTENDS Network
CONSTANTS console

MCOperators == {console}
=============================================================================
