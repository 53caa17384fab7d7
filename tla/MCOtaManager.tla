---------------------------- MODULE MCOtaManager ----------------------------
(* Instances of OtaManager for TLC: the running version, an older and a    *)
(* newer one.                                                              *)
EXTENDS OtaManager, TLC
CONSTANTS lcd, mqtt

MCCallers == {lcd, mqtt}
MCVersions == 1..3
MCSymmetry == Permutations(MCCallers)
=============================================================================
