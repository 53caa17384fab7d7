-------------------------- MODULE MCEnergyPersist --------------------------
(* Instances of EnergyPersist for TLC.                                     *)
EXTENDS EnergyPersist, TLC
CONSTANTS meter, panel

MCTasks == {meter, panel}
MCWindows == {15, 30}
MCNoFails == {}
MCKept == {"kept"}
MCFails == {"kept", "written"}
=============================================================================
