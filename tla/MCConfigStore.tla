---------------------------- MODULE MCConfigStore ----------------------------
(* Instances of ConfigStore for TLC, and beside it the panel, which is its  *)
(* most involved editor, and the panel's buzzer: one part runs, the others *)
(* stand still.                                                            *)
EXTENDS ConfigStore, Panel, PanelSound, TLC
CONSTANTS lcd, portal, factory, changed, edited,
          Parts

MCTasks == {lcd, portal}
MCTwoValues == {factory, changed}
MCSymmetry == Permutations(MCTasks)

VARIABLE part

PartInit == part \in Parts /\ Init /\ PanelInit /\ SoundInit

PartNext ==
    /\ UNCHANGED part
    /\ \/ part = "store" /\ Next /\ UNCHANGED <<panelState, soundVars>>
       \/ part = "panel" /\ PanelNext /\ UNCHANGED <<vars, soundVars>>
       \/ part = "sound" /\ SoundNext /\ UNCHANGED <<vars, panelState>>

PartSpec == PartInit /\ [][PartNext]_<<part, vars, panelState, soundVars>>

\* The types of the part that runs.
TypesOK ==
    /\ part = "store" => TypeOK
    /\ part = "panel" => PanelTypeOK
    /\ part = "sound" => SoundTypeOK
=============================================================================
