--------------------------- MODULE MCAlarmManager ---------------------------
(* The alarm manager with one verdict of each gated kind and two versions. *)
EXTENDS AlarmManager

CONSTANTS v, oc

MCVBits == {v}
MCOcBits == {oc}
MCNoFatal == {}

\* The new version no longer wants the over-current alarm ...
MCContents ==
    [n \in 0..MaxVer |->
        IF n = 0 THEN [enabled |-> {v, oc}, confirm |-> 1, role |-> TRUE]
        ELSE [enabled |-> {v}, confirm |-> 0, role |-> FALSE]]

\* ... or it is the first to want it.
MCContentsOcComes ==
    [n \in 0..MaxVer |->
        IF n = 0 THEN [enabled |-> {v}, confirm |-> 1, role |-> TRUE]
        ELSE [enabled |-> {v, oc}, confirm |-> 0, role |-> FALSE]]
=============================================================================
