---------------------------- MODULE DurableCell ----------------------------
(***************************************************************************)
(* What the two-slot energy store promises: one cell of non-volatile       *)
(* memory that holds a meter reading and is only ever replaced as a whole. *)
(* A reading is staged from RAM before it is committed; power may go at    *)
(* any moment, and what the next boot finds in RAM is exactly the cell:    *)
(* the last committed reading or, when a commit was under way, the one     *)
(* being committed.                                                        *)
(***************************************************************************)
CONSTANTS Reading,     \* every reading the meter can hold
          Fresh        \* the reading of a meter that never saved anything

VARIABLES live,        \* the reading in RAM
          staged,      \* the snapshots on their way to the cell
          cell         \* the reading the next boot will find

cellVars == <<live, staged, cell>>

CellTypeOK ==
    /\ live \in Reading
    /\ staged \in SUBSET Reading
    /\ cell \in Reading

CellInit ==
    /\ live = Fresh
    /\ staged = {}
    /\ cell = Fresh

\* Metering, resets and settings change the reading in RAM only.
Change ==
    /\ live' \in Reading
    /\ UNCHANGED <<staged, cell>>

Stage ==
    /\ staged' = staged \cup {live}
    /\ UNCHANGED <<live, cell>>

Commit ==
    \E r \in staged :
        /\ cell' = r
        /\ staged' \in {staged, staged \ {r}}
        /\ UNCHANGED live

\* A failed commit leaves the cell alone.
Abandon ==
    \E r \in staged :
        /\ staged' = staged \ {r}
        /\ UNCHANGED <<live, cell>>

PowerLoss ==
    \E r \in staged \cup {cell} :
        /\ cell' = r
        /\ live' = r
        /\ staged' = {}

CellNext == Change \/ Stage \/ Commit \/ Abandon \/ PowerLoss

CellSpec == CellInit /\ [][CellNext]_cellVars
=============================================================================
