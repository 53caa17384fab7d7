----------------------------- MODULE FieldCells -----------------------------
(***************************************************************************)
(* What saving the configuration promises: every field has a cell of its   *)
(* own in non-volatile memory.  A save moves the fields of one frozen copy *)
(* of the configuration into their cells, some now and some later, and is  *)
(* over when every cell agrees with that copy.  Power may go in between:   *)
(* the next boot then finds a mixture, field by field, of the copy and of  *)
(* what was stored before - never a third value.  A save that fails leaves *)
(* such a mixture behind, too, and a field it did store stands until the   *)
(* next save is over, even against what that one was to store.  A factory  *)
(* reset ends with factory values in every cell; while it goes on they may *)
(* hold anything, so it has to be let finish.                              *)
(***************************************************************************)
CONSTANTS Field,       \* the names of the fields
          Value,       \* their values
          Default      \* the factory value

VARIABLES live,        \* the configuration in RAM
          want,        \* the copies being saved: none or one
          residue,     \* the copies of saves that failed since the last success
          erasing,     \* a factory reset is under way
          cell         \* what the next boot will read, field by field

cellVars == <<live, want, residue, erasing, cell>>

Configuration == [Field -> Value]

CellsInit ==
    /\ live = [f \in Field |-> Default]
    /\ want = {}
    /\ residue = {}
    /\ erasing = FALSE
    /\ cell = live

\* An operator changes the configuration in RAM.
Change ==
    /\ live' \in Configuration
    /\ UNCHANGED <<want, residue, erasing, cell>>

Begin ==
    /\ want = {} /\ ~erasing
    /\ want' = {live}
    /\ UNCHANGED <<live, residue, erasing, cell>>

\* Some fields of the copy reach their cells.
Commit ==
    \E w \in want, F \in SUBSET Field :
        /\ cell' = [f \in Field |-> IF f \in F THEN w[f] ELSE cell[f]]
        /\ UNCHANGED <<live, want, residue, erasing>>

\* A save ends when everything it was asked to store is stored, but for what an
\* earlier save that failed had stored.
End ==
    /\ \E w \in want : \A f \in Field : cell[f] \in {r[f] : r \in residue \cup {w}}
    /\ want' = {}
    /\ residue' = {}
    /\ UNCHANGED <<live, erasing, cell>>

Fail ==
    /\ want # {}
    /\ want' = {}
    /\ residue' = residue \cup want
    /\ UNCHANGED <<live, erasing, cell>>

BeginErase ==
    /\ want = {} /\ ~erasing
    /\ erasing' = TRUE
    /\ UNCHANGED <<live, want, residue, cell>>

Erase ==
    /\ erasing
    /\ cell' \in Configuration
    /\ UNCHANGED <<live, want, residue, erasing>>

\* A factory reset ends with the factory configuration, stored and in RAM.
EndErase ==
    /\ erasing
    /\ cell = [f \in Field |-> Default]
    /\ live' = cell
    /\ erasing' = FALSE
    /\ residue' = {}
    /\ UNCHANGED <<want, cell>>

PowerLoss ==
    /\ ~erasing
    /\ live' = cell
    /\ want' = {}
    /\ residue' = {}
    /\ UNCHANGED <<erasing, cell>>

CellsNext ==
    \/ Change \/ Begin \/ Commit \/ End \/ Fail
    \/ BeginErase \/ Erase \/ EndErase \/ PowerLoss

CellsSpec == CellsInit /\ [][CellsNext]_cellVars
=============================================================================
