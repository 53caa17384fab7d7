----------------------------- MODULE TrialUpdate -----------------------------
(***************************************************************************)
(* What the over-the-air update promises: the device always has one        *)
(* committed image.  A new image is first staged beside it, never over it, *)
(* then tried out by one boot; a trial ends committed or is given up, and  *)
(* giving it up brings the committed image back.  The image a commit       *)
(* replaced is kept as a spare until the next download spoils it; an       *)
(* operator may go back to it.                                             *)
(***************************************************************************)
CONSTANTS Version, None

VARIABLES committed,   \* the image a device that is reset would end up with
          trial,       \* the image staged or being tried out
          spare,       \* the committed image before this one
          running      \* the image that runs

trialVars == <<committed, trial, spare, running>>

OnTrial == trial # None /\ running = trial

TrialInit ==
    /\ committed \in Version
    /\ trial = None
    /\ spare = None
    /\ running = committed

Spoil ==
    /\ trial = None
    /\ spare' = None
    /\ UNCHANGED <<committed, trial, running>>

\* Installing the version that runs already would be no update.
Stage ==
    /\ trial = None /\ spare = None
    /\ \E v \in Version \ {running} : trial' = v
    /\ UNCHANGED <<committed, spare, running>>

TryOut ==
    /\ trial # None /\ ~OnTrial
    /\ running' = trial
    /\ UNCHANGED <<committed, trial, spare>>

Commit ==
    /\ OnTrial
    /\ committed' = trial
    /\ spare' = committed
    /\ trial' = None
    /\ UNCHANGED running

GiveUp ==
    /\ trial # None
    /\ trial' = None
    /\ running' = committed
    /\ UNCHANGED <<committed, spare>>

GoBack ==
    /\ trial = None /\ spare # None
    /\ committed' = spare
    /\ running' = spare
    /\ spare' = None
    /\ UNCHANGED trial

TrialNext == Spoil \/ Stage \/ TryOut \/ Commit \/ GiveUp \/ GoBack

TrialSpec == TrialInit /\ [][TrialNext]_trialVars
=============================================================================
