------------------------------- MODULE SdLog -------------------------------
(***************************************************************************)
(* The log files on the SD card (components/sd_card/sd_card.c).            *)
(*                                                                         *)
(* A monitor task mounts and unmounts as the card comes and goes; the      *)
(* energy task appends rows to a file it rotates through three             *)
(* generations, the alarm task to a file of its own.  A mutex covers each  *)
(* operation, but the card may leave, a call may fail and the power may go *)
(* between any two calls.  A file is its lines: the header, rows by number,*)
(* and what an interrupted write left; an empty file is one that is not    *)
(* there.  Calibration files are not modelled.                             *)
(*                                                                         *)
(* A definition named after the one that follows it is a broken form of it.*)
(***************************************************************************)
EXTENDS Integers, Sequences

CONSTANTS
    Debounce,       \* SD_DEBOUNCE_SAMPLES
    FullAt,         \* lines at which the energy file is rotated
    MaxRows,        \* bound: rows logged
    MaxCardFaults,  \* bound: calls that fail with the card in place
    MaxPulls        \* bound: removals of the card and losses of power

ASSUME SdLogAssumption ==
    {Debounce, FullAt} \subseteq Nat \ {0} /\ {MaxRows, MaxCardFaults, MaxPulls} \subseteq Nat

VARIABLES
    inserted,
    usable,         \* the card has not left since it was mounted
    logs,           \* on the card
    bare,           \* history: the files whose header was reported written and lost
    cardMounted,    \* s_mounted
    steady,         \* stable_present, or below zero stable_absent
    holder,         \* of s_lock
    logJob,         \* of each task that logs
    rows, cardFaults, pulls

sdCard == <<inserted, usable, logs, bare>>
sdVars == <<sdCard, cardMounted, steady, holder, logJob, rows, cardFaults, pulls>>

Header == 0
Torn == -1
Loggers == {"energy", "fault"}
Generations == {"g1", "g2", "g3"}
Files == Loggers \cup Generations

\* energy_rotate_generations(): what is moved where, the newest last.
Moves == <<[from |-> "g2", to |-> "g3"], [from |-> "g1", to |-> "g2"],
           [from |-> "energy", to |-> "g1"]>>

CardTypeOK ==
    /\ {inserted, usable, cardMounted} \subseteq BOOLEAN
    /\ logs \in [Files -> Seq(Torn..MaxRows)]
    /\ bare \subseteq Files
    /\ steady \in -Debounce..Debounce
    /\ holder \in Loggers \cup {"none"}
    /\ logJob \in [Loggers -> {"idle", "wait", "size", "remove", "move1", "move2", "move3",
                            "empty", "header", "row"}]
    /\ rows \in 0..MaxRows /\ cardFaults \in 0..MaxCardFaults /\ pulls \in 0..MaxPulls

CardInit ==
    /\ inserted = FALSE /\ usable = FALSE /\ logs = [f \in Files |-> <<>>]
    /\ bare = {} /\ cardMounted = FALSE /\ steady = 0 /\ holder = "none"
    /\ logJob = [t \in Loggers |-> "idle"]
    /\ rows = 0 /\ cardFaults = 0 /\ pulls = 0
-----------------------------------------------------------------------------
(* The card.                                                               *)

\* The one that was there before, or another that is empty.
Push ==
    /\ ~inserted /\ inserted' = TRUE
    /\ UNCHANGED <<logs, bare>> \/ (logs' = [f \in Files |-> <<>>] /\ bare' = {})
    /\ UNCHANGED <<usable, cardMounted, steady, holder, logJob, rows, cardFaults, pulls>>

Pull ==
    /\ inserted /\ inserted' = FALSE /\ usable' = FALSE
    /\ pulls < MaxPulls /\ pulls' = pulls + 1
    /\ UNCHANGED <<logs, bare, cardMounted, steady, holder, logJob, rows, cardFaults>>

PowerLoss ==
    /\ pulls < MaxPulls /\ pulls' = pulls + 1
    /\ usable' = FALSE /\ cardMounted' = FALSE /\ steady' = 0 /\ holder' = "none"
    /\ logJob' = [t \in Loggers |-> "idle"]
    /\ UNCHANGED <<inserted, logs, bare, rows, cardFaults>>

\* A call to the file system: it works, or the card is gone, or it fails.
CallWorks == inserted /\ usable /\ cardMounted /\ UNCHANGED cardFaults
CallFails ==
    \/ ~(inserted /\ usable /\ cardMounted) /\ UNCHANGED cardFaults
    \/ inserted /\ usable /\ cardMounted /\ cardFaults < MaxCardFaults /\ cardFaults' = cardFaults + 1
-----------------------------------------------------------------------------
(* sd_monitor_task()                                                       *)

Counted ==
    IF inserted THEN (IF steady < 0 THEN 1 ELSE IF steady < Debounce THEN steady + 1 ELSE steady)
    ELSE IF steady > 0 THEN -1 ELSE IF steady > -Debounce THEN steady - 1 ELSE steady

Sample ==
    /\ steady' = Counted
    /\ \/ /\ ~(steady' = Debounce /\ ~cardMounted) /\ ~(steady' = -Debounce /\ cardMounted)
          /\ UNCHANGED <<usable, cardMounted, cardFaults>>
       \* sd_mount_locked(), which may fail and is tried again with the next sample
       \/ /\ steady' = Debounce /\ ~cardMounted /\ holder = "none"
          /\ \/ inserted /\ cardMounted' = TRUE /\ usable' = TRUE /\ UNCHANGED cardFaults
             \/ UNCHANGED <<usable, cardMounted, cardFaults>>
       \* sd_unmount_locked()
       \/ /\ steady' = -Debounce /\ cardMounted /\ holder = "none"
          /\ cardMounted' = FALSE /\ UNCHANGED <<usable, cardFaults>>
    /\ UNCHANGED <<inserted, logs, bare, holder, logJob, rows, pulls>>
-----------------------------------------------------------------------------
(* sd_card_log_energy_csv(), sd_card_log_fault_csv()                       *)

Goes(t, at) == logJob' = [logJob EXCEPT ![t] = at]
Done(t) == Goes(t, "idle") /\ holder' = "none"

\* Mounted is tested before the lock is waited for.
Log(t) ==
    /\ logJob[t] = "idle" /\ cardMounted /\ rows < MaxRows
    /\ rows' = rows + 1
    /\ Goes(t, "wait")
    /\ UNCHANGED <<sdCard, cardMounted, steady, holder, cardFaults, pulls>>

Locked(t) ==
    /\ logJob[t] = "wait" /\ holder = "none" /\ holder' = t
    /\ Goes(t, IF t = "energy" THEN "size" ELSE "empty")
    /\ UNCHANGED <<sdCard, cardMounted, steady, rows, cardFaults, pulls>>

\* Is it time to rotate?  A file whose size cannot be told counts as empty, ...
Size ==
    /\ logJob["energy"] = "size"
    /\ \/ CallWorks /\ Goes("energy", IF Len(logs["energy"]) >= FullAt THEN "remove" ELSE "empty")
       \/ CallFails /\ Goes("energy", "empty")
    /\ UNCHANGED <<sdCard, cardMounted, steady, holder, rows, pulls>>

\* ... and an empty file needs the header first.
LooksEmpty(t) ==
    /\ logJob[t] = "empty"
    /\ \/ CallWorks /\ Goes(t, IF logs[t] = <<>> THEN "header" ELSE "row")
       \/ CallFails /\ Goes(t, "header")
    /\ UNCHANGED <<sdCard, cardMounted, steady, holder, rows, pulls>>

\* The oldest generation goes, ...
Remove ==
    /\ logJob["energy"] = "remove" /\ Goes("energy", "move1")
    /\ \/ CallWorks /\ logs' = [logs EXCEPT !["g3"] = <<>>] /\ bare' = bare \ {"g3"}
       \/ CallFails /\ UNCHANGED <<logs, bare>>
    /\ UNCHANGED <<inserted, usable, cardMounted, steady, holder, rows, pulls>>

\* ... the others move up; a name that is taken is not replaced, and a failure does not
\* stop the moves that follow.
Moved(n, at, next) ==
    /\ logJob["energy"] = at /\ Goes("energy", next)
    /\ LET m == Moves[n] IN
       \/ /\ CallWorks
          /\ IF logs[m.from] # <<>> /\ logs[m.to] = <<>>
             THEN /\ logs' = [logs EXCEPT ![m.to] = logs[m.from], ![m.from] = <<>>]
                  /\ bare' = (bare \ {m.from}) \cup {f \in {m.to} : m.from \in bare}
             ELSE UNCHANGED <<logs, bare>>
       \/ CallFails /\ UNCHANGED <<logs, bare>>
    /\ UNCHANGED <<inserted, usable, cardMounted, steady, holder, rows, pulls>>

AfterRotationRow == "row"
AfterRotation == "empty"

Move == Moved(1, "move1", "move2") \/ Moved(2, "move2", "move3")
        \/ Moved(3, "move3", AfterRotation)

\* append_line(): the line, nothing, or the beginning of it.  A short line is written out
\* by fclose(), whose result is not looked at: a line that is not there may be reported
\* written.
Appended(t, line, ok) ==
    \/ ok /\ CallWorks /\ logs' = [logs EXCEPT ![t] = Append(@, line)]
    \/ CallFails /\ UNCHANGED logs
    \/ /\ ~ok /\ inserted /\ usable /\ cardMounted /\ CallFails
       /\ logs' = [logs EXCEPT ![t] = Append(@, Torn)]

\* Without a header that is reported written no row is.
WriteHeader(t) ==
    /\ logJob[t] = "header"
    /\ \E ok \in BOOLEAN :
          /\ Appended(t, Header, ok)
          /\ IF ok THEN Goes(t, "row") /\ UNCHANGED holder ELSE Done(t)
          /\ bare' = IF logs[t] # <<>> THEN bare
                     ELSE IF ok /\ logs'[t] = <<>> THEN bare \cup {t} ELSE bare \ {t}
    /\ UNCHANGED <<inserted, usable, cardMounted, steady, rows, pulls>>

WriteRow(t) ==
    /\ logJob[t] = "row"
    /\ \E ok \in BOOLEAN : Appended(t, rows, ok)
    /\ Done(t)
    /\ UNCHANGED <<inserted, usable, bare, cardMounted, steady, rows, pulls>>

CardNext ==
    \/ Push \/ Pull \/ PowerLoss \/ Sample \/ Size \/ Remove \/ Move
    \/ \E t \in Loggers : Log(t) \/ Locked(t) \/ LooksEmpty(t) \/ WriteHeader(t) \/ WriteRow(t)

CardSpec == CardInit /\ [][CardNext]_sdVars
-----------------------------------------------------------------------------
RowsOf(f) == {logs[f][n] : n \in {m \in 1..Len(logs[f]) : logs[f][m] > Header}}
Older(f, g) == \A a \in RowsOf(f), b \in RowsOf(g) : a <= b

\* Whatever fails, and whenever the card or the power goes, a file begins with its header
\* or what is left of one, unless that header was reported written and lost; and every
\* generation is older than the next (sd_card.c: append_line, sd_card_log_energy_csv,
\* energy_rotate_generations).
LogReadsInOrder ==
    /\ \A f \in Files : logs[f] # <<>> => logs[f][1] \in {Header, Torn} \/ f \in bare
    /\ Older("g3", "g2") /\ Older("g2", "g1") /\ Older("g1", "energy")
=============================================================================
