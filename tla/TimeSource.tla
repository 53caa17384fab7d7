----------------------------- MODULE TimeSource -----------------------------
(***************************************************************************)
(* The wall clock, its quality and the floor kept for it in NVS            *)
(* (main/app/time_source.c, components/ds1307).                            *)
(*                                                                         *)
(* At the start the RTC chip is believed when it reads at least the floor, *)
(* the last epoch stored; otherwise the clock starts from the floor as an  *)
(* estimate and the network is asked.  Later the service tick takes over   *)
(* network time and stores the floor now and then, the portal or console   *)
(* set the clock by hand, and a restart flushes it: three tasks that run   *)
(* the same steps.  The SNTP client has a task of its own that steps the   *)
(* clock as soon as it is answered, whatever becomes of the answer.  Times *)
(* are numbers, 0 being before TIME_SOURCE_EPOCH_MIN; a clock that reads 0 *)
(* stays there.  How often things are due is left open.                    *)
(*                                                                         *)
(* A definition named after the one that follows it is a broken form of it.*)
(***************************************************************************)
EXTENDS Integers

CONSTANTS
    MaxTime,        \* bound: of the clocks
    MaxStarts,      \* bound: restarts
    MaxSets,        \* bound: settings by hand and answers of the network
    MaxClockFaults  \* bound: NVS calls and chip writes that fail

ASSUME TimeSourceAssumption ==
    MaxTime \in Nat \ {0} /\ {MaxStarts, MaxSets, MaxClockFaults} \subseteq Nat

VARIABLES
    clock,          \* of the system, 0 before it is set
    quality,        \* s_quality
    floor,          \* "epoch" in NVS
    chip,           \* what the RTC reads, or Absent, Halted
    asked,          \* s_sync_requested
    sync,           \* "idle", "running" (s_sync_running), "done" (s_sync_done too);
                    \* "stopping" once the service has found it not done and its time
                    \* up, "missed" if it gets done after that
    answer,         \* s_sync_epoch
    clockJob,       \* of each task: what it does with which epoch
    alone,          \* history: tasks that have met no other since they began
    unsure,         \* history: the last write of the floor failed, or was not alone,
                    \* or since then the clock was stepped by an answer that nobody
                    \* takes over, or the start could not read the floor
    silent,         \* history: the start dropped a reading and asked for nothing
    starts, sets, clockFaults

Tasks == {"service", "hand", "flush"}
Times == 0..MaxTime
Absent == -1
Halted == -2
Idle == [at |-> "idle", epoch |-> 0]

history == <<alone, unsure, silent>>
bounds == <<starts, sets, clockFaults>>
timeVars == <<clock, quality, floor, chip, asked, sync, answer, clockJob, history, bounds>>

TimeTypeOK ==
    /\ {clock, floor, answer} \subseteq Times
    /\ quality \in {"U", "E", "S"}
    /\ chip \in Times \cup {Absent, Halted}
    /\ asked \in BOOLEAN /\ sync \in {"idle", "running", "stopping", "done", "missed"}
    /\ clockJob \in [Tasks -> [at : {"idle", "set", "mark", "keep", "store", "adopt"},
                               epoch : Times]]
    /\ alone \subseteq Tasks /\ {unsure, silent} \subseteq BOOLEAN
    /\ starts \in 0..MaxStarts /\ sets \in 0..MaxSets /\ clockFaults \in 0..MaxClockFaults

\* time_source_init(), with a chip that reads c, or does not answer, and a floor that is
\* `known` to it.  A reading that is not behind asks for nothing; time_source_set() may
\* still refuse it as too old, ...
NotBehind(c, known) == c \in Times /\ c >= known
Believed(c, known) == NotBehind(c, known) /\ c # 0

\* ... and then the floor, if there is one, starts the clock.
StartsWith(c, known) ==
    /\ asked' = ~NotBehind(c, known)
    /\ IF Believed(c, known) THEN clock' = c /\ quality' = "S"
       ELSE clock' = known /\ quality' = IF known > 0 THEN "E" ELSE "U"
    /\ UNCHANGED floor \/ (Believed(c, known) /\ floor' = c)      \* NVS may refuse
    /\ silent' = (NotBehind(c, known) /\ ~Believed(c, known))

ClockFault == clockFaults < MaxClockFaults /\ clockFaults' = clockFaults + 1

TimeInit ==
    /\ floor \in {0, 1} /\ chip \in {Absent, Halted}
    /\ clock = floor /\ quality = (IF floor > 0 THEN "E" ELSE "U")
    /\ asked = TRUE /\ silent = FALSE
    /\ sync = "idle" /\ answer = 0 /\ clockJob = [t \in Tasks |-> Idle]
    /\ alone = {} /\ unsure = FALSE /\ starts = 0 /\ sets = 0 /\ clockFaults = 0

\* A restart at any moment; the chip runs on, or its battery is dead.
ClockRestart ==
    /\ starts < MaxStarts /\ starts' = starts + 1
    /\ chip' \in {chip} \cup (IF chip = Absent THEN {} ELSE {0})
    /\ \E c \in {chip', Absent} :
          \/ StartsWith(c, floor) /\ unsure' = FALSE /\ UNCHANGED clockFaults
          \/ StartsWith(c, 0) /\ unsure' = TRUE /\ ClockFault    \* "epoch" is not read
    /\ sync' = "idle" /\ answer' = 0 /\ clockJob' = [t \in Tasks |-> Idle]
    /\ alone' = {}
    /\ UNCHANGED sets

Tick ==
    /\ clock # 0 /\ clock < MaxTime /\ clock' = clock + 1
    /\ chip' = IF chip \in Times /\ chip < MaxTime THEN chip + 1 ELSE chip
    /\ UNCHANGED <<quality, floor, asked, sync, answer, clockJob, history, bounds>>
-----------------------------------------------------------------------------
(* What every task does.                                                   *)

Begin(t, at, epoch) ==
    /\ clockJob[t] = Idle
    /\ clockJob' = [clockJob EXCEPT ![t] = [at |-> at, epoch |-> epoch]]
    /\ alone' = IF \A u \in Tasks : clockJob[u] = Idle THEN {t} ELSE {}

ClockGoes(t, at) == clockJob' = [clockJob EXCEPT ![t].at = at]
Ends(t) == clockJob' = [clockJob EXCEPT ![t] = Idle]

\* time_source_set(): settimeofday(), ...
Set(t) ==
    /\ clockJob[t].at = "set" /\ ClockGoes(t, "mark")
    /\ clock' = clockJob[t].epoch
    /\ UNCHANGED <<quality, floor, chip, asked, sync, answer, history, bounds>>

\* ... the quality under the lock, ...
MarkNoFloor(t) ==
    /\ clockJob[t].at = "mark" /\ Ends(t)
    /\ quality' = "S"
    /\ UNCHANGED <<clock, floor, chip, asked, sync, answer, history, bounds>>

Mark(t) ==
    /\ clockJob[t].at = "mark" /\ ClockGoes(t, "store")
    /\ quality' = "S"
    /\ UNCHANGED <<clock, floor, chip, asked, sync, answer, history, bounds>>

\* ... and time_store_epoch(), without it.  The service that took over network time goes
\* on only if that was stored.
Store(t) ==
    /\ clockJob[t].at \in {"store", "keep"}
    /\ \/ /\ floor' = clockJob[t].epoch /\ unsure' = (t \notin alone) /\ UNCHANGED clockFaults
          /\ IF t = "service" /\ clockJob[t].at = "store" THEN ClockGoes(t, "adopt") ELSE Ends(t)
       \/ ClockFault /\ unsure' = TRUE /\ Ends(t) /\ UNCHANGED floor
    /\ UNCHANGED <<clock, quality, chip, asked, sync, answer, alone, silent, starts,
                   sets>>
-----------------------------------------------------------------------------
(* The service tick: sync_service(), then the floor.                       *)

\* sync_start(), with an address and no portal; how often depends on `asked`.
SyncStart ==
    /\ clockJob["service"] = Idle /\ sync = "idle" /\ sync' = "running"
    /\ UNCHANGED <<clock, quality, floor, chip, asked, answer, clockJob, history, bounds>>

\* The SNTP client steps the clock at once and tells sntp_sync_cb().  Nobody takes over
\* what comes too late, or lies before TIME_SOURCE_EPOCH_MIN.
NetworkAnswers ==
    /\ sync \in {"running", "stopping"}
    /\ sets < MaxSets /\ sets' = sets + 1
    /\ answer' \in Times /\ clock' = answer'
    /\ sync' = IF sync = "running" THEN "done" ELSE "missed"
    /\ IF sync' = "missed" \/ answer' = 0 THEN alone' = {} /\ unsure' = TRUE
       ELSE UNCHANGED <<alone, unsure>>
    /\ UNCHANGED <<quality, floor, chip, asked, clockJob, silent, starts, clockFaults>>

\* s_sync_done is not set and the time is up: sync_finish(FALSE) is called ...
TimeOut ==
    /\ clockJob["service"] = Idle /\ sync = "running" /\ sync' = "stopping"
    /\ UNCHANGED <<clock, quality, floor, chip, asked, answer, clockJob, history, bounds>>

\* ... and stops the client; the next start resets s_sync_done.
StopSync ==
    /\ sync \in {"stopping", "missed"} /\ sync' = "idle"
    /\ UNCHANGED <<clock, quality, floor, chip, asked, answer, clockJob, history, bounds>>

TakeAnswer ==
    /\ sync = "done" /\ sync' = "idle"
    /\ answer # 0 /\ Begin("service", "set", answer)
    /\ UNCHANGED <<clock, quality, floor, chip, asked, answer, unsure, silent, bounds>>

\* time_source_set() refuses, and the request stays.
RefuseAnswer ==
    /\ clockJob["service"] = Idle /\ sync = "done" /\ sync' = "idle"
    /\ answer = 0
    /\ UNCHANGED <<clock, quality, floor, chip, asked, answer, clockJob, history, bounds>>

\* The request is met, and the chip is set for the next cold start.
Adopt ==
    /\ clockJob["service"].at = "adopt" /\ Ends("service")
    /\ asked' = FALSE
    /\ \/ /\ chip' = (IF chip = Absent THEN chip ELSE clockJob["service"].epoch)
          /\ UNCHANGED clockFaults
       \/ chip # Absent /\ ClockFault /\ UNCHANGED chip
    /\ UNCHANGED <<clock, quality, floor, sync, answer, history, starts, sets>>

\* time_source_service(), time_source_flush(): the clock is read, then stored.
Keep(t) ==
    /\ t = "flush" \/ (t = "service" /\ sync \notin {"stopping", "missed"})
    /\ quality # "U"
    /\ Begin(t, "keep", clock)
    /\ UNCHANGED <<clock, quality, floor, chip, asked, sync, answer, unsure, silent,
                   bounds>>
-----------------------------------------------------------------------------
(* The portal and the console.                                             *)

\* time_source_rtc_write(): the chip first, and nothing without it.
HandSet ==
    /\ sets < MaxSets /\ sets' = sets + 1
    /\ chip # Absent
    /\ chip' \in 1..MaxTime
    /\ Begin("hand", "set", chip')
    /\ UNCHANGED <<clock, quality, floor, asked, sync, answer, unsure, silent, starts,
                   clockFaults>>

\* time_source_request_sync()
AskForSync ==
    /\ ~asked /\ asked' = TRUE
    /\ UNCHANGED <<clock, quality, floor, chip, sync, answer, clockJob, history, bounds>>

TimeNext ==
    \/ ClockRestart \/ Tick \/ SyncStart \/ NetworkAnswers \/ TimeOut \/ StopSync
    \/ TakeAnswer \/ RefuseAnswer \/ Adopt \/ HandSet \/ AskForSync
    \/ \E t \in Tasks : Set(t) \/ Mark(t) \/ Store(t) \/ Keep(t)

TimeSpec == TimeInit /\ [][TimeNext]_timeVars
-----------------------------------------------------------------------------
Quiet == sync # "done" /\ \A t \in Tasks : clockJob[t] = Idle

\* The floor is not left ahead of the clock, where it would make the next start reject a
\* chip that is right.  It may be after a write of it that failed or met another task's,
\* an answer of the network that steps the clock and is dropped, or a start that cannot
\* read it, until one task alone writes it again.  And a clock that is not trusted goes on
\* asking the network, except after a start that read a chip before
\* TIME_SOURCE_EPOCH_MIN with no floor (time_source.c: time_source_set,
\* time_source_service, sync_service, time_source_init).
FloorAndTrust ==
    /\ Quiet /\ ~unsure => floor <= clock
    /\ Quiet /\ quality # "S" => asked \/ silent
=============================================================================
