----------------------------- MODULE OtaManager -----------------------------
(***************************************************************************)
(* Firmware update (main/app/ota_manager.c).                               *)
(*                                                                         *)
(* Any task may ask for a version check, a download or a list of releases; *)
(* each runs on a worker task of its own, and s_busy lets one in at a time.*)
(* The worker leaves its outcome in s_state, which the LCD and the console *)
(* poll, and which the metering and communication tasks pause on while it  *)
(* is DOWNLOADING.  A new image goes to the spare application slot, boots  *)
(* on probation, and commits itself once it has been up for a minute with  *)
(* the metering chip answering; a reset before that brings the old image   *)
(* back.                                                                   *)
(*                                                                         *)
(* The slots, the bootloader and esp_ota_* are the platform's: they are    *)
(* modelled from what the code relies on.  Version texts are numbers that  *)
(* compare as ota_manager_version_compare() does.  URLs, the release a     *)
(* check found and the percentage are data no step depends on: a server    *)
(* may send any image for any URL.                                         *)
(*                                                                         *)
(* A definition named after the one that follows it (SpawnUnguarded before *)
(* Spawn) is a broken form of it, put in its place to see a property fail. *)
(***************************************************************************)
EXTENDS Integers, FiniteSets

CONSTANTS
    Callers,        \* the tasks that ask: LCD, console, web portal, MQTT
    Versions,       \* versions an image may carry
    Flashed,        \* the version flashed over USB
    MayLackMemory,  \* TRUE: xTaskCreate() or malloc() may fail
    TimerMayFail    \* TRUE: the self-test timer may not be created or started

ASSUME VersionAssumption == Versions \subseteq Nat \ {0} /\ Flashed \in Versions
ASSUME OtaFlagAssumption == MayLackMemory \in BOOLEAN /\ TimerMayFail \in BOOLEAN

VARIABLES
    state,      \* s_state
    err,        \* s_err is not empty
    busy,       \* s_busy
    req,        \* s_req
    pc,         \* where each caller, and then the worker it made, stands
    image,      \* the version in the descriptor a worker has read
    pending,    \* s_pending_verify
    timer,      \* the self-test timer
    mature,     \* the uptime has reached CONFIG_APP_OTA_SELFTEST_DELAY_S
    ready,      \* the ATM90 entry of system_status
    up,         \* ota_manager_init() has run
    slot,       \* the two application slots and their otadata entries
    boot,       \* the slot otadata selects
    running     \* the slot that runs

worker == <<state, err, busy, req, pc, image>>
probation == <<pending, timer, mature, ready, up>>
flash == <<slot, boot, running>>
vars == <<worker, probation, flash>>
-----------------------------------------------------------------------------
NoImage == 0
Slots == {"ota_0", "ota_1"}
Other(s) == CHOOSE x \in Slots : x # s
Image == [ver : {NoImage}, st : {"empty"}]
             \cup [ver : Versions, st : {"new", "pending", "valid", "aborted", "invalid"}]
\* The entry of slot s in otadata changes its state.
Mark(sl, s, st) == [sl EXCEPT ![s] = [ver |-> sl[s].ver, st |-> st]]
Requests == {"CHECK", "UPDATE", "UPDATE_VERSION"}

PCs == {"idle", "create", "create list", "no memory", "list", "check", "manifest",
        "prepare", "connect", "begin", "perform", "finish", "announce", "reboot", "done"}

\* A worker is writing the spare slot.
Streaming(t) == pc[t] = "perform"

TypeOK ==
    /\ state \in {"IDLE", "CHECKING", "CHECK_DONE", "DOWNLOADING", "REBOOT_PENDING", "FAILED"}
    /\ {err, busy, pending, mature, ready, up} \subseteq BOOLEAN
    /\ req \in Requests
    /\ pc \in [Callers -> PCs]
    /\ image \in [Callers -> Versions \cup {NoImage}]
    /\ timer \in {"none", "running", "failed"}
    /\ slot \in [Slots -> Image]
    /\ boot \in Slots /\ running \in Slots

\* The statics of a device that has just booted.
Init ==
    /\ state = "IDLE" /\ err = FALSE /\ busy = FALSE /\ req = "CHECK"
    /\ pc = [t \in Callers |-> "idle"]
    /\ image = [t \in Callers |-> NoImage]
    /\ pending = FALSE /\ timer = "none" /\ mature = FALSE /\ ready = FALSE /\ up = FALSE
    /\ slot = [s \in Slots |-> IF s = "ota_0" THEN [ver |-> Flashed, st |-> "valid"]
                               ELSE [ver |-> NoImage, st |-> "empty"]]
    /\ boot = "ota_0" /\ running = "ota_0"

Goto(t, p) == pc' = [pc EXCEPT ![t] = p]
-----------------------------------------------------------------------------
(* Asking.  The code answers a caller that finds s_busy with an error and  *)
(* changes nothing.                                                        *)

\* The locked half of spawn().
SpawnUnguarded(t) ==
    /\ up /\ pc[t] = "idle"
    /\ \E r \in Requests :
        /\ req' = r
        /\ state' = IF r = "UPDATE" THEN "DOWNLOADING" ELSE "CHECKING"
    /\ busy' = TRUE
    /\ err' = FALSE
    /\ Goto(t, "create")
    /\ UNCHANGED <<image, probation, flash>>
Spawn(t) ==
    /\ up /\ pc[t] = "idle"
    /\ ~busy
    /\ \E r \in Requests :
        /\ req' = r
        /\ state' = IF r = "UPDATE" THEN "DOWNLOADING" ELSE "CHECKING"
    /\ busy' = TRUE
    /\ err' = FALSE
    /\ Goto(t, "create")
    /\ UNCHANGED <<image, probation, flash>>

\* The locked half of ota_manager_request_list().
RequestList(t) ==
    /\ up /\ pc[t] = "idle"
    /\ ~busy
    /\ busy' = TRUE
    /\ err' = FALSE
    /\ Goto(t, "create list")
    /\ UNCHANGED <<state, req, image, probation, flash>>

\* xTaskCreate(): the worker takes its orders from s_req.
CreateWorker(t) ==
    /\ pc[t] = "create"
    /\ Goto(t, CASE req = "CHECK" -> "check" [] req = "UPDATE_VERSION" -> "manifest"
                 [] req = "UPDATE" -> "prepare")
    /\ UNCHANGED <<state, err, busy, req, image, probation, flash>>

CreateList(t) ==
    /\ pc[t] = "create list"
    /\ Goto(t, "list")
    /\ UNCHANGED <<state, err, busy, req, image, probation, flash>>

\* No task: s_busy is cleared in one locked section ...
CreateFails(t) ==
    /\ MayLackMemory
    /\ pc[t] \in {"create", "create list"}
    /\ busy' = FALSE
    /\ Goto(t, IF pc[t] = "create" THEN "no memory" ELSE "idle")
    /\ UNCHANGED <<state, err, req, image, probation, flash>>

\* ... and the failure is reported in another.
ReportNoMemory(t) ==
    /\ pc[t] = "no memory"
    /\ state' = "FAILED" /\ err' = TRUE
    /\ Goto(t, "idle")
    /\ UNCHANGED <<busy, req, image, probation, flash>>
-----------------------------------------------------------------------------
(* The worker.                                                             *)

\* set_failed(), for any of the reasons do_check(), do_update_version() and
\* do_update() have up to the end of the image.
FailSilently(t) ==
    /\ pc[t] \in {"check", "manifest", "prepare", "connect", "begin", "perform", "finish"}
    /\ Goto(t, "done")
    /\ UNCHANGED <<state, err, busy, req, image, probation, flash>>
Fail(t) ==
    /\ pc[t] \in {"check", "manifest", "prepare", "connect", "begin", "perform", "finish"}
    /\ state' = "FAILED" /\ err' = TRUE
    /\ Goto(t, "done")
    /\ UNCHANGED <<busy, req, image, probation, flash>>

\* do_check() has read a manifest.
CheckDone(t) ==
    /\ pc[t] = "check"
    /\ state' = "CHECK_DONE"
    /\ Goto(t, "done")
    /\ UNCHANGED <<err, busy, req, image, probation, flash>>

\* do_update_version(): the manifest of the release that was asked for, naming
\* it and a version that does not run.
ManifestFits(t) ==
    /\ pc[t] = "manifest"
    /\ Goto(t, "prepare")
    /\ UNCHANGED <<state, err, busy, req, image, probation, flash>>

\* do_update() has found the network.
StartDownload(t) ==
    /\ pc[t] = "prepare"
    /\ state' = "DOWNLOADING"
    /\ Goto(t, "connect")
    /\ UNCHANGED <<err, busy, req, image, probation, flash>>

\* esp_https_ota_begin() and esp_https_ota_get_img_desc(): the server may send
\* any image, and the descriptor in it must not name the version that runs.
ReadDescriptorUnchecked(t) ==
    /\ pc[t] = "connect"
    /\ \E v \in Versions : image' = [image EXCEPT ![t] = v]
    /\ Goto(t, "begin")
    /\ UNCHANGED <<state, err, busy, req, probation, flash>>
ReadDescriptor(t) ==
    /\ pc[t] = "connect"
    /\ \E v \in Versions \ {slot[running].ver} : image' = [image EXCEPT ![t] = v]
    /\ Goto(t, "begin")
    /\ UNCHANGED <<state, err, busy, req, probation, flash>>

\* The first esp_https_ota_perform(): the platform refuses while the running
\* image is on probation, and else erases the spare slot.
EraseSpare(t) ==
    /\ pc[t] = "begin"
    /\ slot[running].st # "pending"
    /\ slot' = [slot EXCEPT ![Other(running)] = [ver |-> NoImage, st |-> "empty"]]
    /\ Goto(t, "perform")
    /\ UNCHANGED <<state, err, busy, req, image, probation, boot, running>>

\* The loop over esp_https_ota_perform() ends with the whole image received.
TransferDone(t) ==
    /\ pc[t] = "perform"
    /\ Goto(t, "finish")
    /\ UNCHANGED <<state, err, busy, req, image, probation, flash>>

\* esp_https_ota_finish(): the image is valid and the boot partition flipped.
Install(t) ==
    /\ pc[t] = "finish"
    /\ slot' = [slot EXCEPT ![Other(running)] = [ver |-> image[t], st |-> "new"]]
    /\ boot' = Other(running)
    /\ Goto(t, "announce")
    /\ UNCHANGED <<state, err, busy, req, image, probation, running>>

Announce(t) ==
    /\ pc[t] = "announce"
    /\ state' = "REBOOT_PENDING"
    /\ Goto(t, "reboot")
    /\ UNCHANGED <<err, busy, req, image, probation, flash>>

\* fetch_tags(): the outcome goes to the caller's buffer alone.
ListDone(t) ==
    /\ pc[t] = "list"
    /\ Goto(t, "done")
    /\ UNCHANGED <<state, err, busy, req, image, probation, flash>>

\* The last lines of ota_task() and list_task().
WorkerEnds(t) ==
    /\ pc[t] = "done"
    /\ busy' = FALSE
    /\ image' = [image EXCEPT ![t] = NoImage]
    /\ Goto(t, "idle")
    /\ UNCHANGED <<state, err, req, probation, flash>>
-----------------------------------------------------------------------------
(* Restarts and the bootloader, with CONFIG_BOOTLOADER_APP_ROLLBACK_ENABLE:*)
(* an image that was still on probation is ABORTED, the other slot boots;  *)
(* a new image boots on probation.                                         *)

Boot(sl, b) ==
    LET ended == IF sl[b].st = "pending" THEN Mark(sl, b, "aborted") ELSE sl
        sel == IF ended[b].st \in {"new", "valid"} THEN b ELSE Other(b)
    IN  /\ slot' = IF ended[sel].st = "new" THEN Mark(ended, sel, "pending") ELSE ended
        /\ boot' = sel /\ running' = sel
        /\ state' = "IDLE" /\ err' = FALSE /\ busy' = FALSE /\ req' = "CHECK"
        /\ pc' = [t \in Callers |-> "idle"]
        /\ image' = [t \in Callers |-> NoImage]
        /\ pending' = FALSE /\ timer' = "none" /\ mature' = FALSE /\ ready' = FALSE /\ up' = FALSE

\* Power loss, a crash, or a restart another task asked for.
PowerCut == Boot(slot, boot)

\* esp_restart() after OTA_REBOOT_DELAY_MS.
RestartIntoImage(t) == pc[t] = "reboot" /\ Boot(slot, boot)

\* "ota rollback" on the console; refused unless the other slot is sound.
Rollback ==
    /\ up
    /\ slot[Other(boot)].st = "valid"
    /\ Boot(Mark(slot, boot, "invalid"), boot)
-----------------------------------------------------------------------------
(* Probation.                                                              *)

\* ota_manager_init() with nothing to prove.
InitCommitted ==
    /\ ~up
    /\ slot[running].st # "pending"
    /\ up' = TRUE
    /\ UNCHANGED <<worker, pending, timer, mature, ready, flash>>

InitProbation ==
    /\ ~up
    /\ slot[running].st = "pending"
    /\ pending' = TRUE
    /\ timer' = "running"
    /\ up' = TRUE
    /\ UNCHANGED <<worker, mature, ready, flash>>

\* esp_ota_mark_app_valid_cancel_rollback() acts on the slot otadata selects.
CommitKeepsFlag ==
    /\ slot' = Mark(slot, boot, "valid")
    /\ UNCHANGED <<pending, boot, running>>
Commit ==
    /\ slot' = Mark(slot, boot, "valid")
    /\ pending' = FALSE
    /\ UNCHANGED <<boot, running>>

\* The timer cannot be created: commit at once.
InitNoTimerWaits ==
    /\ ~up /\ TimerMayFail
    /\ slot[running].st = "pending"
    /\ pending' = TRUE
    /\ up' = TRUE
    /\ UNCHANGED <<worker, timer, mature, ready, flash>>
InitNoTimer ==
    /\ ~up /\ TimerMayFail
    /\ slot[running].st = "pending"
    /\ Commit
    /\ up' = TRUE
    /\ UNCHANGED <<worker, timer, mature, ready>>

\* The timer is created and cannot be started, or neither can it be created nor
\* the image committed: nothing but the operator will commit it.
InitTimerNotStarted ==
    /\ ~up /\ TimerMayFail
    /\ slot[running].st = "pending"
    /\ pending' = TRUE
    /\ timer' = "failed"
    /\ up' = TRUE
    /\ UNCHANGED <<worker, mature, ready, flash>>

\* selftest_tick() finds its gate open; a tick that does not changes nothing.
\* ota_manager_mark_valid() stops the timer.
SelfTestTick ==
    /\ up /\ timer = "running" /\ pending
    /\ mature
    /\ ready
    /\ Commit
    /\ timer' = "none"
    /\ UNCHANGED <<worker, mature, ready, up>>

\* "ota confirm" on the console.
Confirm ==
    /\ up /\ pending
    /\ Commit
    /\ timer' = IF timer = "running" THEN "none" ELSE timer
    /\ UNCHANGED <<worker, mature, ready, up>>

\* The minute passes; the energy task publishes what the chip answers.
Mature ==
    /\ up /\ ~mature
    /\ mature' = TRUE
    /\ UNCHANGED <<worker, pending, timer, ready, up, flash>>

MeterStatus ==
    /\ up
    /\ ready' = ~ready
    /\ UNCHANGED <<worker, pending, timer, mature, up, flash>>

Next ==
    \/ \E t \in Callers : Spawn(t)
    \/ \E t \in Callers : RequestList(t)
    \/ \E t \in Callers : CreateWorker(t)
    \/ \E t \in Callers : CreateList(t)
    \/ \E t \in Callers : CreateFails(t)
    \/ \E t \in Callers : ReportNoMemory(t)
    \/ \E t \in Callers : Fail(t)
    \/ \E t \in Callers : CheckDone(t)
    \/ \E t \in Callers : ManifestFits(t)
    \/ \E t \in Callers : StartDownload(t)
    \/ \E t \in Callers : ReadDescriptor(t)
    \/ \E t \in Callers : EraseSpare(t)
    \/ \E t \in Callers : TransferDone(t)
    \/ \E t \in Callers : Install(t)
    \/ \E t \in Callers : Announce(t)
    \/ \E t \in Callers : ListDone(t)
    \/ \E t \in Callers : WorkerEnds(t)
    \/ PowerCut
    \/ \E t \in Callers : RestartIntoImage(t)
    \/ Rollback
    \/ InitCommitted
    \/ InitProbation
    \/ InitNoTimer
    \/ InitTimerNotStarted
    \/ SelfTestTick
    \/ Confirm
    \/ Mature
    \/ MeterStatus

Spec == Init /\ [][Next]_vars

(* Every task and the timer run; a transfer ends, if only by the timeouts   *)
(* of the HTTP client (CONFIG_APP_OTA_HTTP_TIMEOUT_MS).                      *)
WorkerStep(t) ==
    \/ CreateWorker(t) \/ CreateList(t) \/ CreateFails(t) \/ ReportNoMemory(t)
    \/ Fail(t) \/ CheckDone(t) \/ ManifestFits(t) \/ StartDownload(t) \/ ReadDescriptor(t)
    \/ EraseSpare(t) \/ TransferDone(t) \/ Install(t) \/ Announce(t) \/ ListDone(t)
    \/ WorkerEnds(t) \/ RestartIntoImage(t)
Fairness ==
    /\ \A t \in Callers : WF_vars(WorkerStep(t))
    /\ WF_vars(InitCommitted \/ InitProbation \/ InitNoTimer \/ InitTimerNotStarted)
    /\ WF_vars(Mature) /\ WF_vars(SelfTestTick)

FairSpec == Spec /\ Fairness
-----------------------------------------------------------------------------
(* Properties.                                                             *)

\* s_busy is the lock of the worker: a second request finds it taken until the
\* worker of the first is done, also when a worker could not be created.
AtWork(t) == pc[t] \notin {"idle", "no memory"}
OneWorker ==
    /\ \A t, u \in Callers : AtWork(t) /\ AtWork(u) => t = u
    /\ busy <=> \E t \in Callers : AtWork(t)

\* "A new image must prove it works" (ota_manager.h): through any order of
\* requests, restarts, rollbacks and commits the slots behave as one committed
\* image beside which another is tried out, and no power cut leaves the device
\* without an image to boot.
VersionIn(s) == slot[s].ver
InTrial == slot[boot].st \in {"new", "pending"}
Committed == IF InTrial THEN VersionIn(Other(boot)) ELSE VersionIn(boot)
Tried == IF InTrial THEN VersionIn(boot) ELSE NoImage
Spare == IF slot[boot].st = "valid" /\ slot[Other(boot)].st = "valid"
         THEN VersionIn(Other(boot)) ELSE NoImage
Trial == INSTANCE TrialUpdate
            WITH Version <- Versions, None <- NoImage, committed <- Committed,
                 trial <- Tried, spare <- Spare, running <- VersionIn(running)
ImageOnTrial == Trial!TrialSpec

\* s_pending_verify tells the truth once the manager is up: it is what the self
\* test, "ota confirm" and the status reports go by.
ProbationKnown ==
    up => /\ pending <=> slot[running].st = "pending"
          /\ timer = "running" => pending

\* The screens that wait "while CHECKING" and "while DOWNLOADING"
\* (home_screen.c:3773-3778, :3836-3850) and the console that waits while busy
\* are let go: every request comes to an end that shows in s_state.
RequestsEnd == []<>(~busy /\ state \notin {"CHECKING", "DOWNLOADING"})

\* An image that stays up with the metering chip answering is committed, unless
\* its self-test timer could not be started.
HealthyImageCommits == ~<>[](up /\ pending /\ timer # "failed" /\ ready)
=============================================================================
