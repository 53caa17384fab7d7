---------------------------- MODULE AlarmManager ----------------------------
(***************************************************************************)
(* Grid alarms (main/app/alarm_manager.c).                                 *)
(*                                                                         *)
(* The metering chip compares; this module writes the thresholds into it,  *)
(* reads its verdicts every poll of the energy task, latches what holds    *)
(* for a confirm window, keeps the incident log on the SD card, and drives *)
(* the relays whose role is "alarm".  The energy task runs apply_ic() and  *)
(* service(); other tasks ask for new thresholds, reset the latch and      *)
(* switch the relays.  s_alarm_mux guards single blocks, not the functions:*)
(* what happens between two blocks is the subject of this model.           *)
(*                                                                         *)
(* A configuration is its version number: what version n enables, waits    *)
(* for and drives is Contents[n].  Calibration moves the gains thresholds  *)
(* are computed from and counts as a new version.  One relay stands for    *)
(* OUT0 and OUT1, one bit of a kind for its phases.                        *)
(*                                                                         *)
(* A definition named after the one that follows it is a broken form of it.*)
(***************************************************************************)
EXTENDS Integers

CONSTANTS
    VBits,      \* verdicts gated by s_v_armed: OV, UV, phase loss, frequency
    OcBits,     \* over-current verdicts, gated by s_oc_anchored
    FatalBits,  \* the WarnOut pin, gated by nothing
    MaxVer,     \* bound: edits of the configuration
    Contents,   \* what each version says
    Period      \* the millisecond clock wraps here (2^32 in the code)

Bits == VBits \cup OcBits \cup FatalBits
Versions == 0..MaxVer
None == -1

ASSUME ClockAssumption == Period \in Nat /\ Period >= 4
ASSUME VersionAssumption ==
    /\ MaxVer \in Nat
    /\ Contents \in [Versions -> [enabled : SUBSET (VBits \cup OcBits),
                                  confirm : 0..(Period - 3), role : BOOLEAN]]

VARIABLES
    cfg,        \* the configuration in RAM
    asked,      \* history: cfg when an apply was last requested
    pending,    \* s_apply_pending
    armed,      \* s_v_armed
    anchored,   \* s_oc_anchored
    cached,     \* the version behind s_en_*, s_confirm_ms and s_out_role
    chip,       \* the versions behind the chip's voltage and current thresholds
    late,       \* history: the last request came while apply_ic() was at work
    pc,         \* where the energy task stands
    copy,       \* the configuration it has copied
    wanted,     \* v_pending in apply_ic()
    writeOi,    \* write_oi in apply_ic()
    now,        \* the clock
    since,      \* s_bit_since
    age,        \* history: time since the run of polls began that all saw the bit,
                \* until it is latched
    polls,      \* history: the polls in that run
    active,     \* s_active
    latched,    \* s_latched
    logged,     \* s_fault_logged
    driven,     \* s_out_driven
    latch,      \* its bit in the expander's output_latch
    relay,      \* the output itself
    pcR,        \* where alarm_manager_reset_latch() stands
    release,    \* d0 in alarm_manager_reset_latch()
    loose,      \* history: the bit was last written by hand, or by a write of the
                \* alarm's own that failed
    crossed     \* history: a reset and the driving of the relay overlapped

limits == <<cfg, asked, pending, armed, anchored, cached, chip, late, copy, wanted, writeOi>>
bitvars == <<now, since, age, polls, active, latched, logged>>
outputs == <<driven, latch, relay, pcR, release, loose, crossed>>
vars == <<limits, pc, bitvars, outputs>>
-----------------------------------------------------------------------------
NotSeen == -1
Applying == {"copy", "begin", "anchor", "write", "noteOc", "note"}
PCs == {"poll", "service", "drive", "drove"} \cup Applying

TypeOK ==
    /\ cfg \in Versions /\ asked \in Versions /\ copy \in Versions
    /\ cached \in Versions \cup {None}
    /\ chip \in [v : Versions \cup {None}, oc : Versions \cup {None}]
    /\ {pending, armed, anchored, late, wanted, writeOi} \subseteq BOOLEAN
    /\ pc \in PCs
    /\ now \in 0..(Period - 1)
    /\ since \in [Bits -> 0..(Period - 1)]
    /\ age \in [Bits -> NotSeen..Period]
    /\ polls \in [Bits -> 0..Period]
    /\ active \subseteq Bits /\ latched \subseteq Bits /\ logged \subseteq Bits
    /\ {driven, latch, relay, release, loose, crossed} \subseteq BOOLEAN
    /\ pcR \in {"idle", "release"}

Init ==
    /\ cfg = 0 /\ asked = 0 /\ copy = 0 /\ cached = None
    /\ chip = [v |-> None, oc |-> None]
    /\ pending = TRUE /\ armed = FALSE /\ anchored = FALSE
    /\ late = FALSE /\ wanted = FALSE /\ writeOi = FALSE
    /\ pc = "poll"
    /\ now = 1
    /\ since = [b \in Bits |-> 0] /\ age = [b \in Bits |-> NotSeen] /\ polls = [b \in Bits |-> 0]
    /\ active = {} /\ latched = {} /\ logged = {}
    /\ driven = FALSE /\ latch = FALSE /\ relay = FALSE
    /\ pcR = "idle" /\ release = FALSE /\ loose = FALSE /\ crossed = FALSE
-----------------------------------------------------------------------------
(* The poll of the energy task.                                            *)

Tick ==
    /\ now' = (now + 1) % Period
    /\ age' = [b \in Bits |-> IF age[b] \in {NotSeen, Period} THEN age[b] ELSE age[b] + 1]

\* Between a request and its thresholds the chip is visited.
AccessPending == pending \/ ~anchored

Poll ==
    /\ pc = "poll"
    /\ Tick
    /\ pc' = IF AccessPending THEN "copy" ELSE "service"
    /\ UNCHANGED <<limits, since, polls, active, latched, logged, outputs>>

\* A poll that reads nothing, or that the portal or a download suppresses.
\* Bound: no such gap lasts as long as the clock's period.
MissedPoll ==
    /\ pc = "poll"
    /\ \A b \in Bits \ latched : age[b] < Period - 2
    /\ Tick
    /\ UNCHANGED <<limits, pc, since, polls, active, latched, logged, outputs>>
-----------------------------------------------------------------------------
(* alarm_manager_apply_ic() and the copy its caller makes.                 *)

CopyConfig ==
    /\ pc = "copy"
    /\ \/ copy' = cfg /\ pc' = "begin"
       \/ copy' = copy /\ pc' = "service"       \* no memory for the copy
    /\ UNCHANGED <<cfg, asked, pending, armed, anchored, cached, chip, late,
                   wanted, writeOi, bitvars, outputs>>

\* apply_ic() returns and its caller frees the copy.
Applied ==
    /\ pc' = "service"
    /\ copy' = 0 /\ wanted' = FALSE /\ writeOi' = FALSE

\* The fast path, unless s_oc_retry_at has passed; else the firmware's own settings
\* move first, whatever becomes of the rest.
ApplyBegin ==
    /\ pc = "begin"
    /\ \/ /\ pending \/ ~anchored
          /\ wanted' = pending /\ cached' = copy /\ pc' = "anchor"
          /\ UNCHANGED <<copy, writeOi>>
       \/ ~pending /\ Applied /\ UNCHANGED cached
    /\ UNCHANGED <<cfg, asked, pending, armed, anchored, chip, late, bitvars, outputs>>

OcEnabled(v) == Contents[v].enabled \cap OcBits # {}

\* No raw reading, or no grid: nothing can be computed.
AnchorFails ==
    /\ pc = "anchor"
    /\ Applied
    /\ UNCHANGED <<cfg, asked, pending, armed, anchored, cached, chip, late, bitvars, outputs>>

\* Two phases have voltage.  The current threshold needs load current, too, and
\* waits for it.
Anchor(load) ==
    /\ pc = "anchor"
    /\ LET oi == OcEnabled(copy) /\ load
       IN  IF wanted \/ oi
           THEN writeOi' = oi /\ pc' = "write" /\ UNCHANGED <<copy, wanted>>
           ELSE Applied
    /\ anchored' = (anchored \/ ~OcEnabled(copy))
    /\ UNCHANGED <<cfg, asked, pending, armed, cached, chip, late, bitvars, outputs>>

WriteThresholds ==
    /\ pc = "write"
    /\ chip' = [v |-> copy, oc |-> IF writeOi THEN copy ELSE chip.oc]
    /\ pc' = "noteOc"
    /\ UNCHANGED <<cfg, asked, pending, armed, anchored, cached, late, copy,
                   wanted, writeOi, bitvars, outputs>>

WriteFails ==
    /\ pc = "write"
    /\ Applied
    /\ UNCHANGED <<cfg, asked, pending, armed, anchored, cached, chip, late, bitvars, outputs>>

\* s_oc_anchored is set outside the lock ...
NoteOc ==
    /\ pc = "noteOc"
    /\ anchored' = (anchored \/ writeOi)
    /\ pc' = "note"
    /\ UNCHANGED <<cfg, asked, pending, armed, cached, chip, late, copy,
                   wanted, writeOi, bitvars, outputs>>

\* ... the rest under it.
Note ==
    /\ pc = "note"
    /\ pending' = FALSE
    /\ armed' = TRUE
    /\ Applied
    /\ UNCHANGED <<cfg, asked, anchored, cached, chip, late, bitvars, outputs>>
-----------------------------------------------------------------------------
(* alarm_manager_service().                                                *)

Enabled == IF cached = None THEN {} ELSE Contents[cached].enabled
Confirm == IF cached = None THEN 0 ELSE Contents[cached].confirm
HasRole == cached # None /\ Contents[cached].role

\* The verdicts that mean something: thresholds of ours behind them, enabled.
Gated(bits) ==
    (IF armed THEN bits \cap VBits \cap Enabled ELSE {})
      \cup (IF anchored THEN bits \cap OcBits \cap Enabled ELSE {})
      \cup (bits \cap FatalBits)

Elapsed(from) == (now - from + Period) % Period

\* Held for the whole confirm window: s_bit_since = 0 means not seen yet.
ConfirmedAtOnce(act) == act
Confirmed(act) == {b \in act : since[b] # 0 /\ Elapsed(since[b]) >= Confirm}

\* An incident ends with the grid condition, not with the latch.
EndedByLatch(act) == logged \ latched
Ended(act) == logged \ act

Evaluate ==
  \E bits \in SUBSET Bits :
    LET act == Gated(bits)
        newly == Confirmed(act) \ latched
    IN  /\ pc = "service"
        /\ active' = act
        /\ latched' = latched \cup newly
        /\ since' = [b \in Bits |-> IF b \notin act THEN 0
                                    ELSE IF since[b] = 0 THEN now ELSE since[b]]
        /\ age' = [b \in Bits |-> IF b \notin act \ latched' THEN NotSeen
                                  ELSE IF age[b] = NotSeen THEN 0 ELSE age[b]]
        /\ polls' = [b \in Bits |-> IF b \notin act \ latched' THEN 0
                                    ELSE IF polls[b] = Period THEN Period ELSE polls[b] + 1]
        /\ logged' = (logged \cup newly) \ Ended(act)
        /\ pc' = IF newly # {} /\ HasRole THEN "drive" ELSE "poll"
        /\ UNCHANGED <<limits, now, outputs>>

\* pcf8574_write_pin(): the bit goes into the latch, and then the latch to the device.
\* It stays in the latch when that transfer fails.
WriteRelay(level, ok) ==
    /\ latch' = level
    /\ relay' = IF ok THEN level ELSE relay

\* s_out_driven is read, the relay switched, and s_out_driven set, with no lock.
Drive ==
    /\ pc = "drive"
    /\ \/ driven /\ pc' = "poll" /\ UNCHANGED <<latch, relay, loose>>
       \/ ~driven /\ WriteRelay(TRUE, TRUE) /\ loose' = FALSE /\ pc' = "drove"
       \/ ~driven /\ WriteRelay(TRUE, FALSE) /\ loose' = TRUE /\ pc' = "poll"
    /\ crossed' = (crossed \/ pcR = "release")
    /\ UNCHANGED <<limits, bitvars, driven, pcR, release>>

Drove ==
    /\ pc = "drove"
    /\ driven' = TRUE
    /\ pc' = "poll"
    /\ UNCHANGED <<limits, bitvars, latch, relay, pcR, release, loose, crossed>>
-----------------------------------------------------------------------------
(* The other tasks.                                                        *)

EditConfig ==
    /\ cfg < MaxVer
    /\ cfg' = cfg + 1
    /\ UNCHANGED <<asked, pending, armed, anchored, cached, chip, late, copy,
                   wanted, writeOi, pc, bitvars, outputs>>

RequestApplyArmed ==
    /\ pending' = TRUE
    /\ asked' = cfg
    /\ late' = (pc \in Applying \ {"copy"})
    /\ UNCHANGED <<cfg, armed, anchored, cached, chip, copy, wanted, writeOi, pc,
                   bitvars, outputs>>

\* alarm_manager_request_apply(), by config_apply() or after a calibration.
RequestApply ==
    /\ pending' = TRUE /\ armed' = FALSE /\ anchored' = FALSE
    /\ asked' = cfg
    /\ late' = (pc \in Applying \ {"copy"})
    /\ UNCHANGED <<cfg, cached, chip, copy, wanted, writeOi, pc, bitvars, outputs>>

\* The locked block of alarm_manager_reset_latch() ...
ResetLatch ==
    /\ pcR = "idle"
    /\ latched' = {}
    /\ since' = [b \in Bits |-> 0]
    /\ age' = [b \in Bits |-> NotSeen] /\ polls' = [b \in Bits |-> 0]
    /\ release' = driven
    /\ driven' = FALSE
    /\ pcR' = "release"
    /\ crossed' = (pc \in {"drive", "drove"})
    /\ UNCHANGED <<limits, pc, now, active, logged, latch, relay, loose>>

ReleaseForgetsToo ==
    /\ pcR = "release"
    /\ pcR' = "idle"
    /\ release' = FALSE /\ driven' = FALSE
    /\ \/ release /\ WriteRelay(FALSE, TRUE) /\ loose' = FALSE
       \/ release /\ WriteRelay(FALSE, FALSE) /\ loose' = TRUE
       \/ ~release /\ UNCHANGED <<latch, relay, loose>>
    /\ UNCHANGED <<limits, pc, bitvars, crossed>>

\* ... and the relay behind it, whose write may fail.
Release ==
    /\ pcR = "release"
    /\ pcR' = "idle"
    /\ release' = FALSE
    /\ \/ release /\ WriteRelay(FALSE, TRUE) /\ loose' = FALSE
       \/ release /\ WriteRelay(FALSE, FALSE) /\ loose' = TRUE
       \/ ~release /\ UNCHANGED <<latch, relay, loose>>
    /\ UNCHANGED <<limits, pc, bitvars, driven, crossed>>

\* By the LCD, a Modbus coil, a data point or MQTT.
SwitchByHand ==
    /\ \E level, ok \in BOOLEAN : WriteRelay(level, ok)
    /\ loose' = TRUE
    /\ UNCHANGED <<limits, pc, bitvars, driven, pcR, release, crossed>>

\* A write of another pin, the other relay's or the reset line of the Ethernet chip,
\* sends the whole latch.
OtherPin ==
    /\ relay' = latch
    /\ UNCHANGED <<limits, pc, bitvars, driven, latch, pcR, release, loose, crossed>>

Next ==
    \/ Poll \/ MissedPoll
    \/ CopyConfig \/ ApplyBegin \/ AnchorFails
    \/ \E load \in BOOLEAN : Anchor(load)
    \/ WriteThresholds \/ WriteFails \/ NoteOc \/ Note
    \/ Evaluate \/ Drive \/ Drove
    \/ EditConfig \/ RequestApply \/ ResetLatch \/ Release \/ SwitchByHand \/ OtherPin

Spec == Init /\ [][Next]_vars
-----------------------------------------------------------------------------
(* Properties.                                                             *)

\* "Disarm both anchors: evaluation stays masked until the new values are really
\* written, so a new limit can never be judged against the old comparator value"
\* (alarm_manager.c:485-488).
StaleLimitsMasked ==
    /\ armed => chip.v >= asked
    /\ anchored /\ OcBits \cap Enabled # {} => chip.oc >= asked

\* The same, but for the two ways there are to lose it.  A request may come while
\* apply_ic() works with a copy of the configuration it made before; and an apply
\* that is due for another reason may take over an edit before it is requested, and
\* with it the over-current alarm that no version before had a threshold for.
StaleLimitsMaskedUnlessLate ==
    ~late =>
      /\ armed => chip.v >= asked
      /\ anchored /\ OcBits \cap Enabled # {} /\ cached <= asked => chip.oc >= asked

\* A bit is latched only after a run of polls, all of which saw it, as long as the
\* confirm window, and after one poll more at the latest - over missed polls, new
\* confirm times, Reset Latch, and the wrap of the millisecond clock onto the value
\* that stands for "not seen".
LatchWindow ==
    [][ pc = "service" /\ pc' # "service" =>
          \A b \in Bits :
            /\ b \in latched' \ latched => age[b] >= Confirm /\ polls[b] > 0
            /\ polls'[b] >= Confirm + 3 => b \in latched' ]_vars

\* "clearing the latch is an operator action on the panel, not a change in the grid,
\* so it must not close an incident" (alarm_manager.c:70-73): an incident that is
\* open in FAULTS.CSV stays open as long as the alarm is active, and is closed by
\* the poll that finds it gone, whatever was reset in between.
OpenIncidents ==
    /\ [](logged \subseteq active)
    /\ [][ logged \cap active' \subseteq logged' ]_vars

\* A relay that is ON because of the alarm is one that the next Reset Latch switches
\* OFF (alarm_manager.c:443-478), however resets and the driving of the relay overlap:
\* none is left ON that nobody answers for.  And where they did not overlap since the
\* last reset, an alarm that answers for a relay is latched and its relay is ON.  Not
\* so while the bit in the latch is the operator's, or that of a failed write.
RelayFollowsLatch ==
    pc # "drove" /\ pcR = "idle" /\ ~loose
      => /\ relay => driven
         /\ driven /\ ~crossed => relay /\ latched # {}
=============================================================================
