----------------------------- MODULE ConfigStore -----------------------------
(***************************************************************************)
(* The Configuration Manager and its store (main/app/config_manager.c,     *)
(* components/config_store/config_store.c).                                *)
(*                                                                         *)
(* The configuration lives in RAM (s_cfg, under s_lock) and twice in NVS:  *)
(* one full snapshot, and one blob per legacy domain (system, network,     *)
(* external meter) with the fields that domain used to own.  A boot reads  *)
(* the snapshot and lays the legacy blobs over it, so a save first merges  *)
(* the copy it took of RAM with each legacy blob, three ways against a     *)
(* shadow of the last load or save (s_legacy, under no lock), then writes  *)
(* the snapshot, then publishes the merged copy in RAM and moves the       *)
(* shadow.                                                                 *)
(*                                                                         *)
(* The fields of one domain are merged one by one against the same shadow  *)
(* and pushed in one blob: one field stands for them.  "own" stands for    *)
(* the fields no legacy domain has.                                        *)
(*                                                                         *)
(* A definition named after the one that follows it (GetNoDefault before   *)
(* Get) is a broken form of it, put in its place to see a property fail.   *)
(***************************************************************************)
CONSTANTS
    Tasks,          \* the tasks that edit and save: LCD, console, portal, Modbus
    Values,         \* the values of a field
    Default,        \* its factory value
    NoBlob,         \* a blob that is missing from NVS
    Overlap,        \* TRUE: two tasks may be editing or saving at once
    LegacyMayFail,  \* TRUE: a write of a legacy blob may fail
    SnapMayFail,    \* TRUE: a write of the snapshot may fail, once between
                    \* two saves that succeed
    EraseMayFail,   \* TRUE: the erase of a namespace may fail
    ResetMayBeCut   \* TRUE: power may go in the middle of a factory reset

ASSUME ValueAssumption == Default \in Values /\ NoBlob \notin Values
ASSUME FlagAssumption ==
    {Overlap, LegacyMayFail, SnapMayFail, EraseMayFail, ResetMayBeCut} \subseteq BOOLEAN

VARIABLES
    ram,        \* s_cfg
    shadow,     \* s_legacy
    legacy,     \* the legacy domain blobs in NVS
    snap,       \* the snapshot blob in NVS
    pc,         \* where each task stands
    tmp,        \* the heap copy each task works on
    asked,      \* history: the copy each task's save started from
    failed      \* history: the copies of saves that failed since one succeeded

vars == <<ram, shadow, legacy, snap, pc, tmp, asked, failed>>
-----------------------------------------------------------------------------
Domains == {"sys", "net", "ext"}
Fields == Domains \cup {"own"}
Config == [Fields -> Values]
ASSUME BlobAssumption == NoBlob \notin Config
Factory == [f \in Fields |-> Default]

\* What a getter of config_store.c hands out: a missing blob reads as defaults.
GetNoDefault(d) == legacy[d]
Get(d) == IF legacy[d] = NoBlob THEN Default ELSE legacy[d]

\* config_manager_load(): the snapshot, or defaults, with the legacy blobs that
\* exist laid over it.
LoadedFrom(sn, lg) ==
    [f \in Fields |->
        IF f \in Domains /\ lg[f] # NoBlob THEN lg[f]
        ELSE IF sn # NoBlob THEN sn[f] ELSE Default]

\* What the next boot would load.
Stored == LoadedFrom(snap, legacy)

\* A save visits system, network and external meter, in this order, and then
\* writes the snapshot.
MergePoints == {"sys", "net", "ext"}
AfterMerge(d) == CASE d = "sys" -> "net" [] d = "net" -> "ext" [] d = "ext" -> "snap"

\* A reset erases network, MQTT, system, external meter and snapshot; the MQTT
\* namespace holds nothing the configuration reads.
ErasePoints == {"eraseNet", "eraseSys", "eraseExt", "eraseSnap"}
Erased(p) ==
    CASE p = "eraseNet" -> "net" [] p = "eraseSys" -> "sys"
      [] p = "eraseExt" -> "ext" [] p = "eraseSnap" -> "snap"
AfterEraseNoSnap(p) ==
    CASE p = "eraseNet" -> "eraseSys" [] p = "eraseSys" -> "eraseExt"
      [] p = "eraseExt" -> "reload" [] p = "eraseSnap" -> "reload"
AfterErase(p) ==
    CASE p = "eraseNet" -> "eraseSys" [] p = "eraseSys" -> "eraseExt"
      [] p = "eraseExt" -> "eraseSnap" [] p = "eraseSnap" -> "reload"

Saving == {"copy", "snap", "publish", "shadow"} \cup MergePoints
             \cup {"pushSys", "pushNet", "pushExt"}
PushPoint(d) == CASE d = "sys" -> "pushSys" [] d = "net" -> "pushNet" [] d = "ext" -> "pushExt"
Resetting == ErasePoints \cup {"reload"}
PCs == {"idle", "edit"} \cup Saving \cup Resetting

TypeOK ==
    /\ ram \in Config
    /\ shadow \in [Domains -> Values]
    /\ legacy \in [Domains -> Values \cup {NoBlob}]
    /\ snap \in Config \cup {NoBlob}
    /\ pc \in [Tasks -> PCs]
    /\ tmp \in [Tasks -> Config]
    /\ asked \in [Tasks -> Config]
    /\ failed \in SUBSET Config

\* A device fresh from the factory has booted once: nothing in NVS.
Init ==
    /\ ram = Factory
    /\ shadow = [d \in Domains |-> Default]
    /\ legacy = [d \in Domains |-> NoBlob]
    /\ snap = NoBlob
    /\ pc = [t \in Tasks |-> "idle"]
    /\ tmp = [t \in Tasks |-> Factory]
    /\ asked = [t \in Tasks |-> Factory]
    /\ failed = {}

Goto(t, p) == pc' = [pc EXCEPT ![t] = p]

\* The operation is over and its heap copy freed.
Return(t) ==
    /\ Goto(t, "idle")
    /\ tmp' = [tmp EXCEPT ![t] = Factory]
    /\ asked' = [asked EXCEPT ![t] = Factory]

\* The scenario bound Overlap: may t start anything now?
MayStart(t) == pc[t] = "idle" /\ (Overlap \/ \A u \in Tasks : pc[u] = "idle")
-----------------------------------------------------------------------------
(* Editing: config_manager_get(), change fields, config_manager_update().  *)

GetConfig(t) ==
    /\ MayStart(t)
    /\ tmp' = [tmp EXCEPT ![t] = ram]
    /\ Goto(t, "edit")
    /\ UNCHANGED <<ram, shadow, legacy, snap, asked, failed>>

UpdateConfig(t) ==
    /\ pc[t] = "edit"
    /\ \E f \in Fields, v \in Values : ram' = [tmp[t] EXCEPT ![f] = v]
    /\ Return(t)
    /\ UNCHANGED <<shadow, legacy, snap, failed>>
-----------------------------------------------------------------------------
(* config_manager_save().                                                  *)

BeginSave(t) ==
    /\ MayStart(t)
    /\ Goto(t, "copy")
    /\ UNCHANGED <<ram, shadow, legacy, snap, tmp, asked, failed>>

CopyConfig(t) ==
    /\ pc[t] = "copy"
    /\ tmp' = [tmp EXCEPT ![t] = ram]
    /\ asked' = [asked EXCEPT ![t] = ram]
    /\ Goto(t, "sys")
    /\ UNCHANGED <<ram, shadow, legacy, snap, failed>>

\* merge_str() and its like: a legacy value that moved away from the shadow wins,
\* otherwise a value that moved in RAM has to be pushed into the legacy blob.
MergeDomainNoPush(t) ==
    \E d \in MergePoints :
        /\ pc[t] = d
        /\ tmp' = [tmp EXCEPT ![t][d] = IF Get(d) # shadow[d] THEN Get(d) ELSE @]
        /\ Goto(t, AfterMerge(d))
        /\ UNCHANGED <<ram, shadow, legacy, snap, asked, failed>>
MergeDomain(t) ==
    \E d \in MergePoints :
        /\ pc[t] = d
        /\ IF Get(d) # shadow[d]
           THEN /\ tmp' = [tmp EXCEPT ![t][d] = Get(d)]
                /\ Goto(t, AfterMerge(d))
           ELSE /\ tmp' = tmp
                /\ Goto(t, IF tmp[t][d] # shadow[d] THEN PushPoint(d) ELSE AfterMerge(d))
        /\ UNCHANGED <<ram, shadow, legacy, snap, asked, failed>>

\* A push that fails is logged and the save goes on.
PushDomain(t) ==
    \E d \in Domains :
        /\ pc[t] = PushPoint(d)
        /\ \/ legacy' = [legacy EXCEPT ![d] = tmp[t][d]]
           \/ LegacyMayFail /\ legacy' = legacy
        /\ Goto(t, AfterMerge(d))
        /\ UNCHANGED <<ram, shadow, snap, tmp, asked, failed>>

WriteSnapshot(t) ==
    /\ pc[t] = "snap"
    /\ snap' = tmp[t]
    /\ Goto(t, "publish")
    /\ UNCHANGED <<ram, shadow, legacy, tmp, asked, failed>>

\* The save returns an error and leaves RAM and the shadow as they are.
SnapshotFails(t) ==
    /\ pc[t] = "snap"
    /\ SnapMayFail /\ failed = {}
    /\ failed' = {asked[t]}
    /\ Return(t)
    /\ UNCHANGED <<ram, shadow, legacy, snap>>

PublishMerged(t) ==
    /\ pc[t] = "publish"
    /\ ram' = tmp[t]
    /\ Goto(t, "shadow")
    /\ UNCHANGED <<shadow, legacy, snap, tmp, asked, failed>>

\* legacy_shadow_store(), outside the lock; the save returns ESP_OK.
MoveShadowNot(t) ==
    /\ pc[t] = "shadow"
    /\ failed' = {}
    /\ Return(t)
    /\ UNCHANGED <<ram, shadow, legacy, snap>>
MoveShadow(t) ==
    /\ pc[t] = "shadow"
    /\ shadow' = [d \in Domains |-> tmp[t][d]]
    /\ failed' = {}
    /\ Return(t)
    /\ UNCHANGED <<ram, legacy, snap>>
-----------------------------------------------------------------------------
(* config_manager_factory_reset().                                         *)

BeginReset(t) ==
    /\ MayStart(t)
    /\ Goto(t, "eraseNet")
    /\ UNCHANGED <<ram, shadow, legacy, snap, tmp, asked, failed>>

\* One namespace; an erase that fails is reported at the end, the next is tried.
EraseNamespace(t) ==
    \E p \in ErasePoints :
        /\ pc[t] = p
        /\ \/ IF p = "eraseSnap"
              THEN snap' = NoBlob /\ legacy' = legacy
              ELSE legacy' = [legacy EXCEPT ![Erased(p)] = NoBlob] /\ snap' = snap
           \/ EraseMayFail /\ UNCHANGED <<legacy, snap>>
        /\ Goto(t, AfterErase(p))
        /\ UNCHANGED <<ram, shadow, tmp, asked, failed>>

Reload(t) ==
    /\ pc[t] = "reload"
    /\ ram' = Stored
    /\ shadow' = [d \in Domains |-> Stored[d]]
    /\ failed' = {}
    /\ Return(t)
    /\ UNCHANGED <<legacy, snap>>
-----------------------------------------------------------------------------
\* Any restart of the device: a boot loads the configuration before any task runs.
PowerCut ==
    /\ ResetMayBeCut \/ \A t \in Tasks : pc[t] \notin Resetting
    /\ ram' = Stored
    /\ shadow' = [d \in Domains |-> Stored[d]]
    /\ pc' = [t \in Tasks |-> "idle"]
    /\ tmp' = [t \in Tasks |-> Factory]
    /\ asked' = [t \in Tasks |-> Factory]
    /\ failed' = {}
    /\ UNCHANGED <<legacy, snap>>

Next ==
    \/ \E t \in Tasks : GetConfig(t)
    \/ \E t \in Tasks : UpdateConfig(t)
    \/ \E t \in Tasks : BeginSave(t)
    \/ \E t \in Tasks : CopyConfig(t)
    \/ \E t \in Tasks : MergeDomain(t)
    \/ \E t \in Tasks : PushDomain(t)
    \/ \E t \in Tasks : WriteSnapshot(t)
    \/ \E t \in Tasks : SnapshotFails(t)
    \/ \E t \in Tasks : PublishMerged(t)
    \/ \E t \in Tasks : MoveShadow(t)
    \/ \E t \in Tasks : BeginReset(t)
    \/ \E t \in Tasks : EraseNamespace(t)
    \/ \E t \in Tasks : Reload(t)
    \/ PowerCut

Spec == Init /\ [][Next]_vars
-----------------------------------------------------------------------------
(* Properties.                                                             *)

Idle == \A t \in Tasks : pc[t] \in {"idle", "edit"}

\* "Pushing here keeps both copies equal" (config_manager.c:728-730): between two
\* operations the shadow, each legacy blob that exists, and what a boot would
\* load agree, so that the next merge takes no value for a foreign writer's -
\* unless the last save failed.
ShadowAgrees ==
    Idle /\ failed = {} => \A d \in Domains : shadow[d] = Get(d) /\ shadow[d] = Stored[d]

\* "the write -> save -> reboot -> read chain" (config_manager.c:725-730): when
\* config_manager_save() returns ESP_OK, a boot would load exactly the
\* configuration the save started from; and a save that failed may be tried
\* again, as long as nothing was edited in between.
RetryIsStored ==
    [][ \A t \in Tasks :
          pc[t] = "shadow" /\ pc'[t] = "idle" /\ failed \subseteq {asked[t]}
            => Stored' = asked[t] ]_vars

\* The two copies in NVS, the shadow and the merge behave as one cell per field:
\* a save stores each field of the copy it took and no other value, a power cut
\* leaves each field old or new, a reset leaves factory values only.
Want == {asked[t] : t \in {u \in Tasks : pc[u] \in Saving \ {"copy"}}}
Cells == INSTANCE FieldCells
            WITH Field <- Fields, Value <- Values, live <- ram, want <- Want,
                 residue <- failed, erasing <- (\E t \in Tasks : pc[t] \in Resetting), cell <- Stored
FieldByField == Cells!CellsSpec
=============================================================================
