-------------------------- MODULE OtaManager_proofs --------------------------
(* Proofs about OtaManager, for every value of its constants.              *)
EXTENDS OtaManager, TLAPS

USE DEF PCs
-----------------------------------------------------------------------------
(* The inductive invariant.                                                *)

\* The running image is committed or on probation; one on probation has been
\* selected for booting, beside a committed one.  The selection differs from what
\* runs only between an installation and the restart into it, and then points to
\* a new image of another version.
SlotInv ==
    /\ slot[running].st \in {"valid", "pending"}
    /\ slot[running].st = "pending" => boot = running /\ slot[Other(running)].st = "valid"
    /\ boot # running => /\ slot[running].st = "valid"
                         /\ slot[boot].st = "new"
                         /\ slot[boot].ver # slot[running].ver
                         /\ \E t \in Callers : pc[t] \in {"announce", "reboot"}

\* A worker that writes the spare slot has a committed image behind it, and one that
\* has read a descriptor remembers another version than the one that runs.
WorkerInv ==
    \A t \in Callers :
        /\ pc[t] \in {"perform", "finish"} =>
              slot[running].st = "valid" /\ slot[Other(running)].st = "empty"
        /\ pc[t] \in {"begin", "perform", "finish"} =>
              image[t] \in Versions /\ image[t] # slot[running].ver

\* Nobody asks for anything before ota_manager_init() has run.
DownInv ==
    ~up => /\ \A t \in Callers : pc[t] = "idle"
           /\ pending = FALSE /\ timer = "none"

OtaInv == TypeOK /\ OneWorker /\ SlotInv /\ WorkerInv /\ DownInv /\ ProbationKnown
-----------------------------------------------------------------------------
(* The slots.                                                              *)

LEMMA OtherSlot ==
  ASSUME NEW s \in Slots
  PROVE  /\ Other(s) \in Slots
         /\ Other(s) # s
         /\ \A x \in Slots : x = s \/ x = Other(s)
<1>1. \E x \in Slots : x # s
  BY DEF Slots
<1>2. Other(s) \in Slots /\ Other(s) # s
  BY <1>1 DEF Other
<1> QED BY <1>2 DEF Slots

LEMMA OtherTwice == ASSUME NEW s \in Slots PROVE Other(Other(s)) = s
<1>1. Other(s) \in Slots /\ Other(s) # s
  BY OtherSlot
<1>2. \A x \in Slots : x = Other(s) \/ x = Other(Other(s))
  BY <1>1, OtherSlot
<1> QED BY <1>1, <1>2

\* Any image but an empty one may change its state to any other.
LEMMA MarkSlot ==
  ASSUME NEW sl \in [Slots -> Image], NEW s \in Slots, sl[s].st # "empty",
         NEW st \in {"new", "pending", "valid", "aborted", "invalid"}
  PROVE  /\ Mark(sl, s, st) \in [Slots -> Image]
         /\ Mark(sl, s, st)[s] = [ver |-> sl[s].ver, st |-> st]
         /\ Mark(sl, s, st)[Other(s)] = sl[Other(s)]
<1>1. sl[s] \in Image /\ Other(s) \in Slots /\ Other(s) # s
  BY OtherSlot
<1>2. [ver |-> sl[s].ver, st |-> st] \in Image
  BY <1>1 DEF Image
<1> QED BY <1>1, <1>2 DEF Mark

LEMMA EmptyImage == [ver |-> NoImage, st |-> "empty"] \in Image
  BY DEF Image

LEMMA NewImage == ASSUME NEW v \in Versions PROVE [ver |-> v, st |-> "new"] \in Image
  BY DEF Image
-----------------------------------------------------------------------------
(* The bootloader.                                                         *)

\* What it may find: a committed image selected, or one beside the selected one.
Bootable(sl, b) ==
    /\ sl \in [Slots -> Image] /\ b \in Slots
    /\ sl[b].st # "valid" => /\ sl[b].st \in {"new", "pending", "invalid"}
                             /\ sl[Other(b)].st = "valid"

\* What it makes of it.
LEMMA BootResult ==
  ASSUME NEW sl, NEW b, Bootable(sl, b), Boot(sl, b)
  PROVE  /\ running' = boot'
         /\ sl[b].st = "valid" => slot' = sl /\ boot' = b
         /\ sl[b].st = "new" => slot' = Mark(sl, b, "pending") /\ boot' = b
         /\ sl[b].st = "pending" =>
               slot' = Mark(sl, b, "aborted") /\ boot' = Other(b)
         /\ sl[b].st = "invalid" => slot' = sl /\ boot' = Other(b)
<1>1. Other(b) \in Slots /\ Other(b) # b
  BY OtherSlot DEF Bootable
<1>2. CASE sl[b].st = "pending"
  <2> DEFINE ended == Mark(sl, b, "aborted")
  <2>1. ended[b].st = "aborted" /\ ended[Other(b)].st = "valid"
    <3>1. sl \in [Slots -> Image] /\ b \in Slots /\ sl[b].st # "empty"
      BY <1>2 DEF Bootable
    <3>2. /\ ended[b] = [ver |-> sl[b].ver, st |-> "aborted"]
          /\ ended[Other(b)] = sl[Other(b)]
      BY <3>1, MarkSlot
    <3> QED BY <1>2, <3>2 DEF Bootable
  <2> QED BY <1>2, <2>1 DEF Boot
<1>3. CASE sl[b].st # "pending"
  BY <1>1, <1>3 DEF Boot, Bootable
<1> QED BY <1>2, <1>3

\* A boot restores the invariant.
LEMMA BootInv ==
  ASSUME NEW sl, NEW b, Bootable(sl, b), Boot(sl, b)
  PROVE  OtaInv'
<1>1. b \in Slots /\ Other(b) \in Slots /\ Other(b) # b /\ Other(Other(b)) = b
  BY OtherSlot, OtherTwice DEF Bootable
<1>2. /\ slot' \in [Slots -> Image] /\ boot' \in Slots /\ running' = boot'
      /\ slot'[boot'].st \in {"valid", "pending"}
      /\ slot'[boot'].st = "pending" => slot'[Other(boot')].st = "valid"
  <2>1. CASE sl[b].st = "valid"
    BY <1>1, <2>1, BootResult DEF Bootable
  <2>2. CASE sl[b].st = "new"
    <3> DEFINE sm == Mark(sl, b, "pending")
    <3>1. sl \in [Slots -> Image] /\ sl[b].st # "empty" /\ sl[Other(b)].st = "valid"
      BY <2>2 DEF Bootable
    <3>2. /\ sm \in [Slots -> Image] /\ sm[b] = [ver |-> sl[b].ver, st |-> "pending"]
          /\ sm[Other(b)] = sl[Other(b)]
      BY <1>1, <3>1, MarkSlot
    <3>3. slot' = sm /\ boot' = b /\ running' = boot'
      BY <2>2, BootResult
    <3> HIDE DEF sm
    <3> QED BY <1>1, <3>1, <3>2, <3>3
  <2>3. CASE sl[b].st = "pending"
    <3> DEFINE sm == Mark(sl, b, "aborted")
    <3>1. sl \in [Slots -> Image] /\ sl[b].st # "empty" /\ sl[Other(b)].st = "valid"
      BY <2>3 DEF Bootable
    <3>2. /\ sm \in [Slots -> Image] /\ sm[b] = [ver |-> sl[b].ver, st |-> "aborted"]
          /\ sm[Other(b)] = sl[Other(b)]
      BY <1>1, <3>1, MarkSlot
    <3>3. slot' = sm /\ boot' = Other(b) /\ running' = boot'
      BY <2>3, BootResult
    <3> HIDE DEF sm
    <3> QED BY <1>1, <3>1, <3>2, <3>3
  <2>4. CASE sl[b].st = "invalid"
    BY <1>1, <2>4, BootResult DEF Bootable
  <2> QED BY <2>1, <2>2, <2>3, <2>4 DEF Bootable
<1>3. /\ pc' = [t \in Callers |-> "idle"] /\ image' = [t \in Callers |-> NoImage]
      /\ state' = "IDLE" /\ err' = FALSE /\ busy' = FALSE /\ req' = "CHECK"
      /\ pending' = FALSE /\ timer' = "none" /\ mature' = FALSE /\ ready' = FALSE /\ up' = FALSE
  BY DEF Boot
<1>4. TypeOK'
  BY <1>2, <1>3 DEF TypeOK, Requests
<1>5. OneWorker' /\ DownInv' /\ ProbationKnown' /\ WorkerInv'
  BY <1>3 DEF OneWorker, AtWork, DownInv, ProbationKnown, WorkerInv
<1>6. SlotInv'
  BY <1>2 DEF SlotInv
<1> QED BY <1>4, <1>5, <1>6 DEF OtaInv

\* A power cut finds something bootable, and so does a rollback.
LEMMA AlwaysBootable == ASSUME OtaInv PROVE Bootable(slot, boot)
<1>1. boot \in Slots /\ running \in Slots /\ slot \in [Slots -> Image]
  BY DEF OtaInv, TypeOK
<1>2. boot # running => Other(boot) = running
  BY <1>1, OtherSlot
<1> QED BY <1>1, <1>2 DEF OtaInv, SlotInv, Bootable

LEMMA RollbackBootable ==
  ASSUME OtaInv, slot[Other(boot)].st = "valid"
  PROVE  Bootable(Mark(slot, boot, "invalid"), boot)
<1>1. Bootable(slot, boot)
  BY AlwaysBootable
<1>2. slot[boot].st # "empty" /\ slot \in [Slots -> Image] /\ boot \in Slots
  BY <1>1 DEF Bootable
<1> DEFINE sm == Mark(slot, boot, "invalid")
<1>3. /\ sm \in [Slots -> Image] /\ sm[boot] = [ver |-> slot[boot].ver, st |-> "invalid"]
      /\ sm[Other(boot)] = slot[Other(boot)]
  BY <1>2, MarkSlot
<1> QED BY <1>2, <1>3 DEF Bootable
-----------------------------------------------------------------------------
LEMMA OtaInit == Init => OtaInv
<1> SUFFICES ASSUME Init PROVE OtaInv
  OBVIOUS
<1>1. "ota_0" \in Slots
  BY DEF Slots
<1>2. [ver |-> Flashed, st |-> "valid"] \in Image
  BY VersionAssumption DEF Image
<1>3. slot \in [Slots -> Image] /\ slot["ota_0"].st = "valid"
  BY <1>1, <1>2, EmptyImage DEF Init
<1>4. TypeOK
  BY <1>1, <1>3 DEF Init, TypeOK, Requests
<1>5. SlotInv
  BY <1>3 DEF Init, SlotInv
<1>6. OneWorker /\ WorkerInv /\ DownInv /\ ProbationKnown
  BY DEF Init, OneWorker, AtWork, WorkerInv, DownInv, ProbationKnown
<1> QED BY <1>4, <1>5, <1>6 DEF OtaInv
-----------------------------------------------------------------------------
(* The steps of the workers.                                               *)

\* A worker goes on, and keeps s_busy.
LEMMA StaysAtWork ==
  ASSUME OtaInv, NEW t \in Callers, NEW p \in PCs, AtWork(t),
         p \notin {"idle", "no memory"}, Goto(t, p), busy' = busy
  PROVE  OneWorker' /\ pc' \in [Callers -> PCs]
<1>1. pc \in [Callers -> PCs] /\ OneWorker
  BY DEF OtaInv, TypeOK
<1>2. \A u \in Callers : pc'[u] = IF u = t THEN p ELSE pc[u]
  BY <1>1 DEF Goto
<1>3. \A u \in Callers : AtWork(u)' <=> AtWork(u)
  BY <1>2 DEF AtWork
<1> QED BY <1>1, <1>3 DEF OneWorker, Goto

\* A step of worker t to p that leaves the flash alone and remembers what it should.
LEMMA WorkerGoesOn ==
  ASSUME OtaInv, NEW t \in Callers, NEW p \in PCs, AtWork(t),
         p \notin {"idle", "no memory"}, Goto(t, p), busy' = busy,
         UNCHANGED <<probation, flash>>,
         p \in {"perform", "finish"} => pc[t] \in {"perform", "finish"},
         p \in {"begin", "perform", "finish"} =>
             image'[t] \in Versions /\ image'[t] # slot[running].ver,
         \A u \in Callers \ {t} : image'[u] = image[u],
         pc[t] \in {"announce", "reboot"} => p \in {"announce", "reboot"}
  PROVE  /\ pc' \in [Callers -> PCs]
         /\ OneWorker' /\ SlotInv' /\ WorkerInv' /\ DownInv' /\ ProbationKnown'
<1>1. OneWorker' /\ pc' \in [Callers -> PCs]
  BY StaysAtWork
<1>2. \A u \in Callers : pc'[u] = IF u = t THEN p ELSE pc[u]
  BY DEF OtaInv, TypeOK, Goto
<1>3. slot' = slot /\ boot' = boot /\ running' = running
  BY DEF flash
<1>4. /\ pending' = pending /\ timer' = timer /\ up' = up
      /\ mature' = mature /\ ready' = ready
  BY DEF probation
<1>5. SlotInv'
  BY <1>2, <1>3 DEF OtaInv, SlotInv
<1>6. WorkerInv'
  BY <1>2, <1>3 DEF OtaInv, WorkerInv
<1>7. DownInv'
  BY <1>2, <1>4 DEF OtaInv, DownInv, AtWork
<1>8. ProbationKnown'
  BY <1>3, <1>4 DEF OtaInv, ProbationKnown
<1> QED BY <1>1, <1>5, <1>6, <1>7, <1>8

\* The steps that touch neither the flash nor the number of workers.
LEMMA InvWorker ==
  ASSUME OtaInv, NEW t \in Callers,
         \/ CreateWorker(t) \/ CreateList(t) \/ Fail(t) \/ CheckDone(t) \/ ManifestFits(t)
         \/ StartDownload(t) \/ ReadDescriptor(t) \/ TransferDone(t) \/ Announce(t) \/ ListDone(t)
  PROVE  OtaInv'
<1>1. /\ TypeOK /\ pc \in [Callers -> PCs] /\ image \in [Callers -> Versions \cup {NoImage}]
  BY DEF OtaInv, TypeOK
<1>2. CASE CreateWorker(t)
  <2> DEFINE p == CASE req = "CHECK" -> "check" [] req = "UPDATE_VERSION" -> "manifest"
                    [] req = "UPDATE" -> "prepare"
  <2>1. p \in {"check", "manifest", "prepare"}
    BY <1>1 DEF TypeOK, Requests
  <2>2. Goto(t, p) /\ pc[t] = "create" /\ UNCHANGED <<state, err, busy, req, image, probation, flash>>
    BY <1>2 DEF CreateWorker
  <2> HIDE DEF p
  <2>3. /\ pc' \in [Callers -> PCs]
        /\ OneWorker' /\ SlotInv' /\ WorkerInv' /\ DownInv' /\ ProbationKnown'
    BY <2>1, <2>2, WorkerGoesOn DEF AtWork
  <2>4. TypeOK'
    BY <1>1, <2>2, <2>3 DEF TypeOK, probation, flash
  <2> QED BY <2>3, <2>4 DEF OtaInv
<1>3. CASE CreateList(t)
  <2>1. /\ Goto(t, "list") /\ pc[t] = "create list"
        /\ busy' = busy /\ image' = image /\ UNCHANGED <<probation, flash>>
    BY <1>3 DEF CreateList
  <2>2. /\ pc' \in [Callers -> PCs]
        /\ OneWorker' /\ SlotInv' /\ WorkerInv' /\ DownInv' /\ ProbationKnown'
    BY <2>1, WorkerGoesOn DEF AtWork
  <2>3. TypeOK'
    BY <1>1, <1>3, <2>1, <2>2 DEF CreateList, TypeOK, probation, flash
  <2> QED BY <2>2, <2>3 DEF OtaInv
<1>4. CASE CheckDone(t)
  <2>1. /\ Goto(t, "done") /\ pc[t] = "check"
        /\ busy' = busy /\ image' = image /\ UNCHANGED <<probation, flash>>
    BY <1>4 DEF CheckDone
  <2>2. /\ pc' \in [Callers -> PCs]
        /\ OneWorker' /\ SlotInv' /\ WorkerInv' /\ DownInv' /\ ProbationKnown'
    BY <2>1, WorkerGoesOn DEF AtWork
  <2>3. TypeOK'
    BY <1>1, <1>4, <2>1, <2>2 DEF CheckDone, TypeOK, probation, flash
  <2> QED BY <2>2, <2>3 DEF OtaInv
<1>5. CASE ManifestFits(t)
  <2>1. /\ Goto(t, "prepare") /\ pc[t] = "manifest"
        /\ busy' = busy /\ image' = image /\ UNCHANGED <<probation, flash>>
    BY <1>5 DEF ManifestFits
  <2>2. /\ pc' \in [Callers -> PCs]
        /\ OneWorker' /\ SlotInv' /\ WorkerInv' /\ DownInv' /\ ProbationKnown'
    BY <2>1, WorkerGoesOn DEF AtWork
  <2>3. TypeOK'
    BY <1>1, <1>5, <2>1, <2>2 DEF ManifestFits, TypeOK, probation, flash
  <2> QED BY <2>2, <2>3 DEF OtaInv
<1>6. CASE StartDownload(t)
  <2>1. /\ Goto(t, "connect") /\ pc[t] = "prepare"
        /\ busy' = busy /\ image' = image /\ UNCHANGED <<probation, flash>>
    BY <1>6 DEF StartDownload
  <2>2. /\ pc' \in [Callers -> PCs]
        /\ OneWorker' /\ SlotInv' /\ WorkerInv' /\ DownInv' /\ ProbationKnown'
    BY <2>1, WorkerGoesOn DEF AtWork
  <2>3. TypeOK'
    BY <1>1, <1>6, <2>1, <2>2 DEF StartDownload, TypeOK, probation, flash
  <2> QED BY <2>2, <2>3 DEF OtaInv
<1>7. CASE TransferDone(t)
  <2>1. /\ Goto(t, "finish") /\ pc[t] = "perform"
        /\ busy' = busy /\ image' = image /\ UNCHANGED <<probation, flash>>
    BY <1>7 DEF TransferDone
  <2>2. /\ pc' \in [Callers -> PCs]
        /\ OneWorker' /\ SlotInv' /\ WorkerInv' /\ DownInv' /\ ProbationKnown'
    <3>1. image[t] \in Versions /\ image[t] # slot[running].ver
      BY <2>1 DEF OtaInv, WorkerInv
    <3> QED BY <2>1, <3>1, WorkerGoesOn DEF AtWork
  <2>3. TypeOK'
    BY <1>1, <1>7, <2>1, <2>2 DEF TransferDone, TypeOK, probation, flash
  <2> QED BY <2>2, <2>3 DEF OtaInv
<1>8. CASE Announce(t)
  <2>1. /\ Goto(t, "reboot") /\ pc[t] = "announce"
        /\ busy' = busy /\ image' = image /\ UNCHANGED <<probation, flash>>
    BY <1>8 DEF Announce
  <2>2. /\ pc' \in [Callers -> PCs]
        /\ OneWorker' /\ SlotInv' /\ WorkerInv' /\ DownInv' /\ ProbationKnown'
    BY <2>1, WorkerGoesOn DEF AtWork
  <2>3. TypeOK'
    BY <1>1, <1>8, <2>1, <2>2 DEF Announce, TypeOK, probation, flash
  <2> QED BY <2>2, <2>3 DEF OtaInv
<1>9. CASE ListDone(t)
  <2>1. /\ Goto(t, "done") /\ pc[t] = "list"
        /\ busy' = busy /\ image' = image /\ UNCHANGED <<probation, flash>>
    BY <1>9 DEF ListDone
  <2>2. /\ pc' \in [Callers -> PCs]
        /\ OneWorker' /\ SlotInv' /\ WorkerInv' /\ DownInv' /\ ProbationKnown'
    BY <2>1, WorkerGoesOn DEF AtWork
  <2>3. TypeOK'
    BY <1>1, <1>9, <2>1, <2>2 DEF ListDone, TypeOK, probation, flash
  <2> QED BY <2>2, <2>3 DEF OtaInv
<1>10. CASE Fail(t)
  <2>1. /\ Goto(t, "done") /\ AtWork(t) /\ pc[t] \notin {"announce", "reboot"}
        /\ busy' = busy /\ image' = image /\ UNCHANGED <<probation, flash>>
    BY <1>10 DEF Fail, AtWork
  <2>2. /\ pc' \in [Callers -> PCs]
        /\ OneWorker' /\ SlotInv' /\ WorkerInv' /\ DownInv' /\ ProbationKnown'
    BY <2>1, WorkerGoesOn
  <2>3. TypeOK'
    BY <1>1, <1>10, <2>1, <2>2 DEF Fail, TypeOK, probation, flash
  <2> QED BY <2>2, <2>3 DEF OtaInv
<1>11. CASE ReadDescriptor(t)
  <2>1. PICK v \in Versions \ {slot[running].ver} : image' = [image EXCEPT ![t] = v]
    BY <1>11 DEF ReadDescriptor
  <2>2. /\ Goto(t, "begin") /\ pc[t] = "connect"
        /\ busy' = busy /\ UNCHANGED <<state, err, req>> /\ UNCHANGED <<probation, flash>>
    BY <1>11 DEF ReadDescriptor
  <2>3. /\ image'[t] = v /\ \A u \in Callers \ {t} : image'[u] = image[u]
        /\ image' \in [Callers -> Versions \cup {NoImage}]
    BY <1>1, <2>1
  <2>4. /\ pc' \in [Callers -> PCs]
        /\ OneWorker' /\ SlotInv' /\ WorkerInv' /\ DownInv' /\ ProbationKnown'
    BY <2>2, <2>3, WorkerGoesOn DEF AtWork
  <2>5. TypeOK'
    BY <1>1, <2>2, <2>3, <2>4 DEF TypeOK, probation, flash
  <2> QED BY <2>4, <2>5 DEF OtaInv
<1> QED BY <1>2, <1>3, <1>4, <1>5, <1>6, <1>7, <1>8, <1>9, <1>10, <1>11

\* The two steps that write the spare slot.
LEMMA InvFlash ==
  ASSUME OtaInv, NEW t \in Callers, EraseSpare(t) \/ Install(t)
  PROVE  OtaInv'
<1>1. /\ TypeOK /\ pc \in [Callers -> PCs] /\ slot \in [Slots -> Image] /\ running \in Slots
      /\ Other(running) \in Slots /\ Other(running) # running
  BY OtherSlot DEF OtaInv, TypeOK
<1>2. /\ pc[t] \in {"begin", "perform", "finish"}
      /\ AtWork(t) /\ \A u \in Callers : AtWork(u) => u = t
  BY DEF EraseSpare, Install, AtWork, OtaInv, OneWorker
<1>3. boot = running /\ up /\ image[t] \in Versions /\ image[t] # slot[running].ver
  BY <1>2 DEF OtaInv, SlotInv, DownInv, WorkerInv, AtWork
<1>4. CASE EraseSpare(t)
  <2>1. /\ Goto(t, "perform") /\ busy' = busy /\ image' = image /\ boot' = boot /\ running' = running
        /\ slot[running].st = "valid"
        /\ slot' = [slot EXCEPT ![Other(running)] = [ver |-> NoImage, st |-> "empty"]]
        /\ UNCHANGED <<state, err, req>> /\ UNCHANGED probation
    BY <1>4 DEF EraseSpare, OtaInv, SlotInv
  <2>2. /\ slot' \in [Slots -> Image] /\ slot'[running] = slot[running]
        /\ slot'[Other(running)].st = "empty"
    BY <1>1, <2>1, EmptyImage
  <2>3. OneWorker' /\ pc' \in [Callers -> PCs]
    BY <1>2, <2>1, StaysAtWork
  <2>4. \A u \in Callers : pc'[u] = IF u = t THEN "perform" ELSE pc[u]
    BY <1>1, <2>1 DEF Goto
  <2>5. TypeOK'
    BY <1>1, <2>1, <2>2, <2>3 DEF TypeOK, probation
  <2>6. SlotInv'
    BY <1>3, <2>1, <2>2 DEF SlotInv
  <2>7. WorkerInv'
    BY <1>2, <1>3, <2>1, <2>2, <2>4 DEF WorkerInv, AtWork
  <2>8. DownInv' /\ ProbationKnown'
    BY <1>3, <2>1, <2>2 DEF DownInv, ProbationKnown, probation, OtaInv
  <2> QED BY <2>3, <2>5, <2>6, <2>7, <2>8 DEF OtaInv
<1>5. CASE Install(t)
  <2>1. /\ Goto(t, "announce") /\ busy' = busy /\ image' = image
        /\ boot' = Other(running) /\ running' = running
        /\ slot[running].st = "valid"
        /\ slot' = [slot EXCEPT ![Other(running)] = [ver |-> image[t], st |-> "new"]]
        /\ UNCHANGED <<state, err, req>> /\ UNCHANGED probation
    BY <1>5 DEF Install, OtaInv, WorkerInv
  <2>2. /\ slot' \in [Slots -> Image] /\ slot'[running] = slot[running]
        /\ slot'[Other(running)] = [ver |-> image[t], st |-> "new"]
    BY <1>1, <1>3, <2>1, NewImage
  <2>3. OneWorker' /\ pc' \in [Callers -> PCs]
    BY <1>2, <2>1, StaysAtWork
  <2>4. \A u \in Callers : pc'[u] = IF u = t THEN "announce" ELSE pc[u]
    BY <1>1, <2>1 DEF Goto
  <2>5. TypeOK'
    BY <1>1, <2>1, <2>2, <2>3 DEF TypeOK, probation
  <2>6. SlotInv'
    BY <1>1, <1>3, <2>1, <2>2, <2>4 DEF SlotInv
  <2>7. WorkerInv'
    BY <1>2, <2>4 DEF WorkerInv, AtWork
  <2>8. DownInv' /\ ProbationKnown'
    BY <1>3, <2>1, <2>2 DEF DownInv, ProbationKnown, probation, OtaInv
  <2> QED BY <2>3, <2>5, <2>6, <2>7, <2>8 DEF OtaInv
<1> QED BY <1>4, <1>5
-----------------------------------------------------------------------------
(* Requests come and go.                                                   *)

\* A step of caller t to p, not on the way to or from the flash.
LEMMA AsksOrEnds ==
  ASSUME OtaInv, NEW t \in Callers, NEW p \in PCs, Goto(t, p),
         UNCHANGED <<probation, flash>>,
         up,
         pc[t] \notin {"announce", "reboot"},
         p \notin {"begin", "perform", "finish"},
         \A u \in Callers \ {t} : image'[u] = image[u]
  PROVE  /\ pc' \in [Callers -> PCs]
         /\ pc'[t] = p /\ \A u \in Callers \ {t} : pc'[u] = pc[u]
         /\ SlotInv' /\ WorkerInv' /\ DownInv' /\ ProbationKnown'
<1>1. pc'[t] = p /\ \A u \in Callers \ {t} : pc'[u] = pc[u]
  BY DEF OtaInv, TypeOK, Goto
<1>2. slot' = slot /\ boot' = boot /\ running' = running /\ UNCHANGED probation
  BY DEF flash
<1>3. pc' \in [Callers -> PCs]
  BY DEF OtaInv, TypeOK, Goto
<1>4. SlotInv'
  BY <1>1, <1>2 DEF OtaInv, SlotInv
<1>5. WorkerInv'
  BY <1>1, <1>2 DEF OtaInv, WorkerInv
<1>6. pending' = pending /\ timer' = timer /\ up' = up
  BY DEF probation
<1>7. DownInv'
  BY <1>6 DEF DownInv
<1>8. ProbationKnown'
  BY <1>2, <1>6 DEF OtaInv, ProbationKnown
<1> QED BY <1>1, <1>3, <1>4, <1>5, <1>7, <1>8

LEMMA InvRequest ==
  ASSUME OtaInv, NEW t \in Callers,
         Spawn(t) \/ RequestList(t) \/ CreateFails(t) \/ ReportNoMemory(t) \/ WorkerEnds(t)
  PROVE  OtaInv'
<1>1. /\ TypeOK /\ OneWorker /\ DownInv
      /\ pc \in [Callers -> PCs] /\ image \in [Callers -> Versions \cup {NoImage}]
  BY DEF OtaInv, TypeOK
<1>2. CASE Spawn(t)
  <2>1. /\ Goto(t, "create") /\ pc[t] = "idle" /\ up /\ ~busy /\ busy' = TRUE
        /\ image' = image /\ UNCHANGED <<probation, flash>>
    BY <1>2 DEF Spawn
  <2>2. /\ pc' \in [Callers -> PCs]
        /\ pc'[t] = "create" /\ \A u \in Callers \ {t} : pc'[u] = pc[u]
        /\ SlotInv' /\ WorkerInv' /\ DownInv' /\ ProbationKnown'
    BY <2>1, AsksOrEnds
  <2>3. OneWorker'
    BY <1>1, <2>1, <2>2 DEF OneWorker, AtWork
  <2>4. TypeOK'
    BY <1>1, <1>2, <2>1, <2>2 DEF Spawn, TypeOK, Requests, probation, flash
  <2> QED BY <2>2, <2>3, <2>4 DEF OtaInv
<1>3. CASE RequestList(t)
  <2>1. /\ Goto(t, "create list") /\ pc[t] = "idle" /\ up /\ ~busy /\ busy' = TRUE
        /\ image' = image /\ UNCHANGED <<probation, flash>>
    BY <1>3 DEF RequestList
  <2>2. /\ pc' \in [Callers -> PCs]
        /\ pc'[t] = "create list" /\ \A u \in Callers \ {t} : pc'[u] = pc[u]
        /\ SlotInv' /\ WorkerInv' /\ DownInv' /\ ProbationKnown'
    BY <2>1, AsksOrEnds
  <2>3. OneWorker'
    BY <1>1, <2>1, <2>2 DEF OneWorker, AtWork
  <2>4. TypeOK'
    BY <1>1, <1>3, <2>1, <2>2 DEF RequestList, TypeOK, probation, flash
  <2> QED BY <2>2, <2>3, <2>4 DEF OtaInv
<1>4. CASE CreateFails(t)
  <2> DEFINE p == IF pc[t] = "create" THEN "no memory" ELSE "idle"
  <2>1. /\ Goto(t, p) /\ pc[t] \in {"create", "create list"} /\ busy' = FALSE
        /\ image' = image /\ UNCHANGED <<probation, flash>>
    BY <1>4 DEF CreateFails
  <2>2. p \in {"idle", "no memory"} /\ p \in PCs
    OBVIOUS
  <2> HIDE DEF p
  <2>3. up
    BY <1>1, <2>1 DEF DownInv
  <2>4. /\ pc' \in [Callers -> PCs]
        /\ pc'[t] = p /\ \A u \in Callers \ {t} : pc'[u] = pc[u]
        /\ SlotInv' /\ WorkerInv' /\ DownInv' /\ ProbationKnown'
    BY <2>1, <2>2, <2>3, AsksOrEnds
  <2>5. \A u \in Callers : ~AtWork(u)'
    BY <1>1, <2>1, <2>2, <2>4 DEF OneWorker, AtWork
  <2>6. OneWorker'
    BY <2>1, <2>5 DEF OneWorker
  <2>7. TypeOK'
    BY <1>1, <1>4, <2>1, <2>4 DEF CreateFails, TypeOK, probation, flash
  <2> QED BY <2>4, <2>6, <2>7 DEF OtaInv
<1>5. CASE ReportNoMemory(t)
  <2>1. /\ Goto(t, "idle") /\ pc[t] = "no memory" /\ busy' = busy
        /\ image' = image /\ UNCHANGED <<probation, flash>>
    BY <1>5 DEF ReportNoMemory
  <2>2. up
    BY <1>1, <2>1 DEF DownInv
  <2>3. /\ pc' \in [Callers -> PCs]
        /\ pc'[t] = "idle" /\ \A u \in Callers \ {t} : pc'[u] = pc[u]
        /\ SlotInv' /\ WorkerInv' /\ DownInv' /\ ProbationKnown'
    BY <2>1, <2>2, AsksOrEnds
  <2>4. \A u \in Callers : AtWork(u)' <=> AtWork(u)
    BY <2>1, <2>3 DEF AtWork
  <2>5. OneWorker'
    BY <1>1, <2>1, <2>4 DEF OneWorker
  <2>6. TypeOK'
    BY <1>1, <1>5, <2>1, <2>3 DEF ReportNoMemory, TypeOK, probation, flash
  <2> QED BY <2>3, <2>5, <2>6 DEF OtaInv
<1>6. CASE WorkerEnds(t)
  <2>1. /\ Goto(t, "idle") /\ pc[t] = "done" /\ busy' = FALSE
        /\ image' = [image EXCEPT ![t] = NoImage] /\ UNCHANGED <<probation, flash>>
    BY <1>6 DEF WorkerEnds
  <2>2. up
    BY <1>1, <2>1 DEF DownInv
  <2>3. \A u \in Callers \ {t} : image'[u] = image[u]
    BY <1>1, <2>1
  <2>4. /\ pc' \in [Callers -> PCs]
        /\ pc'[t] = "idle" /\ \A u \in Callers \ {t} : pc'[u] = pc[u]
        /\ SlotInv' /\ WorkerInv' /\ DownInv' /\ ProbationKnown'
    BY <2>1, <2>2, <2>3, AsksOrEnds
  <2>5. \A u \in Callers : ~AtWork(u)'
    BY <1>1, <2>1, <2>4 DEF OneWorker, AtWork
  <2>6. OneWorker'
    BY <2>1, <2>5 DEF OneWorker
  <2>7. TypeOK'
    BY <1>1, <1>6, <2>1, <2>4 DEF WorkerEnds, TypeOK, probation, flash
  <2> QED BY <2>4, <2>6, <2>7 DEF OtaInv
<1> QED BY <1>2, <1>3, <1>4, <1>5, <1>6
-----------------------------------------------------------------------------
(* Restarts and probation.                                                 *)

LEMMA InvRestart ==
  ASSUME OtaInv, PowerCut \/ (\E t \in Callers : RestartIntoImage(t)) \/ Rollback
  PROVE  OtaInv'
<1>1. CASE PowerCut \/ \E t \in Callers : RestartIntoImage(t)
  <2>1. Boot(slot, boot)
    BY <1>1 DEF PowerCut, RestartIntoImage
  <2> QED BY <2>1, AlwaysBootable, BootInv
<1>2. CASE Rollback
  <2>1. /\ slot[Other(boot)].st = "valid"
        /\ Boot(Mark(slot, boot, "invalid"), boot)
    BY <1>2 DEF Rollback
  <2> QED BY <2>1, RollbackBootable, BootInv
<1> QED BY <1>1, <1>2

\* A step of the manager itself, which leaves the workers alone.
LEMMA WorkersLeftAlone ==
  ASSUME OtaInv, UNCHANGED worker,
         slot' \in [Slots -> Image], boot' = boot, running' = running,
         slot' = slot \/ (/\ slot[running].st = "pending"
                          /\ slot'[running] = [ver |-> slot[running].ver, st |-> "valid"]
                          /\ slot'[Other(running)] = slot[Other(running)]),
         {pending', mature', ready', up'} \subseteq BOOLEAN,
         timer' \in {"none", "running", "failed"}
  PROVE  TypeOK' /\ OneWorker' /\ SlotInv' /\ WorkerInv'
<1>1. TypeOK'
  BY DEF OtaInv, TypeOK, worker
<1>2. pc' = pc /\ busy' = busy /\ image' = image
  BY DEF worker
<1>3. OneWorker'
  BY <1>2 DEF OtaInv, OneWorker, AtWork
<1>4. SlotInv'
  BY <1>2 DEF OtaInv, SlotInv
<1>5. WorkerInv'
  BY <1>2 DEF OtaInv, WorkerInv, SlotInv
<1> QED BY <1>1, <1>3, <1>4, <1>5

\* The image on probation is committed.
LEMMA CommitSlot ==
  ASSUME OtaInv, Commit, slot[running].st = "pending"
  PROVE  /\ slot' \in [Slots -> Image] /\ boot' = boot /\ running' = running
         /\ slot'[running] = [ver |-> slot[running].ver, st |-> "valid"]
         /\ slot'[Other(running)] = slot[Other(running)]
         /\ pending' = FALSE
<1>1. slot \in [Slots -> Image] /\ running \in Slots /\ boot = running
  BY DEF OtaInv, TypeOK, SlotInv
<1>2. slot' = Mark(slot, running, "valid") /\ pending' = FALSE /\ boot' = boot /\ running' = running
  BY <1>1 DEF Commit
<1> QED BY <1>1, <1>2, MarkSlot

LEMMA InvProbation ==
  ASSUME OtaInv,
         \/ InitCommitted \/ InitProbation \/ InitNoTimer \/ InitTimerNotStarted
         \/ SelfTestTick \/ Confirm \/ Mature \/ MeterStatus
  PROVE  OtaInv'
<1>1. /\ TypeOK /\ slot \in [Slots -> Image]
      /\ {pending, mature, ready, up} \subseteq BOOLEAN
      /\ timer \in {"none", "running", "failed"}
      /\ DownInv /\ ProbationKnown
  BY DEF OtaInv, TypeOK
<1>2. CASE InitCommitted \/ InitProbation \/ InitTimerNotStarted \/ Mature \/ MeterStatus
  <2>1. /\ UNCHANGED worker /\ UNCHANGED flash
        /\ {pending', mature', ready', up'} \subseteq BOOLEAN
        /\ timer' \in {"none", "running", "failed"}
    BY <1>1, <1>2 DEF InitCommitted, InitProbation, InitTimerNotStarted, Mature, MeterStatus
  <2>2. slot' = slot /\ boot' = boot /\ running' = running
    BY <2>1 DEF flash
  <2>3. TypeOK' /\ OneWorker' /\ SlotInv' /\ WorkerInv'
    BY <1>1, <2>1, <2>2, WorkersLeftAlone
  <2>4. up'
    BY <1>2 DEF InitCommitted, InitProbation, InitTimerNotStarted, Mature, MeterStatus
  <2>5. ProbationKnown'
    BY <1>1, <1>2, <2>2 DEF InitCommitted, InitProbation, InitTimerNotStarted, Mature, MeterStatus,
                            DownInv, ProbationKnown
  <2> QED BY <2>3, <2>4, <2>5 DEF OtaInv, DownInv
<1>3. CASE InitNoTimer \/ SelfTestTick \/ Confirm
  <2>1. /\ Commit /\ UNCHANGED worker /\ mature' = mature /\ ready' = ready /\ up'
        /\ slot[running].st = "pending"
    BY <1>1, <1>3 DEF InitNoTimer, SelfTestTick, Confirm, ProbationKnown
  <2>2. up' \in BOOLEAN /\ timer' \in {"none", "failed"}
    BY <1>1, <1>3 DEF InitNoTimer, SelfTestTick, Confirm, DownInv
  <2>3. /\ slot' \in [Slots -> Image] /\ boot' = boot /\ running' = running
        /\ slot'[running] = [ver |-> slot[running].ver, st |-> "valid"]
        /\ slot'[Other(running)] = slot[Other(running)]
        /\ pending' = FALSE
    BY <2>1, CommitSlot
  <2>4. TypeOK' /\ OneWorker' /\ SlotInv' /\ WorkerInv'
    BY <1>1, <2>1, <2>2, <2>3, WorkersLeftAlone
  <2>5. ProbationKnown'
    BY <2>2, <2>3 DEF ProbationKnown
  <2> QED BY <2>1, <2>4, <2>5 DEF OtaInv, DownInv
<1> QED BY <1>2, <1>3
-----------------------------------------------------------------------------
LEMMA OtaNext == ASSUME OtaInv, [Next]_vars PROVE OtaInv'
<1>1. ASSUME NEW t \in Callers,
             \/ CreateWorker(t) \/ CreateList(t) \/ Fail(t) \/ CheckDone(t) \/ ManifestFits(t)
             \/ StartDownload(t) \/ ReadDescriptor(t) \/ TransferDone(t) \/ Announce(t)
             \/ ListDone(t)
      PROVE  OtaInv'
  BY <1>1, InvWorker
<1>2. ASSUME NEW t \in Callers, EraseSpare(t) \/ Install(t) PROVE OtaInv'
  BY <1>2, InvFlash
<1>3. ASSUME NEW t \in Callers,
             Spawn(t) \/ RequestList(t) \/ CreateFails(t) \/ ReportNoMemory(t) \/ WorkerEnds(t)
      PROVE  OtaInv'
  BY <1>3, InvRequest
<1>4. ASSUME PowerCut \/ (\E t \in Callers : RestartIntoImage(t)) \/ Rollback PROVE OtaInv'
  BY <1>4, InvRestart
<1>5. ASSUME \/ InitCommitted \/ InitProbation \/ InitNoTimer \/ InitTimerNotStarted
             \/ SelfTestTick \/ Confirm \/ Mature \/ MeterStatus
      PROVE  OtaInv'
  BY <1>5, InvProbation
<1>6. CASE UNCHANGED vars
  BY <1>6 DEF vars, worker, probation, flash, OtaInv, TypeOK, OneWorker, AtWork, SlotInv,
              WorkerInv, DownInv, ProbationKnown
<1> QED BY <1>1, <1>2, <1>3, <1>4, <1>5, <1>6 DEF Next

\* The types of the manager's state.
THEOREM OtaTypeCorrect == Spec => []TypeOK
<1>1. OtaInv => TypeOK
  BY DEF OtaInv
<1> QED BY <1>1, OtaInit, OtaNext, PTL DEF Spec

\* One worker at a time, and s_busy says whether there is one, whoever asks,
\* whatever fails and whenever the power is cut.
THEOREM WorkerAlone == Spec => []OneWorker
<1>1. OtaInv => OneWorker
  BY DEF OtaInv
<1> QED BY <1>1, OtaInit, OtaNext, PTL DEF Spec

\* s_pending_verify tells whether the running image is on probation.
THEOREM ProbationTold == Spec => []ProbationKnown
<1>1. OtaInv => ProbationKnown
  BY DEF OtaInv
<1> QED BY <1>1, OtaInit, OtaNext, PTL DEF Spec
-----------------------------------------------------------------------------
(* The slots implement TrialUpdate.                                        *)

\* What the two slots stand for, before a step and after it.
LEMMA View ==
  /\ slot[boot].st = "valid" =>
        /\ Committed = slot[boot].ver /\ Tried = NoImage
        /\ slot[Other(boot)].st = "valid" => Spare = slot[Other(boot)].ver
        /\ slot[Other(boot)].st # "valid" => Spare = NoImage
  /\ slot[boot].st \in {"new", "pending"} =>
        Committed = slot[Other(boot)].ver /\ Tried = slot[boot].ver /\ Spare = NoImage
  BY DEF Committed, Tried, Spare, InTrial, VersionIn

LEMMA ViewAfter ==
  /\ slot'[boot'].st = "valid" =>
        /\ Committed' = slot'[boot'].ver /\ Tried' = NoImage
        /\ slot'[Other(boot')].st = "valid" => Spare' = slot'[Other(boot')].ver
        /\ slot'[Other(boot')].st # "valid" => Spare' = NoImage
  /\ slot'[boot'].st \in {"new", "pending"} =>
        Committed' = slot'[Other(boot')].ver /\ Tried' = slot'[boot'].ver /\ Spare' = NoImage
  BY DEF Committed, Tried, Spare, InTrial, VersionIn

\* A slot that holds something holds a version.
LEMMA HoldsVersion ==
  ASSUME NEW sl \in [Slots -> Image], NEW s \in Slots, sl[s].st # "empty"
  PROVE  sl[s].ver \in Versions /\ sl[s].ver # NoImage
<1>1. sl[s] \in Image
  OBVIOUS
<1>2. NoImage \notin Versions
  BY VersionAssumption DEF NoImage
<1> QED BY <1>1, <1>2 DEF Image

LEMMA TrialKept ==
  ASSUME UNCHANGED flash
  PROVE  UNCHANGED Trial!trialVars
<1>1. slot' = slot /\ boot' = boot /\ running' = running
  BY DEF flash
<1>2. Committed' = Committed /\ Tried' = Tried /\ Spare' = Spare
  BY <1>1 DEF Committed, Tried, Spare, InTrial, VersionIn
<1> QED BY <1>1, <1>2 DEF Trial!trialVars, VersionIn

\* A restart tries out a new image, gives up one on probation, or changes nothing.
LEMMA RefineBoot ==
  ASSUME OtaInv, Boot(slot, boot)
  PROVE  [Trial!TrialNext]_(Trial!trialVars)
<1>1. /\ slot \in [Slots -> Image] /\ boot \in Slots /\ running \in Slots
      /\ Other(boot) \in Slots /\ Other(boot) # boot /\ Other(Other(boot)) = boot
  BY OtherSlot, OtherTwice DEF OtaInv, TypeOK
<1>2. Bootable(slot, boot) /\ running' = boot'
  BY AlwaysBootable, BootResult
<1>3. slot[boot].st \in {"valid", "new", "pending"}
  BY DEF OtaInv, SlotInv
<1>4. CASE slot[boot].st = "valid"
  <2>1. boot = running
    BY <1>4 DEF OtaInv, SlotInv
  <2>2. slot' = slot /\ boot' = boot /\ running' = running
    BY <1>2, <1>4, <2>1, BootResult
  <2> QED BY <2>2, TrialKept DEF flash
<1>5. CASE slot[boot].st = "new"
  <2>1. /\ boot # running /\ running = Other(boot)
        /\ slot[boot].ver # slot[running].ver
    BY <1>1, <1>5, OtherSlot DEF OtaInv, SlotInv
  <2>2. slot' = Mark(slot, boot, "pending") /\ boot' = boot
    BY <1>2, <1>5, BootResult
  <2>3. /\ slot'[boot] = [ver |-> slot[boot].ver, st |-> "pending"]
        /\ slot'[Other(boot)] = slot[Other(boot)]
    BY <1>1, <1>5, <2>2, MarkSlot
  <2>4. /\ Committed = slot[Other(boot)].ver /\ Tried = slot[boot].ver /\ Spare = NoImage
        /\ Committed' = slot[Other(boot)].ver /\ Tried' = slot[boot].ver /\ Spare' = NoImage
    BY <1>5, <2>2, <2>3, View, ViewAfter
  <2>5. VersionIn(running) = slot[Other(boot)].ver /\ VersionIn(running)' = slot[boot].ver
    BY <1>2, <2>1, <2>2, <2>3 DEF VersionIn
  <2>6. Tried # NoImage
    BY <1>1, <1>5, <2>4, HoldsVersion
  <2> QED BY <2>1, <2>4, <2>5, <2>6 DEF Trial!TrialNext, Trial!TryOut, Trial!OnTrial
<1>6. CASE slot[boot].st = "pending"
  <2>1. slot[Other(boot)].st = "valid"
    BY <1>2, <1>6 DEF Bootable
  <2>2. slot' = Mark(slot, boot, "aborted") /\ boot' = Other(boot)
    BY <1>2, <1>6, BootResult
  <2>3. /\ slot'[boot] = [ver |-> slot[boot].ver, st |-> "aborted"]
        /\ slot'[Other(boot)] = slot[Other(boot)]
    BY <1>1, <1>6, <2>2, MarkSlot
  <2>4. /\ Committed = slot[Other(boot)].ver /\ Tried = slot[boot].ver /\ Spare = NoImage
        /\ Committed' = slot[Other(boot)].ver /\ Tried' = NoImage /\ Spare' = NoImage
    BY <1>1, <1>6, <2>1, <2>2, <2>3, View, ViewAfter
  <2>5. VersionIn(running)' = slot[Other(boot)].ver
    BY <1>2, <2>2, <2>3 DEF VersionIn
  <2>6. Tried # NoImage
    BY <1>1, <1>6, <2>4, HoldsVersion
  <2> QED BY <2>4, <2>5, <2>6 DEF Trial!TrialNext, Trial!GiveUp
<1> QED BY <1>3, <1>4, <1>5, <1>6

\* A rollback gives up an image on trial, or else goes back to the spare one.
LEMMA RefineRollback ==
  ASSUME OtaInv, Rollback
  PROVE  Trial!TrialNext
<1>1. /\ slot \in [Slots -> Image] /\ boot \in Slots
      /\ Other(boot) \in Slots /\ Other(boot) # boot /\ Other(Other(boot)) = boot
  BY OtherSlot, OtherTwice DEF OtaInv, TypeOK
<1>2. slot[boot].st \in {"valid", "new", "pending"}
  BY DEF OtaInv, SlotInv
<1> DEFINE sm == Mark(slot, boot, "invalid")
<1>3. slot[Other(boot)].st = "valid" /\ Bootable(sm, boot) /\ Boot(sm, boot)
  BY RollbackBootable DEF Rollback
<1>4. sm[boot] = [ver |-> slot[boot].ver, st |-> "invalid"] /\ sm[Other(boot)] = slot[Other(boot)]
  BY <1>1, <1>2, MarkSlot
<1> HIDE DEF sm
<1>5. slot' = sm /\ boot' = Other(boot) /\ running' = boot'
  BY <1>3, <1>4, BootResult
<1>6. /\ Committed' = slot[Other(boot)].ver /\ Tried' = NoImage /\ Spare' = NoImage
      /\ VersionIn(running)' = slot[Other(boot)].ver
  <2>1. slot'[boot'] = slot[Other(boot)] /\ slot'[Other(boot')].st = "invalid"
    BY <1>1, <1>4, <1>5
  <2>2. Committed' = slot[Other(boot)].ver /\ Tried' = NoImage /\ Spare' = NoImage
    BY <1>3, <2>1, ViewAfter
  <2> QED BY <1>5, <2>1, <2>2 DEF VersionIn
<1>7. slot[boot].ver # NoImage /\ slot[Other(boot)].ver # NoImage
  BY <1>1, <1>2, <1>3, HoldsVersion
<1>8. CASE slot[boot].st = "valid"
  <2>1. Tried = NoImage /\ Spare = slot[Other(boot)].ver
    BY <1>3, <1>8, View
  <2> QED BY <1>6, <1>7, <2>1 DEF Trial!TrialNext, Trial!GoBack
<1>9. CASE slot[boot].st \in {"new", "pending"}
  <2>1. Committed = slot[Other(boot)].ver /\ Tried = slot[boot].ver /\ Spare = NoImage
    BY <1>9, View
  <2> QED BY <1>6, <1>7, <2>1 DEF Trial!TrialNext, Trial!GiveUp
<1> QED BY <1>2, <1>8, <1>9

\* Erasing the spare slot spoils it, and an installation stages an image in it.
LEMMA RefineFlash ==
  ASSUME OtaInv, NEW t \in Callers, EraseSpare(t) \/ Install(t)
  PROVE  Trial!TrialNext
<1>1. /\ slot \in [Slots -> Image] /\ running \in Slots
      /\ Other(running) \in Slots /\ Other(running) # running
      /\ Other(Other(running)) = running
  BY OtherSlot, OtherTwice DEF OtaInv, TypeOK
<1>2. /\ pc[t] \in {"begin", "perform", "finish"}
      /\ \A u \in Callers : AtWork(u) => u = t
  BY DEF EraseSpare, Install, AtWork, OtaInv, OneWorker
<1>3. boot = running /\ image[t] \in Versions /\ image[t] # slot[running].ver
  BY <1>2 DEF OtaInv, SlotInv, WorkerInv, AtWork
<1>4. slot[running].st = "valid"
  BY DEF EraseSpare, Install, OtaInv, SlotInv, WorkerInv
<1>5. Committed = slot[running].ver /\ Tried = NoImage
  BY <1>3, <1>4, View
<1>6. CASE EraseSpare(t)
  <2>1. /\ slot' = [slot EXCEPT ![Other(running)] = [ver |-> NoImage, st |-> "empty"]]
        /\ boot' = boot /\ running' = running
    BY <1>6 DEF EraseSpare
  <2>2. slot'[running] = slot[running] /\ slot'[Other(running)].st = "empty"
    BY <1>1, <2>1
  <2>3. Committed' = slot[running].ver /\ Tried' = NoImage /\ Spare' = NoImage
    BY <1>3, <1>4, <2>1, <2>2, ViewAfter
  <2>4. VersionIn(running)' = VersionIn(running)
    BY <2>1, <2>2 DEF VersionIn
  <2> QED BY <1>5, <2>3, <2>4 DEF Trial!TrialNext, Trial!Spoil
<1>7. CASE Install(t)
  <2>1. /\ slot' = [slot EXCEPT ![Other(running)] = [ver |-> image[t], st |-> "new"]]
        /\ boot' = Other(running) /\ running' = running
        /\ slot[Other(running)].st = "empty"
    BY <1>7 DEF Install, OtaInv, WorkerInv
  <2>2. /\ slot'[running] = slot[running]
        /\ slot'[Other(running)] = [ver |-> image[t], st |-> "new"]
    BY <1>1, <2>1
  <2>3. Spare = NoImage
    BY <1>3, <1>4, <2>1, View
  <2>4. Committed' = slot[running].ver /\ Tried' = image[t] /\ Spare' = NoImage
    BY <1>1, <2>1, <2>2, ViewAfter
  <2>5. VersionIn(running)' = VersionIn(running) /\ VersionIn(running) = slot[running].ver
    BY <2>1, <2>2 DEF VersionIn
  <2> QED BY <1>3, <1>5, <2>3, <2>4, <2>5 DEF Trial!TrialNext, Trial!Stage
<1> QED BY <1>6, <1>7

\* The image on trial is committed; the one it replaces becomes the spare.
LEMMA RefineCommit ==
  ASSUME OtaInv, InitNoTimer \/ SelfTestTick \/ Confirm
  PROVE  Trial!TrialNext
<1>1. Commit /\ slot[running].st = "pending"
  BY DEF InitNoTimer, SelfTestTick, Confirm, OtaInv, ProbationKnown
<1>2. /\ boot = running /\ slot[Other(running)].st = "valid"
      /\ slot \in [Slots -> Image] /\ running \in Slots
  BY <1>1 DEF OtaInv, SlotInv, TypeOK
<1>3. /\ boot' = boot /\ running' = running
      /\ slot'[running] = [ver |-> slot[running].ver, st |-> "valid"]
      /\ slot'[Other(running)] = slot[Other(running)]
  BY <1>1, CommitSlot
<1>4. Committed = slot[Other(running)].ver /\ Tried = slot[running].ver /\ Spare = NoImage
  BY <1>1, <1>2, View
<1>5. /\ Committed' = slot[running].ver /\ Tried' = NoImage
      /\ Spare' = slot[Other(running)].ver
  BY <1>2, <1>3, ViewAfter
<1>6. VersionIn(running) = slot[running].ver /\ VersionIn(running)' = slot[running].ver
  BY <1>3 DEF VersionIn
<1>7. Tried # NoImage
  BY <1>1, <1>2, <1>4, HoldsVersion
<1> QED BY <1>4, <1>5, <1>6, <1>7 DEF Trial!TrialNext, Trial!Commit, Trial!OnTrial

LEMMA RefineTrialNext ==
  ASSUME OtaInv, [Next]_vars
  PROVE  [Trial!TrialNext]_(Trial!trialVars)
<1>1. ASSUME NEW t \in Callers, EraseSpare(t) \/ Install(t)
      PROVE  [Trial!TrialNext]_(Trial!trialVars)
  BY <1>1, RefineFlash
<1>2. ASSUME PowerCut \/ \E t \in Callers : RestartIntoImage(t)
      PROVE  [Trial!TrialNext]_(Trial!trialVars)
  BY <1>2, RefineBoot DEF PowerCut, RestartIntoImage
<1>3. ASSUME Rollback \/ InitNoTimer \/ SelfTestTick \/ Confirm
      PROVE  [Trial!TrialNext]_(Trial!trialVars)
  BY <1>3, RefineRollback, RefineCommit
<1>4. ASSUME NEW t \in Callers,
             \/ Spawn(t) \/ RequestList(t) \/ CreateWorker(t) \/ CreateList(t) \/ CreateFails(t)
             \/ ReportNoMemory(t) \/ Fail(t) \/ CheckDone(t) \/ ManifestFits(t) \/ StartDownload(t)
             \/ ReadDescriptor(t) \/ TransferDone(t) \/ Announce(t) \/ ListDone(t) \/ WorkerEnds(t)
      PROVE  [Trial!TrialNext]_(Trial!trialVars)
  <2>1. UNCHANGED flash
    BY <1>4 DEF Spawn, RequestList, CreateWorker, CreateList, CreateFails, ReportNoMemory, Fail,
                CheckDone, ManifestFits, StartDownload, ReadDescriptor, TransferDone, Announce,
                ListDone, WorkerEnds
  <2> QED BY <2>1, TrialKept
<1>5. ASSUME \/ InitCommitted \/ InitProbation \/ InitTimerNotStarted \/ Mature \/ MeterStatus
             \/ UNCHANGED vars
      PROVE  [Trial!TrialNext]_(Trial!trialVars)
  <2>1. UNCHANGED flash
    BY <1>5 DEF InitCommitted, InitProbation, InitTimerNotStarted, Mature, MeterStatus, vars
  <2> QED BY <2>1, TrialKept
<1> QED BY <1>1, <1>2, <1>3, <1>4, <1>5 DEF Next

LEMMA TrialInitial == Init => Trial!TrialInit
<1> SUFFICES ASSUME Init PROVE Trial!TrialInit
  OBVIOUS
<1>1. "ota_0" \in Slots /\ Other("ota_0") \in Slots /\ Other("ota_0") # "ota_0"
  BY OtherSlot DEF Slots
<1>2. /\ boot = "ota_0" /\ running = "ota_0" /\ slot["ota_0"] = [ver |-> Flashed, st |-> "valid"]
      /\ slot[Other("ota_0")].st = "empty"
  BY <1>1 DEF Init
<1>3. Committed = Flashed /\ Tried = NoImage /\ Spare = NoImage
  BY <1>2, View
<1>4. VersionIn(running) = Flashed
  BY <1>2 DEF VersionIn
<1> QED BY <1>3, <1>4, VersionAssumption DEF Trial!TrialInit

\* "A new image must prove it works" (ota_manager.h): whatever is asked, installed,
\* confirmed, rolled back or cut short, the two slots and otadata implement one
\* committed image beside which at most one other is staged and tried out.
THEOREM SlotsImplementTrial == Spec => ImageOnTrial
<1> QED BY OtaInit, OtaNext, TrialInitial, RefineTrialNext, PTL DEF Spec, ImageOnTrial, Trial!TrialSpec
=============================================================================
