------------------------ MODULE EnergyPersist_proofs ------------------------
(* Proofs about EnergyPersist, for every value of its constants.           *)
EXTENDS EnergyPersist, TLAPS

USE DEF SlotKeys, PCs
-----------------------------------------------------------------------------
(* The helpers: what they return.                                          *)

LEMMA FreshType == Fresh \in Reading
  BY BoundAssumption, WindowAssumption DEF Fresh, Reading

LEMMA NoWorkType == NoWork \in Work
  BY FreshType, SeqAssumption DEF NoWork, Work, Seqs

LEMMA NextSeqType == ASSUME NEW s \in Seqs PROVE NextSeq(s) \in Seqs
  BY SeqAssumption DEF Seqs, NextSeq

LEMMA SlotKeyType == ASSUME NEW s PROVE SlotKey(s) \in SlotKeys
  BY DEF SlotKey

LEMMA BadType == Bad \in Slot
  BY FreshType, SeqAssumption DEF Bad, Slot, Seqs

LEMMA BlobType == ASSUME NEW w \in Work PROVE Blob(w) \in Slot
  BY DEF Blob, Work, Slot

LEMMA NewestSlotType ==
  ASSUME NEW sl \in [SlotKeys -> Slot]
  PROVE  NewestSlot(sl) \in Slot
  BY BadType DEF NewestSlot

\* A boot from any contents of NVS leaves every variable well typed.
LEMMA BootType ==
  ASSUME NEW sl \in [SlotKeys -> Slot], Boot(sl)
  PROVE  TypeOK'
<1>1. /\ NewestSlot(sl).rd \in Reading
      /\ NewestSlot(sl).seq \in Seqs
      /\ NewestSlot(sl).rd.wh \in 0..MaxWh
  BY NewestSlotType DEF Slot, Reading
<1>2. Fresh \in Reading /\ 0 \in Seqs /\ 0 \in 0..MaxWh /\ 0 \in 0..PeriodTicks
  BY FreshType, SeqAssumption, BoundAssumption DEF Seqs
<1>3. slot' \in [SlotKeys -> Slot] /\ work' \in [Tasks -> Work]
  BY NoWorkType DEF Boot
<1>4. twoCopies' \in BOOLEAN
  <2>1. twoCopies' = (twoCopies \/ \A k \in SlotKeys : sl[k].valid)
    BY DEF Boot
  <2> QED BY <2>1, Zenon
<1>5. dirty' = FALSE /\ age' = 0 /\ paused' = FALSE
  BY DEF Boot
<1>6. CASE /\ pc' = [t \in Tasks |-> "idle"]
           /\ ram' = NewestSlot(sl).rd
           /\ pseq' = NewestSlot(sl).seq
           /\ saved' = NewestSlot(sl).rd.wh
  BY <1>1, <1>2, <1>3, <1>4, <1>5, <1>6 DEF TypeOK
<1>7. CASE /\ MeterMayFail
           /\ pc' = [t \in Tasks |-> IF t = Meter THEN "absent" ELSE "idle"]
           /\ ram' = Fresh
           /\ pseq' = 0
           /\ saved' = 0
  <2>1. pc' \in [Tasks -> PCs]
    BY <1>7
  <2> QED BY <2>1, <1>2, <1>3, <1>4, <1>5, <1>7 DEF TypeOK
<1> QED BY <1>6, <1>7 DEF Boot
-----------------------------------------------------------------------------
(* Type correctness.                                                       *)

LEMMA ZeroType == 0 \in Seqs /\ 0 \in 0..MaxWh /\ 0 \in 0..PeriodTicks
  BY SeqAssumption, BoundAssumption DEF Seqs

LEMMA TypeInit == Init => TypeOK
<1> SUFFICES ASSUME Init PROVE TypeOK
  OBVIOUS
<1>1. ram \in Reading /\ pseq \in Seqs /\ saved \in 0..MaxWh /\ age \in 0..PeriodTicks
  BY FreshType, ZeroType DEF Init
<1>2. slot \in [SlotKeys -> Slot] /\ work \in [Tasks -> Work]
  BY BadType, NoWorkType DEF Init
<1>3. pc \in [Tasks -> PCs]
  BY DEF Init
<1> QED BY <1>1, <1>2, <1>3 DEF Init, TypeOK

\* The steps of energy_accum_save().
LEMMA TypeSave ==
  ASSUME TypeOK, NEW t \in Tasks,
         \/ Snapshot(t) \/ TakeSeq(t) \/ Write(t) \/ WriteFails(t) \/ Note(t)
  PROVE  TypeOK'
<1> USE DEF TypeOK
<1>1. CASE Snapshot(t)
  BY <1>1 DEF Snapshot, Work
<1>2. CASE TakeSeq(t)
  <2>1. NextSeq(pseq) \in Seqs
    BY NextSeqType
  <2> QED BY <1>2, <2>1 DEF TakeSeq, Work
<1>3. CASE Write(t)
  <2>1. slot' \in [SlotKeys -> Slot]
    BY <1>3, BlobType DEF Write
  <2>2. twoCopies' \in BOOLEAN
    BY <1>3, Zenon DEF Write
  <2> QED BY <1>3, <2>1, <2>2 DEF Write
<1>4. CASE WriteFails(t)
  <2>1. slot' \in [SlotKeys -> Slot]
    <3>1. Blob(work[t]) \in Slot
      BY BlobType
    <3>2. PICK kind \in FailKinds :
            slot' = IF kind = "kept" THEN slot
                    ELSE [slot EXCEPT ![SlotKey(work[t].seq)] = Blob(work[t])]
      BY <1>4 DEF WriteFails
    <3> QED BY <3>1, <3>2
  <2>2. twoCopies' \in BOOLEAN
    BY <1>4, Zenon DEF WriteFails
  <2>3. work' \in [Tasks -> Work] /\ pc' \in [Tasks -> PCs]
    BY <1>4, NoWorkType DEF WriteFails, Return
  <2> QED BY <1>4, <2>1, <2>2, <2>3 DEF WriteFails
<1>5. CASE Note(t)
  <2>1. work[t].seq \in Seqs /\ work[t].rd.wh \in 0..MaxWh
    BY DEF Work, Reading
  <2>2. work' \in [Tasks -> Work] /\ pc' \in [Tasks -> PCs]
    BY <1>5, NoWorkType DEF Note, Return
  <2> QED BY <1>5, <2>1, <2>2, ZeroType DEF Note
<1> QED BY <1>1, <1>2, <1>3, <1>4, <1>5

\* The entry of a save from another task.
LEMMA TypeEnter ==
  ASSUME TypeOK, NEW t \in Tasks, NEW restart \in BOOLEAN, Enter(t, restart)
  PROVE  pc' \in [Tasks -> PCs] /\ work' \in [Tasks -> Work]
  BY NoWorkType DEF Enter, TypeOK, Work

\* The calls of the other tasks.
LEMMA TypeOperator ==
  ASSUME TypeOK, NEW t \in Tasks,
         \/ ResetEnergy(t) \/ ResetDemand(t) \/ SetDemandWindow(t)
         \/ FlushForRestart(t) \/ OpenPortal(t)
  PROVE  TypeOK'
<1>1. CASE ResetEnergy(t)
  <2>1. ram' \in Reading
    <3>1. ram.epoch + 1 \in 0..MaxEpoch
      BY <1>1, BoundAssumption DEF ResetEnergy, Reading, TypeOK
    <3> QED BY <1>1, <3>1, ZeroType DEF ResetEnergy, Reading, TypeOK
  <2> QED BY <1>1, <2>1, TypeEnter DEF ResetEnergy, TypeOK
<1>2. CASE ResetDemand(t)
  <2>1. ram' \in Reading
    BY <1>2, BoundAssumption DEF ResetDemand, Reading, TypeOK
  <2> QED BY <1>2, <2>1, TypeEnter DEF ResetDemand, TypeOK
<1>3. CASE SetDemandWindow(t)
  BY <1>3 DEF SetDemandWindow, Reading, TypeOK
<1>4. CASE FlushForRestart(t)
  BY <1>4, TypeEnter DEF FlushForRestart, TypeOK
<1>5. CASE OpenPortal(t)
  BY <1>5, TypeEnter DEF OpenPortal, TypeOK
<1> QED BY <1>1, <1>2, <1>3, <1>4, <1>5

LEMMA TypeNext == TypeOK /\ [Next]_vars => TypeOK'
<1> SUFFICES ASSUME TypeOK, [Next]_vars PROVE TypeOK'
  OBVIOUS
<1>1. CASE Poll
  <2>1. ram' \in Reading
    <3>1. PICK e \in 0..MaxStep, rise \in {0, 1} :
            /\ ram.wh + e <= MaxWh
            /\ ram.peak + rise <= MaxPeak
            /\ ram' = [ram EXCEPT !.wh = @ + e, !.peak = @ + rise]
      BY <1>1 DEF Poll
    <3>2. ram.wh + e \in 0..MaxWh /\ ram.peak + rise \in 0..MaxPeak
      BY <3>1, BoundAssumption DEF Reading, TypeOK
    <3> QED BY <3>1, <3>2 DEF Reading, TypeOK
  <2> QED BY <1>1, <2>1, TasksAssumption DEF Poll, TypeOK
<1>2. CASE Drain
  <2>1. ram' \in Reading
    BY <1>2, BoundAssumption DEF Drain, Reading, TypeOK
  <2> QED BY <1>2, <2>1 DEF Drain, TypeOK
<1>3. CASE Service
  <2>1. dirty' \in BOOLEAN
    BY <1>3, Zenon DEF Service, TypeOK
  <2>2. age' \in 0..PeriodTicks
    BY <1>3, BoundAssumption DEF Service, TypeOK
  <2> QED BY <1>3, <2>1, <2>2, TasksAssumption DEF Service, TypeOK
<1>4. ASSUME NEW t \in Tasks,
             \/ Snapshot(t) \/ TakeSeq(t) \/ Write(t) \/ WriteFails(t) \/ Note(t)
      PROVE  TypeOK'
  BY <1>4, TypeSave
<1>5. ASSUME NEW t \in Tasks,
             \/ ResetEnergy(t) \/ ResetDemand(t) \/ SetDemandWindow(t)
             \/ FlushForRestart(t) \/ OpenPortal(t)
      PROVE  TypeOK'
  BY <1>5, TypeOperator
<1>6. CASE BeginDownload \/ EndPause
  BY <1>6 DEF BeginDownload, EndPause, TypeOK
<1>7. CASE PowerCut
  <2>1. CASE Boot(slot)
    BY <2>1, BootType DEF TypeOK
  <2>2. ASSUME NEW t \in Tasks, NEW b \in {Bad, Blob(work[t])},
               Boot([slot EXCEPT ![SlotKey(work[t].seq)] = b])
        PROVE  TypeOK'
    <3>1. b \in Slot
      BY BadType, BlobType DEF TypeOK
    <3> QED BY <2>2, <3>1, BootType DEF TypeOK
  <2> QED BY <1>7, <2>1, <2>2 DEF PowerCut
<1>8. ASSUME NEW t \in Tasks, Restart(t)
      PROVE  TypeOK'
  BY <1>8, BootType DEF Restart, TypeOK
<1>9. CASE UNCHANGED vars
  BY <1>9 DEF vars, TypeOK
<1> QED BY <1>1, <1>2, <1>3, <1>4, <1>5, <1>6, <1>7, <1>8, <1>9 DEF Next

\* Every variable of energy_meter_task.c keeps its C type and range; the
\* sequence number wraps inside its 16 bits.
THEOREM TypeCorrect == Spec => []TypeOK
  BY TypeInit, TypeNext, PTL DEF Spec
-----------------------------------------------------------------------------
(* Some copy survives, with any number of tasks inside energy_accum_save().  *)
(*                                                                         *)
(* Once both slots have held a blob, the slot of s_persist_seq is intact,   *)
(* and a save only ever overwrites the slot of the other parity than the    *)
(* sequence number it started from: whatever the others wrote meanwhile,   *)
(* the slot it leaves alone was intact when it started and nobody makes a   *)
(* slot worse except a power cut, which ends every save.                   *)

Other(k) == IF k = "A" THEN "B" ELSE "A"

\* A blob sits in the slot of its own parity.
InOwnSlot == \A k \in SlotKeys : slot[k].valid => SlotKey(slot[k].seq) = k

Anchored ==
    twoCopies =>
      /\ slot[SlotKey(pseq)].valid
      /\ \A t \in Tasks :
           /\ pc[t] = "write" => slot[Other(SlotKey(work[t].seq))].valid
           /\ pc[t] = "note" => slot[SlotKey(work[t].seq)].valid

CopyInv == TypeOK /\ InOwnSlot /\ Anchored

LEMMA NextSeqFlips ==
  ASSUME NEW s \in Seqs
  PROVE  Other(SlotKey(NextSeq(s))) = SlotKey(s)
  BY SeqAssumption DEF Seqs, NextSeq, SlotKey, Other

LEMMA OtherKey ==
  ASSUME NEW k \in SlotKeys
  PROVE  /\ Other(k) \in SlotKeys
         /\ Other(k) # k
         /\ \A j \in SlotKeys : j = k \/ j = Other(k)
  BY DEF Other

\* A boot that finds every blob in its own slot, and one of them intact if
\* both ever were, is anchored again.
LEMMA CopyBoot ==
  ASSUME ~MeterMayFail, NEW sl \in [SlotKeys -> Slot], Boot(sl),
         \A k \in SlotKeys : sl[k].valid => SlotKey(sl[k].seq) = k,
         twoCopies => \E k \in SlotKeys : sl[k].valid
  PROVE  InOwnSlot' /\ Anchored'
<1>1. slot' = sl /\ pseq' = NewestSlot(sl).seq /\ pc' = [t \in Tasks |-> "idle"]
  BY DEF Boot
<1>2. InOwnSlot'
  BY <1>1 DEF InOwnSlot
<1>3. twoCopies' => \E k \in SlotKeys : sl[k].valid
  BY DEF Boot
<1>4. ASSUME NEW k \in SlotKeys, sl[k].valid
      PROVE  sl[SlotKey(NewestSlot(sl).seq)].valid
  BY <1>4 DEF NewestSlot
<1> QED BY <1>1, <1>2, <1>3, <1>4 DEF Anchored

\* A slot is rewritten only by the blob that belongs there.
LEMMA CopyWrite ==
  ASSUME CopyInv, NEW t \in Tasks,
         slot' = [slot EXCEPT ![SlotKey(work[t].seq)] = Blob(work[t])]
  PROVE  /\ InOwnSlot'
         /\ \A k \in SlotKeys : slot[k].valid => slot'[k].valid
         /\ slot'[SlotKey(work[t].seq)].valid
<1>1. SlotKey(work[t].seq) \in SlotKeys
  BY SlotKeyType
<1> QED BY <1>1 DEF CopyInv, InOwnSlot, Blob, TypeOK

LEMMA CopySave ==
  ASSUME CopyInv, NEW t \in Tasks,
         \/ Snapshot(t) \/ TakeSeq(t) \/ Write(t) \/ WriteFails(t) \/ Note(t)
  PROVE  InOwnSlot' /\ Anchored'
<1> USE DEF CopyInv
<1>1. CASE Snapshot(t)
  BY <1>1 DEF Snapshot, InOwnSlot, Anchored, TypeOK
<1>2. CASE TakeSeq(t)
  <2>1. work'[t].seq = NextSeq(pseq) /\ pseq \in Seqs
    BY <1>2 DEF TakeSeq, TypeOK, Work
  <2>2. Other(SlotKey(work'[t].seq)) = SlotKey(pseq)
    BY <2>1, NextSeqFlips
  <2> QED BY <1>2, <2>2 DEF TakeSeq, InOwnSlot, Anchored, TypeOK
<1>3. CASE Write(t)
  <2>1. slot' = [slot EXCEPT ![SlotKey(work[t].seq)] = Blob(work[t])]
    BY <1>3 DEF Write
  <2>2. InOwnSlot'
    BY <2>1, CopyWrite
  <2>3. CASE twoCopies
    BY <1>3, <2>1, <2>3, CopyWrite, SlotKeyType, OtherKey DEF Write, Anchored, TypeOK
  <2>4. CASE ~twoCopies
    <3>1. twoCopies' => \A k \in SlotKeys : slot'[k].valid
      BY <1>3, <2>4 DEF Write
    <3> QED BY <3>1, <2>2, SlotKeyType, OtherKey DEF Anchored
  <2> QED BY <2>2, <2>3, <2>4
<1>4. CASE WriteFails(t)
  <2>1. PICK kind \in FailKinds :
          slot' = IF kind = "kept" THEN slot
                  ELSE [slot EXCEPT ![SlotKey(work[t].seq)] = Blob(work[t])]
    BY <1>4 DEF WriteFails
  <2>2. InOwnSlot' /\ \A k \in SlotKeys : slot[k].valid => slot'[k].valid
    <3>1. CASE slot' = slot
      BY <3>1 DEF InOwnSlot
    <3>2. CASE slot' = [slot EXCEPT ![SlotKey(work[t].seq)] = Blob(work[t])]
      BY <3>2, CopyWrite
    <3> QED BY <2>1, <3>1, <3>2
  <2>3. CASE twoCopies
    <3>1. \A u \in Tasks : pc'[u] = pc[u] \/ pc'[u] \in {"idle", "restart"}
      BY <1>4 DEF WriteFails, Return, TypeOK
    <3>2. \A u \in Tasks : pc'[u] \in {"write", "note"} => work'[u] = work[u]
      BY <1>4 DEF WriteFails, Return, TypeOK
    <3> QED BY <1>4, <2>2, <2>3, <3>1, <3>2, SlotKeyType, OtherKey
            DEF WriteFails, Anchored, TypeOK
  <2>4. CASE ~twoCopies
    <3>1. twoCopies' => \A k \in SlotKeys : slot'[k].valid
      BY <1>4, <2>4 DEF WriteFails
    <3> QED BY <3>1, <2>2, SlotKeyType, OtherKey DEF Anchored
  <2> QED BY <2>2, <2>3, <2>4
<1>5. CASE Note(t)
  <2>1. \A u \in Tasks : pc'[u] \in {"write", "note"} => pc'[u] = pc[u] /\ work'[u] = work[u]
    BY <1>5 DEF Note, Return, TypeOK
  <2> QED BY <1>5, <2>1 DEF Note, InOwnSlot, Anchored
<1> QED BY <1>1, <1>2, <1>3, <1>4, <1>5

\* What an operator's call leaves alone is all the invariant looks at.
LEMMA CopyOperator ==
  ASSUME CopyInv, NEW t \in Tasks,
         \/ ResetEnergy(t) \/ ResetDemand(t) \/ SetDemandWindow(t)
         \/ FlushForRestart(t) \/ OpenPortal(t)
  PROVE  InOwnSlot' /\ Anchored'
<1>1. slot' = slot /\ pseq' = pseq /\ twoCopies' = twoCopies
  BY DEF ResetEnergy, ResetDemand, SetDemandWindow, FlushForRestart, OpenPortal
<1>2. ASSUME NEW u \in Tasks, pc'[u] \in {"write", "note"}
      PROVE  pc'[u] = pc[u] /\ work'[u] = work[u]
  BY <1>2 DEF ResetEnergy, ResetDemand, SetDemandWindow, FlushForRestart, OpenPortal,
              Enter, CopyInv, TypeOK
<1> QED BY <1>1, <1>2 DEF CopyInv, InOwnSlot, Anchored

LEMMA CopyNext ==
  ASSUME ~MeterMayFail, CopyInv, [Next]_vars
  PROVE  CopyInv'
<1>1. TypeOK'
  BY TypeNext DEF CopyInv
<1>2. twoCopies => \E k \in SlotKeys : slot[k].valid
  BY SlotKeyType DEF CopyInv, Anchored
<1> SUFFICES InOwnSlot' /\ Anchored'
  BY <1>1 DEF CopyInv
<1>3. CASE Poll \/ Drain \/ Service
  <2>1. slot' = slot /\ pseq' = pseq /\ twoCopies' = twoCopies /\ work' = work
    BY <1>3 DEF Poll, Drain, Service
  <2>2. ASSUME NEW u \in Tasks, pc'[u] \in {"write", "note"} PROVE pc'[u] = pc[u]
    BY <1>3, <2>2 DEF Poll, Drain, Service, CopyInv, TypeOK
  <2> QED BY <2>1, <2>2 DEF CopyInv, InOwnSlot, Anchored
<1>4. ASSUME NEW t \in Tasks,
             \/ Snapshot(t) \/ TakeSeq(t) \/ Write(t) \/ WriteFails(t) \/ Note(t)
      PROVE  InOwnSlot' /\ Anchored'
  BY <1>4, CopySave
<1>5. ASSUME NEW t \in Tasks,
             \/ ResetEnergy(t) \/ ResetDemand(t) \/ SetDemandWindow(t)
             \/ FlushForRestart(t) \/ OpenPortal(t)
      PROVE  InOwnSlot' /\ Anchored'
  BY <1>5, CopyOperator
<1>6. CASE BeginDownload \/ EndPause \/ UNCHANGED vars
  BY <1>6 DEF BeginDownload, EndPause, vars, CopyInv, InOwnSlot, Anchored
<1>7. CASE PowerCut
  <2>1. CASE Boot(slot)
    BY <2>1, <1>2, CopyBoot DEF CopyInv, InOwnSlot, TypeOK
  <2>2. ASSUME NEW t \in Tasks, pc[t] = "write", NEW b \in {Bad, Blob(work[t])},
               Boot([slot EXCEPT ![SlotKey(work[t].seq)] = b])
        PROVE  InOwnSlot' /\ Anchored'
    <3> DEFINE key == SlotKey(work[t].seq)
               torn == [slot EXCEPT ![key] = b]
    <3>1. key \in SlotKeys /\ Other(key) \in SlotKeys /\ Other(key) # key
      BY SlotKeyType, OtherKey
    <3>2. torn \in [SlotKeys -> Slot]
      BY <3>1, BadType, BlobType DEF CopyInv, TypeOK
    <3>3. \A k \in SlotKeys : torn[k].valid => SlotKey(torn[k].seq) = k
      BY <3>1 DEF CopyInv, InOwnSlot, TypeOK, Bad, Blob
    <3>4. twoCopies => torn[Other(key)].valid
      BY <2>2, <3>1 DEF CopyInv, Anchored, TypeOK
    <3> HIDE DEF key, torn
    <3> QED BY <2>2, <3>1, <3>2, <3>3, <3>4, CopyBoot DEF key, torn
  <2> QED BY <1>7, <2>1, <2>2 DEF PowerCut
<1>8. ASSUME NEW t \in Tasks, Restart(t)
      PROVE  InOwnSlot' /\ Anchored'
  BY <1>8, <1>2, CopyBoot DEF Restart, CopyInv, InOwnSlot, TypeOK
<1> QED BY <1>3, <1>4, <1>5, <1>6, <1>7, <1>8 DEF Next

\* Two alternating slots leave a readable reading behind whatever happens:
\* from the moment both have been written, some slot always passes its CRC,
\* for any number of tasks saving at the same time, failed writes and power
\* cuts in the middle of a write - as long as every boot loads the slots.
THEOREM CopySurvives ==
  ASSUME ~MeterMayFail
  PROVE  Spec => []SomeCopySurvives
<1>1. Init => CopyInv
  <2> SUFFICES ASSUME Init PROVE CopyInv
    OBVIOUS
  <2> QED BY TypeInit DEF Init, CopyInv, InOwnSlot, Anchored, Bad
<1>2. CopyInv /\ [Next]_vars => CopyInv'
  BY CopyNext
<1>3. CopyInv => SomeCopySurvives
  BY SlotKeyType DEF CopyInv, Anchored, SomeCopySurvives
<1> QED BY <1>1, <1>2, <1>3, PTL DEF Spec
-----------------------------------------------------------------------------
(* One save at a time: the two slots are one atomic cell.                  *)

Serial == ~Overlap /\ FailKinds \subseteq {"kept"} /\ ~MeterMayFail

\* s is the number of the newest blob, and what stands in the other slot, if
\* anything, is the blob before it.
Holds(sl, s) ==
    \/ s = 0 /\ \A k \in SlotKeys : ~sl[k].valid
    \/ /\ sl[SlotKey(s)].valid
       /\ sl[SlotKey(s)].seq = s
       /\ sl[Other(SlotKey(s))].valid => NextSeq(sl[Other(SlotKey(s))].seq) = s

\* At most one task is inside energy_accum_save().
OneSaver == \A t, u \in Tasks : InSave(t) /\ InSave(u) => t = u

\* s_persist_seq is the number of the newest blob, except between a write and
\* its bookkeeping, when it is one behind.
InStep ==
    /\ (\A t \in Tasks : pc[t] # "note") => Holds(slot, pseq)
    /\ \A t \in Tasks :
        /\ pc[t] = "write" => work[t].seq = NextSeq(pseq)
        /\ pc[t] = "note" => Holds(slot, work[t].seq)

CellInv == TypeOK /\ OneSaver /\ InStep

LEMMA NextIsNewer ==
  ASSUME NEW s \in Seqs
  PROVE  Newer(NextSeq(s), s) /\ ~Newer(s, NextSeq(s))
  BY SeqAssumption DEF Seqs, NextSeq, Newer

\* The load finds the newest blob.
LEMMA HoldsNewest ==
  ASSUME NEW sl \in [SlotKeys -> Slot], NEW s \in Seqs, Holds(sl, s)
  PROVE  /\ NewestSlot(sl).seq = s
         /\ sl[SlotKey(s)].valid => NewestSlot(sl) = sl[SlotKey(s)]
         /\ ~sl[SlotKey(s)].valid => NewestSlot(sl) = Bad
<1> DEFINE k == SlotKey(s)
           o == sl[Other(k)]
<1>1. k \in SlotKeys /\ Other(k) \in SlotKeys /\ Other(k) # k
  BY SlotKeyType, OtherKey
<1>2. CASE s = 0 /\ \A j \in SlotKeys : ~sl[j].valid
  BY <1>1, <1>2 DEF NewestSlot, Bad
<1>3. CASE sl[k].valid /\ sl[k].seq = s /\ (o.valid => NextSeq(o.seq) = s)
  <2>1. o.valid => Newer(s, o.seq) /\ ~Newer(o.seq, s)
    <3>1. o.seq \in Seqs
      BY <1>1 DEF Slot
    <3> QED BY <1>3, <3>1, NextIsNewer
  <2>2. NewestSlot(sl) = sl[k]
    <3>1. CASE k = "A"
      BY <1>3, <2>1, <3>1 DEF NewestSlot, Other
    <3>2. CASE k = "B"
      BY <1>3, <2>1, <3>2 DEF NewestSlot, Other
    <3> QED BY <1>1, <3>1, <3>2
  <2> QED BY <1>3, <2>2
<1> QED BY <1>2, <1>3 DEF Holds

\* The next blob goes over the other slot: written, it is the newest; torn, the
\* one before it still is.
LEMMA HoldsNext ==
  ASSUME NEW sl \in [SlotKeys -> Slot], NEW s \in Seqs, Holds(sl, s),
         NEW w \in Work, w.seq = NextSeq(s)
  PROVE  /\ Holds([sl EXCEPT ![SlotKey(w.seq)] = Blob(w)], w.seq)
         /\ Holds([sl EXCEPT ![SlotKey(w.seq)] = Bad], s)
<1> DEFINE k == SlotKey(w.seq)
<1>1. k \in SlotKeys /\ Other(k) = SlotKey(s) /\ Other(SlotKey(s)) = k
  BY SlotKeyType, NextSeqFlips DEF Other
<1>2. SlotKey(s) \in SlotKeys /\ SlotKey(s) # k
  BY <1>1, SlotKeyType, OtherKey
<1> QED BY <1>1, <1>2 DEF Holds, Blob, Bad

\* A boot restores the newest blob and starts from its number.
LEMMA CellBoot ==
  ASSUME Serial, NEW sl \in [SlotKeys -> Slot], NEW s \in Seqs, Holds(sl, s), Boot(sl)
  PROVE  OneSaver' /\ InStep' /\ ram' = Durable'
<1>1. slot' = sl /\ pseq' = NewestSlot(sl).seq /\ pc' = [t \in Tasks |-> "idle"]
      /\ ram' = NewestSlot(sl).rd
  BY DEF Boot, Serial
<1>2. pseq' = s
  BY <1>1, HoldsNewest
<1> QED BY <1>1, <1>2 DEF OneSaver, InSave, InStep, Durable
\* While a task is before its bookkeeping, no other task is at it.
LEMMA SaverAlone ==
  ASSUME CellInv, NEW t \in Tasks, pc[t] \in {"snapshot", "seq", "write"}
  PROVE  Holds(slot, pseq)
  BY DEF CellInv, OneSaver, InSave, InStep

\* What is left to show when t alone is, or was, inside a save.
LEMMA StepInStep ==
  ASSUME NEW t \in Tasks,
         \A u \in Tasks \ {t} : pc'[u] \notin {"write", "note"},
         pc'[t] # "note" => Holds(slot', pseq'),
         pc'[t] = "write" => work'[t].seq = NextSeq(pseq'),
         pc'[t] = "note" => Holds(slot', work'[t].seq)
  PROVE  InStep'
  BY DEF InStep

LEMMA CellSave ==
  ASSUME Serial, CellInv, NEW t \in Tasks,
         \/ Snapshot(t) \/ TakeSeq(t) \/ Write(t) \/ WriteFails(t) \/ Note(t)
  PROVE  OneSaver' /\ InStep'
<1>1. TypeOK /\ OneSaver /\ InStep
  BY DEF CellInv
<1>2. \A u \in Tasks \ {t} : pc'[u] = pc[u] /\ ~InSave(u)
  <2>1. \A u \in Tasks \ {t} : pc'[u] = pc[u]
    BY <1>1 DEF Snapshot, TakeSeq, Write, WriteFails, Note, Return, TypeOK
  <2>2. InSave(t)
    BY DEF Snapshot, TakeSeq, Write, WriteFails, Note, InSave
  <2> QED BY <1>1, <2>1, <2>2 DEF OneSaver
<1>3. OneSaver'
  BY <1>2 DEF OneSaver, InSave
<1>4. \A u \in Tasks \ {t} : pc'[u] \notin {"write", "note"}
  BY <1>2 DEF InSave
<1>5. CASE Snapshot(t)
  <2>1. Holds(slot, pseq)
    BY <1>5, SaverAlone DEF Snapshot
  <2>2. slot' = slot /\ pseq' = pseq /\ pc'[t] = "seq"
    BY <1>1, <1>5 DEF Snapshot, TypeOK
  <2> QED BY <1>3, <1>4, <2>1, <2>2, StepInStep
<1>6. CASE TakeSeq(t)
  <2>1. Holds(slot, pseq)
    BY <1>6, SaverAlone DEF TakeSeq
  <2>2. slot' = slot /\ pseq' = pseq /\ pc'[t] = "write"
    BY <1>1, <1>6 DEF TakeSeq, TypeOK
  <2>3. work'[t].seq = NextSeq(pseq)
    BY <1>1, <1>6 DEF TakeSeq, TypeOK, Work
  <2> QED BY <1>3, <1>4, <2>1, <2>2, <2>3, StepInStep
<1>7. CASE Write(t)
  <2>1. Holds(slot, pseq) /\ work[t].seq = NextSeq(pseq)
    BY <1>1, <1>7, SaverAlone DEF Write, InStep
  <2>2. slot' = [slot EXCEPT ![SlotKey(work[t].seq)] = Blob(work[t])]
        /\ work' = work /\ pc'[t] = "note"
    BY <1>1, <1>7 DEF Write, TypeOK
  <2>3. Holds(slot', work[t].seq)
    BY <1>1, <2>1, <2>2, HoldsNext DEF TypeOK
  <2> QED BY <1>3, <1>4, <2>2, <2>3, StepInStep
<1>8. CASE WriteFails(t)
  <2>1. Holds(slot, pseq)
    BY <1>8, SaverAlone DEF WriteFails
  <2>2. slot' = slot /\ pseq' = pseq
    BY <1>8 DEF WriteFails, Serial
  <2>3. pc'[t] \notin {"write", "note"}
    BY <1>1, <1>8 DEF WriteFails, Return, TypeOK
  <2> QED BY <1>3, <1>4, <2>1, <2>2, <2>3, StepInStep
<1>9. CASE Note(t)
  <2>1. Holds(slot, work[t].seq) /\ slot' = slot /\ pseq' = work[t].seq
    BY <1>1, <1>9 DEF Note, InStep
  <2>2. pc'[t] \notin {"write", "note"}
    BY <1>1, <1>9 DEF Note, Return, TypeOK
  <2> QED BY <1>3, <1>4, <2>1, <2>2, StepInStep
<1> QED BY <1>5, <1>6, <1>7, <1>8, <1>9

\* A call enters the save only when no other task is inside.
LEMMA CellOperator ==
  ASSUME Serial, CellInv, NEW t \in Tasks,
         \/ ResetEnergy(t) \/ ResetDemand(t) \/ SetDemandWindow(t)
         \/ FlushForRestart(t) \/ OpenPortal(t)
  PROVE  OneSaver' /\ InStep'
<1>1. slot' = slot /\ pseq' = pseq
  BY DEF ResetEnergy, ResetDemand, SetDemandWindow, FlushForRestart, OpenPortal
<1>2. CASE pc' = pc /\ work' = work
  BY <1>1, <1>2 DEF CellInv, OneSaver, InSave, InStep
<1>3. ASSUME NEW restart \in BOOLEAN, Enter(t, restart)
      PROVE  OneSaver' /\ InStep'
  <2>1. \A u \in Tasks \ {t} : ~InSave(u)
    BY <1>3 DEF Enter, MayEnterSave, Serial
  <2>2. \A u \in Tasks \ {t} : pc'[u] = pc[u]
    BY <1>3 DEF Enter, CellInv, TypeOK
  <2>3. pc'[t] = "snapshot" /\ pc[t] # "note"
    BY <1>3 DEF Enter, CellInv, TypeOK,
           ResetEnergy, ResetDemand, SetDemandWindow, FlushForRestart, OpenPortal, Operator
  <2> QED BY <1>1, <2>1, <2>2, <2>3 DEF CellInv, OneSaver, InSave, InStep
<1> QED BY <1>2, <1>3
        DEF ResetEnergy, ResetDemand, SetDemandWindow, FlushForRestart, OpenPortal

\* A boot in the middle of whatever goes on: the slots still hold the newest
\* blob, the one being written or the one before it.
LEMMA CellPowerCut ==
  ASSUME Serial, CellInv, PowerCut \/ \E t \in Tasks : Restart(t)
  PROVE  /\ OneSaver' /\ InStep' /\ ram' = Durable'
         /\ Durable' \in Staged \cup {Durable}
         /\ pc' = [t \in Tasks |-> "idle"]
<1> USE DEF CellInv
<1>1. PICK s \in Seqs : Holds(slot, s)
  <2>1. CASE \A t \in Tasks : pc[t] # "note"
    BY <2>1 DEF InStep, TypeOK
  <2>2. CASE \E t \in Tasks : pc[t] = "note"
    BY <2>2 DEF InStep, TypeOK, Work
  <2> QED BY <2>1, <2>2
<1>2. CASE Boot(slot)
  <2>1. Durable' = Durable
    BY <1>2 DEF Boot, Durable
  <2> QED BY <1>1, <1>2, <2>1, CellBoot DEF TypeOK, Boot, Serial
<1>3. ASSUME NEW t \in Tasks, pc[t] = "write", NEW b \in {Bad, Blob(work[t])},
             Boot([slot EXCEPT ![SlotKey(work[t].seq)] = b])
      PROVE  /\ OneSaver' /\ InStep' /\ ram' = Durable'
             /\ Durable' \in Staged \cup {Durable}
             /\ pc' = [u \in Tasks |-> "idle"]
  <2> DEFINE torn == [slot EXCEPT ![SlotKey(work[t].seq)] = b]
  <2>1. Holds(slot, pseq) /\ pseq \in Seqs /\ work[t] \in Work /\ work[t].seq \in Seqs
        /\ work[t].seq = NextSeq(pseq)
    BY <1>3, SaverAlone DEF InStep, TypeOK, Work
  <2>2. slot' = torn /\ pc' = [u \in Tasks |-> "idle"] /\ torn \in [SlotKeys -> Slot]
    BY <1>3, BadType, BlobType, SlotKeyType DEF Boot, TypeOK, Serial
  <2>3. CASE b = Blob(work[t])
    <3>1. Holds(torn, work[t].seq)
      BY <2>1, <2>3, HoldsNext DEF TypeOK
    <3>2. torn[SlotKey(work[t].seq)] = Blob(work[t])
      BY <2>3, SlotKeyType DEF TypeOK
    <3>3. Durable' = work[t].rd
      <4>1. NewestSlot(torn) = Blob(work[t])
        <5>1. torn[SlotKey(work[t].seq)].valid
          BY <3>2 DEF Blob
        <5> HIDE DEF torn
        <5> QED BY <2>1, <2>2, <3>1, <3>2, <5>1, HoldsNewest
      <4> QED BY <2>2, <4>1 DEF Durable, Blob
    <3>4. work[t].rd \in Staged
      BY <1>3 DEF Staged
    <3> QED BY <1>3, <2>1, <2>2, <3>1, <3>3, <3>4, CellBoot
  <2>4. CASE b = Bad
    <3>1. Holds(torn, pseq)
      BY <2>1, <2>4, HoldsNext DEF TypeOK
    <3>2. torn[SlotKey(pseq)] = slot[SlotKey(pseq)]
      BY <2>1, NextSeqFlips, SlotKeyType, OtherKey DEF TypeOK
    <3>3. Durable' = Durable
      <4>1. slot \in [SlotKeys -> Slot]
        BY DEF TypeOK
      <4>2. NewestSlot(torn) = NewestSlot(slot)
        <5> HIDE DEF torn
        <5>1. CASE slot[SlotKey(pseq)].valid
          BY <2>1, <2>2, <3>1, <3>2, <4>1, <5>1, HoldsNewest
        <5>2. CASE ~slot[SlotKey(pseq)].valid
          BY <2>1, <2>2, <3>1, <3>2, <4>1, <5>2, HoldsNewest
        <5> QED BY <5>1, <5>2
      <4> QED BY <2>2, <4>2 DEF Durable
    <3> QED BY <1>3, <2>1, <2>2, <3>1, <3>3, CellBoot
  <2> QED BY <2>3, <2>4
<1> QED BY <1>2, <1>3 DEF PowerCut, Restart

LEMMA CellNextInv ==
  ASSUME Serial, CellInv, [Next]_vars
  PROVE  CellInv'
<1>1. TypeOK'
  BY TypeNext DEF CellInv
<1> SUFFICES OneSaver' /\ InStep'
  BY <1>1 DEF CellInv
<1>2. CASE Poll \/ Drain \/ Service
  <2>1. slot' = slot /\ pseq' = pseq /\ work' = work
    BY <1>2 DEF Poll, Drain, Service
  <2>2. \A u \in Tasks \ {Meter} : pc'[u] = pc[u]
    BY <1>2 DEF Poll, Drain, Service, CellInv, TypeOK
  <2>3. /\ pc'[Meter] \notin {"seq", "write", "note"}
        /\ pc[Meter] \in {"idle", "service"}
        /\ pc'[Meter] = "snapshot" => \A u \in Tasks \ {Meter} : ~InSave(u)
    BY <1>2, TasksAssumption DEF Poll, Drain, Service, MayEnterSave, Serial, CellInv, TypeOK
  <2> QED BY <2>1, <2>2, <2>3, TasksAssumption DEF CellInv, OneSaver, InSave, InStep
<1>3. ASSUME NEW t \in Tasks,
             \/ Snapshot(t) \/ TakeSeq(t) \/ Write(t) \/ WriteFails(t) \/ Note(t)
      PROVE  OneSaver' /\ InStep'
  BY <1>3, CellSave
<1>4. ASSUME NEW t \in Tasks,
             \/ ResetEnergy(t) \/ ResetDemand(t) \/ SetDemandWindow(t)
             \/ FlushForRestart(t) \/ OpenPortal(t)
      PROVE  OneSaver' /\ InStep'
  BY <1>4, CellOperator
<1>5. CASE BeginDownload \/ EndPause \/ UNCHANGED vars
  BY <1>5 DEF BeginDownload, EndPause, vars, CellInv, OneSaver, InSave, InStep
<1>6. CASE PowerCut \/ \E t \in Tasks : Restart(t)
  BY <1>6, CellPowerCut
<1> QED BY <1>2, <1>3, <1>4, <1>5, <1>6 DEF Next

\* A write that lands is what the next boot will find.
LEMMA WriteReplaces ==
  ASSUME Serial, CellInv, NEW t \in Tasks, Write(t)
  PROVE  Durable' = work[t].rd /\ pc'[t] = "note"
<1>1. Holds(slot, pseq) /\ work[t].seq = NextSeq(pseq)
      /\ pseq \in Seqs /\ work[t] \in Work /\ work[t].seq \in Seqs
  BY SaverAlone DEF CellInv, Write, InStep, TypeOK, Work
<1>2. slot' = [slot EXCEPT ![SlotKey(work[t].seq)] = Blob(work[t])] /\ pc'[t] = "note"
      /\ slot \in [SlotKeys -> Slot]
  BY DEF CellInv, Write, TypeOK
<1>3. slot' \in [SlotKeys -> Slot] /\ Holds(slot', work[t].seq)
  BY <1>1, <1>2, BlobType, HoldsNext
<1>4. slot'[SlotKey(work[t].seq)] = Blob(work[t]) /\ Blob(work[t]).valid
  BY <1>2, SlotKeyType DEF Blob
<1>5. NewestSlot(slot') = Blob(work[t])
  BY <1>1, <1>3, <1>4, HoldsNewest
<1> QED BY <1>2, <1>5 DEF Durable, Blob

-----------------------------------------------------------------------------
(* Refinement: every step is a step of the cell, or leaves it alone.       *)

\* The snapshots staged by tasks other than t are those that count after t's step.
LEMMA StagedSame ==
  ASSUME \A u \in Tasks : /\ pc'[u] \in {"seq", "write"} <=> pc[u] \in {"seq", "write"}
                          /\ pc[u] \in {"seq", "write"} => work'[u].rd = work[u].rd
  PROVE  Staged' = Staged
  BY DEF Staged

LEMMA RefineSave ==
  ASSUME Serial, CellInv, NEW t \in Tasks,
         \/ Snapshot(t) \/ TakeSeq(t) \/ Write(t) \/ WriteFails(t) \/ Note(t)
  PROVE  Cell!CellNext \/ UNCHANGED Cell!cellVars
<1>1. TypeOK /\ OneSaver /\ InStep
  BY DEF CellInv
<1>2. ram' = ram
  BY DEF Snapshot, TakeSeq, Write, WriteFails, Note
<1>3. \A u \in Tasks \ {t} : pc'[u] = pc[u] /\ work'[u] = work[u] /\ ~InSave(u)
  <2>1. \A u \in Tasks \ {t} : pc'[u] = pc[u] /\ work'[u] = work[u]
    BY <1>1 DEF Snapshot, TakeSeq, Write, WriteFails, Note, Return, TypeOK
  <2>2. InSave(t)
    BY DEF Snapshot, TakeSeq, Write, WriteFails, Note, InSave
  <2> QED BY <1>1, <2>1, <2>2 DEF OneSaver
<1>4. CASE Snapshot(t)
  <2>1. Staged' = {ram}
    <3>1. pc'[t] = "seq" /\ work'[t].rd = ram
      BY <1>1, <1>4 DEF Snapshot, TypeOK, Work
    <3> QED BY <1>3, <3>1 DEF Staged, InSave
  <2>2. Staged = {}
    BY <1>3, <1>4 DEF Staged, InSave, Snapshot
  <2>3. Durable' = Durable
    BY <1>4 DEF Snapshot, Durable
  <2> QED BY <1>2, <2>1, <2>2, <2>3 DEF Cell!CellNext, Cell!Stage
<1>5. CASE TakeSeq(t)
  <2>1. pc[t] = "seq" /\ pc'[t] = "write" /\ work'[t].rd = work[t].rd
    BY <1>1, <1>5 DEF TakeSeq, TypeOK, Work
  <2>2. Staged' = Staged
    BY <1>3, <2>1, StagedSame
  <2>3. Durable' = Durable
    BY <1>5 DEF TakeSeq, Durable
  <2> QED BY <1>2, <2>2, <2>3 DEF Cell!cellVars
<1>6. CASE Write(t)
  <2>1. Durable' = work[t].rd /\ pc'[t] = "note"
    BY <1>6, WriteReplaces
  <2>2. Staged = {work[t].rd} /\ Staged' = {}
    <3>1. pc[t] = "write"
      BY <1>6 DEF Write
    <3> QED BY <1>3, <2>1, <3>1 DEF Staged, InSave
  <2> QED BY <1>2, <2>1, <2>2 DEF Cell!CellNext, Cell!Commit
<1>7. CASE WriteFails(t)
  <2>1. Durable' = Durable
    BY <1>7 DEF WriteFails, Serial, Durable
  <2>2. Staged = {work[t].rd} /\ Staged' = {}
    <3>1. pc[t] = "write" /\ pc'[t] \notin {"seq", "write"}
      BY <1>1, <1>7 DEF WriteFails, Return, TypeOK
    <3> QED BY <1>3, <3>1 DEF Staged, InSave
  <2> QED BY <1>2, <2>1, <2>2 DEF Cell!CellNext, Cell!Abandon
<1>8. CASE Note(t)
  <2>1. pc[t] = "note" /\ pc'[t] \notin {"seq", "write"}
    BY <1>1, <1>8 DEF Note, Return, TypeOK
  <2>2. Staged' = Staged
    BY <1>3, <2>1, StagedSame
  <2>3. Durable' = Durable
    BY <1>8 DEF Note, Durable
  <2> QED BY <1>2, <2>2, <2>3 DEF Cell!cellVars
<1> QED BY <1>4, <1>5, <1>6, <1>7, <1>8

LEMMA RefineNext ==
  ASSUME Serial, CellInv, [Next]_vars
  PROVE  [Cell!CellNext]_(Cell!cellVars)
<1>1. TypeOK /\ ram' \in Reading
  BY TypeNext DEF CellInv, TypeOK
<1>2. CASE Poll \/ Drain \/ Service
  <2>1. Durable' = Durable
    BY <1>2 DEF Poll, Drain, Service, Durable
  <2>2. \A u \in Tasks : /\ pc'[u] \in {"seq", "write"} <=> pc[u] \in {"seq", "write"}
                         /\ work'[u] = work[u]
    BY <1>1, <1>2 DEF Poll, Drain, Service, TypeOK
  <2>3. Staged' = Staged
    BY <2>2, StagedSame
  <2> QED BY <1>1, <2>1, <2>3 DEF Cell!CellNext, Cell!Change
<1>3. ASSUME NEW t \in Tasks,
             \/ Snapshot(t) \/ TakeSeq(t) \/ Write(t) \/ WriteFails(t) \/ Note(t)
      PROVE  [Cell!CellNext]_(Cell!cellVars)
  BY <1>3, RefineSave
<1>4. ASSUME NEW t \in Tasks,
             \/ ResetEnergy(t) \/ ResetDemand(t) \/ SetDemandWindow(t)
             \/ FlushForRestart(t) \/ OpenPortal(t)
      PROVE  [Cell!CellNext]_(Cell!cellVars)
  <2>1. Durable' = Durable
    BY <1>4 DEF ResetEnergy, ResetDemand, SetDemandWindow, FlushForRestart, OpenPortal, Durable
  <2>2. \A u \in Tasks : /\ pc'[u] \in {"seq", "write"} <=> pc[u] \in {"seq", "write"}
                         /\ pc[u] \in {"seq", "write"} => work'[u].rd = work[u].rd
    BY <1>1, <1>4 DEF ResetEnergy, ResetDemand, SetDemandWindow, FlushForRestart, OpenPortal,
                      Enter, Operator, TypeOK
  <2>3. Staged' = Staged
    BY <2>2, StagedSame
  <2> QED BY <1>1, <2>1, <2>3 DEF Cell!CellNext, Cell!Change
<1>5. CASE BeginDownload \/ EndPause \/ UNCHANGED vars
  BY <1>5 DEF BeginDownload, EndPause, vars, Staged, Durable, Cell!cellVars
<1>6. CASE PowerCut \/ \E t \in Tasks : Restart(t)
  <2>1. ram' = Durable' /\ Durable' \in Staged \cup {Durable}
    BY <1>6, CellPowerCut
  <2>2. Staged' = {}
    BY <1>6, CellPowerCut DEF Staged
  <2> QED BY <2>1, <2>2 DEF Cell!CellNext, Cell!PowerLoss
<1> QED BY <1>2, <1>3, <1>4, <1>5, <1>6 DEF Next

LEMMA CellInitInv == Init => CellInv /\ Cell!CellInit
<1> SUFFICES ASSUME Init PROVE CellInv /\ Cell!CellInit
  OBVIOUS
<1>1. CellInv
  BY TypeInit DEF Init, CellInv, OneSaver, InSave, InStep, Holds, Bad
<1>2. Durable = Fresh
  BY DEF Init, Durable, NewestSlot, Bad
<1>3. Staged = {}
  BY DEF Init, Staged
<1> QED BY <1>1, <1>2, <1>3 DEF Init, Cell!CellInit

\* "Two alternating slots + CRC32 make a write atomic in practice"
\* (energy_meter_task.c:158-161): as long as saves do not overlap, a failed write
\* leaves the old blob and every boot loads the slots, the two blobs implement
\* one cell that is replaced as a whole or not at all, at any moment of power loss.
THEOREM SerialAtomicCell ==
  ASSUME Serial
  PROVE  Spec => AtomicCell
<1>1. CellInv /\ [Next]_vars => CellInv'
  BY CellNextInv
<1>2. CellInv /\ [Next]_vars => [Cell!CellNext]_(Cell!cellVars)
  BY RefineNext
<1> QED BY <1>1, <1>2, CellInitInv, PTL DEF Spec, AtomicCell, Cell!CellSpec
-----------------------------------------------------------------------------
(* The durable reading never goes back.                                    *)

\* NVS, the snapshots on their way to it and RAM are in the order of their age.
InOrder ==
    /\ NoOlder(Durable, ram)
    /\ \A t \in Tasks : pc[t] \in {"seq", "write"} =>
         NoOlder(Durable, work[t].rd) /\ NoOlder(work[t].rd, ram)

LEMMA NoOlderOrder ==
  ASSUME NEW a \in Reading, NEW b \in Reading, NEW c \in Reading
  PROVE  /\ NoOlder(a, a)
         /\ NoOlder(a, b) /\ NoOlder(b, c) => NoOlder(a, c)
  BY DEF NoOlder, Reading

LEMMA DurableType == ASSUME TypeOK PROVE Durable \in Reading
  BY NewestSlotType DEF TypeOK, Durable, Slot

LEMMA DurableTypeNext == TypeOK' => (Durable \in Reading)'
<1>1. TypeOK => Durable \in Reading
  BY DurableType
<1> QED BY <1>1, PTL

LEMMA DurableTypes ==
  CellInv /\ [Next]_vars => /\ Durable.epoch \in Nat /\ Durable.wh \in Nat
                           /\ Durable'.epoch \in Nat /\ Durable'.wh \in Nat
<1> SUFFICES ASSUME CellInv, [Next]_vars
             PROVE  Durable \in Reading /\ Durable' \in Reading
  BY BoundAssumption DEF Reading
<1>1. TypeOK /\ TypeOK'
  BY TypeNext DEF CellInv
<1> QED BY <1>1, DurableType, DurableTypeNext

\* A step that leaves NVS and the staged snapshots alone and takes RAM forward.
LEMMA OrderForward ==
  ASSUME TypeOK, TypeOK', InOrder, Durable' = Durable, NoOlder(ram, ram'),
         \A u \in Tasks : pc'[u] \in {"seq", "write"} =>
             pc[u] \in {"seq", "write"} /\ work'[u].rd = work[u].rd
  PROVE  InOrder'
<1>1. Durable \in Reading /\ ram \in Reading /\ ram' \in Reading
      /\ \A u \in Tasks : work[u].rd \in Reading
  BY DurableType DEF TypeOK, Work
<1>2. NoOlder(Durable', ram')
  BY <1>1, NoOlderOrder DEF InOrder
<1>3. ASSUME NEW u \in Tasks, pc'[u] \in {"seq", "write"}
      PROVE  NoOlder(Durable', work'[u].rd) /\ NoOlder(work'[u].rd, ram')
  BY <1>1, <1>3, NoOlderOrder DEF InOrder
<1> QED BY <1>2, <1>3 DEF InOrder

LEMMA OrderSave ==
  ASSUME Serial, CellInv, InOrder, TypeOK', NEW t \in Tasks,
         \/ Snapshot(t) \/ TakeSeq(t) \/ Write(t) \/ WriteFails(t) \/ Note(t)
  PROVE  InOrder' /\ NoOlder(Durable, Durable')
<1>1. TypeOK /\ OneSaver /\ InStep
  BY DEF CellInv
<1>2. /\ Durable \in Reading /\ ram \in Reading /\ work[t].rd \in Reading
      /\ NoOlder(Durable, Durable) /\ NoOlder(ram, ram)
  BY <1>1, DurableType, NoOlderOrder DEF TypeOK, Work
<1>3. ram' = ram
  BY DEF Snapshot, TakeSeq, Write, WriteFails, Note
<1>4. \A u \in Tasks \ {t} : pc'[u] = pc[u] /\ work'[u] = work[u] /\ ~InSave(u)
  <2>1. \A u \in Tasks \ {t} : pc'[u] = pc[u] /\ work'[u] = work[u]
    BY <1>1 DEF Snapshot, TakeSeq, Write, WriteFails, Note, Return, TypeOK
  <2>2. InSave(t)
    BY DEF Snapshot, TakeSeq, Write, WriteFails, Note, InSave
  <2> QED BY <1>1, <2>1, <2>2 DEF OneSaver
<1>5. CASE Snapshot(t)
  <2>1. Durable' = Durable
    BY <1>5 DEF Snapshot, Durable
  <2>2. work'[t].rd = ram
    BY <1>1, <1>5 DEF Snapshot, TypeOK, Work
  <2> QED BY <1>2, <1>3, <1>4, <2>1, <2>2 DEF InOrder, InSave
<1>6. CASE Write(t)
  <2>1. Durable' = work[t].rd /\ pc'[t] = "note"
    BY <1>6, WriteReplaces
  <2>2. NoOlder(Durable, work[t].rd) /\ NoOlder(work[t].rd, ram)
    BY <1>6 DEF Write, InOrder
  <2> QED BY <1>3, <1>4, <2>1, <2>2 DEF InOrder, InSave
<1>7. CASE TakeSeq(t) \/ WriteFails(t) \/ Note(t)
  <2>1. Durable' = Durable
    BY <1>7 DEF TakeSeq, WriteFails, Note, Durable, Serial
  <2>2. pc'[t] \in {"seq", "write"} => pc[t] \in {"seq", "write"} /\ work'[t].rd = work[t].rd
    BY <1>1, <1>7 DEF TakeSeq, WriteFails, Note, Return, TypeOK, Work
  <2> QED BY <1>1, <1>2, <1>3, <1>4, <2>1, <2>2, OrderForward
<1> QED BY <1>5, <1>6, <1>7

LEMMA OrderNext ==
  ASSUME Serial, CellInv, InOrder, [Next]_vars
  PROVE  InOrder' /\ NoOlder(Durable, Durable')
<1>1. TypeOK /\ TypeOK'
  BY TypeNext DEF CellInv
<1>2. /\ Durable \in Reading /\ ram \in Reading
      /\ NoOlder(Durable, Durable) /\ NoOlder(ram, ram)
  BY <1>1, DurableType, NoOlderOrder DEF TypeOK
<1>3. CASE Poll \/ Drain \/ Service
  <2>1. Durable' = Durable
    BY <1>3 DEF Poll, Drain, Service, Durable
  <2>2. \A u \in Tasks : pc'[u] \in {"seq", "write"} =>
           pc[u] \in {"seq", "write"} /\ work'[u].rd = work[u].rd
    BY <1>1, <1>3 DEF Poll, Drain, Service, TypeOK
  <2>3. NoOlder(ram, ram')
    <3>1. CASE Poll
      <4>1. PICK e \in 0..MaxStep, rise \in {0, 1} :
              ram' = [ram EXCEPT !.wh = @ + e, !.peak = @ + rise]
        BY <3>1 DEF Poll
      <4>2. ram'.epoch = ram.epoch /\ ram'.wh = ram.wh + e
        BY <1>2, <4>1 DEF Reading
      <4> QED BY <1>2, <4>2, BoundAssumption DEF NoOlder, Reading
    <3>2. CASE Drain
      <4>1. PICK e \in 1..MaxStep : ram' = [ram EXCEPT !.wh = @ + e]
        BY <3>2 DEF Drain
      <4>2. ram'.epoch = ram.epoch /\ ram'.wh = ram.wh + e
        BY <1>2, <4>1 DEF Reading
      <4> QED BY <1>2, <4>2, BoundAssumption DEF NoOlder, Reading
    <3>3. CASE Service
      BY <1>2, <3>3 DEF Service
    <3> QED BY <1>3, <3>1, <3>2, <3>3
  <2> QED BY <1>1, <1>2, <2>1, <2>2, <2>3, OrderForward
<1>4. ASSUME NEW t \in Tasks,
             \/ Snapshot(t) \/ TakeSeq(t) \/ Write(t) \/ WriteFails(t) \/ Note(t)
      PROVE  InOrder' /\ NoOlder(Durable, Durable')
  BY <1>1, <1>4, OrderSave
<1>5. ASSUME NEW t \in Tasks,
             \/ ResetEnergy(t) \/ ResetDemand(t) \/ SetDemandWindow(t)
             \/ FlushForRestart(t) \/ OpenPortal(t)
      PROVE  InOrder' /\ NoOlder(Durable, Durable')
  <2>1. Durable' = Durable
    BY <1>5 DEF ResetEnergy, ResetDemand, SetDemandWindow, FlushForRestart, OpenPortal, Durable
  <2>2. \A u \in Tasks : pc'[u] \in {"seq", "write"} =>
           pc[u] \in {"seq", "write"} /\ work'[u].rd = work[u].rd
    BY <1>1, <1>5 DEF ResetEnergy, ResetDemand, SetDemandWindow, FlushForRestart, OpenPortal,
                      Enter, TypeOK
  <2>3. NoOlder(ram, ram')
    <3>1. CASE ResetEnergy(t)
      <4>1. ram'.epoch = ram.epoch + 1 /\ ram.epoch \in Nat
        BY <1>2, <3>1, BoundAssumption DEF ResetEnergy, Reading
      <4> QED BY <4>1 DEF NoOlder
    <3>2. CASE ResetDemand(t) \/ SetDemandWindow(t) \/ FlushForRestart(t) \/ OpenPortal(t)
      <4>1. ram'.epoch = ram.epoch /\ ram'.wh = ram.wh
        BY <1>2, <3>2 DEF ResetDemand, SetDemandWindow, FlushForRestart, OpenPortal, Reading
      <4> QED BY <1>2, <4>1 DEF NoOlder, Reading
    <3> QED BY <1>5, <3>1, <3>2
  <2> QED BY <1>1, <1>2, <2>1, <2>2, <2>3, OrderForward
<1>6. CASE BeginDownload \/ EndPause \/ UNCHANGED vars
  <2>1. Durable' = Durable /\ ram' = ram /\ pc' = pc /\ work' = work
    BY <1>6 DEF BeginDownload, EndPause, vars, Durable
  <2> QED BY <1>1, <1>2, <2>1, OrderForward
<1>7. CASE PowerCut \/ \E t \in Tasks : Restart(t)
  <2>1. /\ ram' = Durable' /\ Durable' \in Staged \cup {Durable}
        /\ pc' = [t \in Tasks |-> "idle"]
    BY <1>7, CellPowerCut
  <2>2. NoOlder(Durable, Durable')
    BY <1>2, <2>1 DEF Staged, InOrder
  <2>3. NoOlder(Durable', ram')
    BY <1>1, <2>1, DurableType, NoOlderOrder DEF TypeOK
  <2> QED BY <2>1, <2>2, <2>3 DEF InOrder
<1> QED BY <1>3, <1>4, <1>5, <1>6, <1>7 DEF Next

LEMMA OrderInit == Init => CellInv /\ InOrder
<1> SUFFICES ASSUME Init PROVE CellInv /\ InOrder
  OBVIOUS
<1>1. Durable = Fresh /\ ram = Fresh
  BY CellInitInv DEF Init, Cell!CellInit
<1> QED BY <1>1, CellInitInv, FreshType, NoOlderOrder DEF Init, InOrder

\* What the next boot would restore never goes back, over any number of power
\* cuts, failed writes and wraps of the sequence number: only a reset lowers it.
THEOREM SerialNeverRegresses ==
  ASSUME Serial
  PROVE  Spec => DurableNeverRegresses
<1>1. CellInv /\ InOrder /\ [Next]_vars
        => CellInv' /\ InOrder' /\ NoOlder(Durable, Durable')
  BY CellNextInv, OrderNext
<1> QED BY <1>1, OrderInit, PTL DEF Spec, DurableNeverRegresses

\* An operator's reset stays: between saves that do not overlap none brings back the epoch
\* before it (energy_meter_task.c:1241-1242).  The run EnergyResetRace shows that overlapping
\* ones do.
THEOREM SerialResetStays ==
  ASSUME Serial
  PROVE  Spec => ResetNotUndone
<1>1. CellInv /\ NoOlder(Durable, Durable') /\ [Next]_vars => Durable'.epoch >= Durable.epoch
  <2> SUFFICES ASSUME CellInv, NoOlder(Durable, Durable'), [Next]_vars
               PROVE  Durable'.epoch >= Durable.epoch
    OBVIOUS
  <2> QED BY DurableTypes DEF NoOlder
<1>2. CellInv /\ InOrder /\ [Next]_vars
        => CellInv' /\ InOrder' /\ NoOlder(Durable, Durable')
  BY CellNextInv, OrderNext
<1>3. CellInv /\ InOrder /\ [Next]_vars =>
        ((\E t \in Tasks : pc[t] = "write" /\ pc'[t] = "note")
           => Durable'.epoch >= Durable.epoch)
  BY <1>1, <1>2
<1> QED BY <1>2, <1>3, OrderInit, PTL DEF Spec, ResetNotUndone

\* And no power cut finds a metered reading gone: with both slots written, a boot that loads
\* them never finds zero but after a reset (docs/energy_logging.md:565).  The run
\* EnergyMeterInitFails shows that boots that load nothing do.
THEOREM SerialNeverZero ==
  ASSUME Serial
  PROVE  Spec => NeverBackToZero
<1> DEFINE Metered == Durable.wh > 0 \/ Durable.epoch > 0
           BothWritten == \A k \in SlotKeys : slot[k].valid /\ slot[k].rd.wh > 0
<1>1. CellInv /\ BothWritten => Metered
  BY DEF Durable, NewestSlot
<1>2. CellInv /\ InOrder /\ [Next]_vars => CellInv' /\ InOrder'
  BY CellNextInv, OrderNext
<1>3. CellInv /\ InOrder /\ [Next]_vars /\ Metered => Metered'
  <2> SUFFICES ASSUME CellInv, InOrder, [Next]_vars, Metered PROVE Metered'
    OBVIOUS
  <2> QED BY DurableTypes, OrderNext DEF NoOlder
<1> HIDE DEF Metered, BothWritten
<1>4. Spec => [](BothWritten => []Metered)
  BY <1>1, <1>2, <1>3, OrderInit, PTL DEF Spec
<1> QED BY <1>4 DEF NeverBackToZero, Metered, BothWritten
-----------------------------------------------------------------------------
(* What a tick that does not save leaves at risk.                          *)

\* s_persist_saved_total_wh is what NVS holds, except between a write and its bookkeeping,
\* which will then set it to what was written.
BooksInv ==
    /\ (\A t \in Tasks : pc[t] # "note") => saved = Durable.wh
    /\ \A t \in Tasks : pc[t] = "note" => work[t].rd = Durable

\* A step outside energy_accum_save() that writes nothing and keeps no books.
LEMMA BooksAside ==
  ASSUME BooksInv, Durable' = Durable, saved' = saved,
         \A u \in Tasks : /\ pc'[u] = "note" <=> pc[u] = "note"
                          /\ pc[u] = "note" => work'[u].rd = work[u].rd
  PROVE  BooksInv'
  BY DEF BooksInv

LEMMA BooksSave ==
  ASSUME Serial, CellInv, BooksInv, NEW t \in Tasks,
         \/ Snapshot(t) \/ TakeSeq(t) \/ Write(t) \/ WriteFails(t) \/ Note(t)
  PROVE  BooksInv'
<1>1. TypeOK /\ OneSaver
  BY DEF CellInv
<1>2. \A u \in Tasks \ {t} : pc'[u] = pc[u] /\ pc[u] # "note"
  <2>1. \A u \in Tasks \ {t} : pc'[u] = pc[u]
    BY <1>1 DEF Snapshot, TakeSeq, Write, WriteFails, Note, Return, TypeOK
  <2>2. InSave(t)
    BY DEF Snapshot, TakeSeq, Write, WriteFails, Note, InSave
  <2> QED BY <1>1, <2>1, <2>2 DEF OneSaver, InSave
<1>3. CASE Snapshot(t) \/ TakeSeq(t) \/ WriteFails(t)
  <2>1. pc[t] # "note" /\ pc'[t] # "note"
    BY <1>1, <1>3 DEF Snapshot, TakeSeq, WriteFails, Return, TypeOK
  <2>2. Durable' = Durable /\ saved' = saved
    BY <1>3 DEF Snapshot, TakeSeq, WriteFails, Serial, Durable
  <2> QED BY <1>2, <2>1, <2>2, BooksAside
<1>4. CASE Write(t)
  <2>1. Durable' = work[t].rd /\ pc'[t] = "note"
    BY <1>4, WriteReplaces
  <2>2. work' = work
    BY <1>4 DEF Write
  <2> QED BY <1>2, <2>1, <2>2 DEF BooksInv
<1>5. CASE Note(t)
  <2>1. saved' = Durable.wh /\ Durable' = Durable
    BY <1>5 DEF Note, BooksInv, Durable
  <2>2. pc'[t] # "note"
    BY <1>1, <1>5 DEF Note, Return, TypeOK
  <2> QED BY <1>2, <2>1, <2>2 DEF BooksInv
<1> QED BY <1>3, <1>4, <1>5

LEMMA BooksBoot ==
  ASSUME Serial, PowerCut \/ \E t \in Tasks : Restart(t)
  PROVE  BooksInv' /\ ram' = Durable'
<1>1. PICK sl : Boot(sl)
  BY DEF PowerCut, Restart
<1> QED BY <1>1 DEF Boot, Serial, BooksInv, Durable

LEMMA BooksNext ==
  ASSUME Serial, CellInv, BooksInv, [Next]_vars
  PROVE  BooksInv'
<1>1. TypeOK
  BY DEF CellInv
<1>2. CASE Poll \/ Drain \/ Service
  <2>1. Durable' = Durable /\ saved' = saved /\ work' = work
    BY <1>2 DEF Poll, Drain, Service, Durable
  <2>2. \A u \in Tasks : pc'[u] = "note" <=> pc[u] = "note"
    BY <1>1, <1>2 DEF Poll, Drain, Service, TypeOK
  <2> QED BY <2>1, <2>2, BooksAside
<1>3. ASSUME NEW t \in Tasks,
             \/ Snapshot(t) \/ TakeSeq(t) \/ Write(t) \/ WriteFails(t) \/ Note(t)
      PROVE  BooksInv'
  BY <1>3, BooksSave
<1>4. ASSUME NEW t \in Tasks,
             \/ ResetEnergy(t) \/ ResetDemand(t) \/ SetDemandWindow(t)
             \/ FlushForRestart(t) \/ OpenPortal(t)
      PROVE  BooksInv'
  <2>1. Durable' = Durable /\ saved' = saved
    BY <1>4 DEF ResetEnergy, ResetDemand, SetDemandWindow, FlushForRestart, OpenPortal, Durable
  <2>2. \A u \in Tasks : /\ pc'[u] = "note" <=> pc[u] = "note"
                         /\ pc[u] = "note" => work'[u].rd = work[u].rd
    BY <1>1, <1>4 DEF ResetEnergy, ResetDemand, SetDemandWindow, FlushForRestart, OpenPortal,
                      Enter, Operator, TypeOK
  <2> QED BY <2>1, <2>2, BooksAside
<1>5. CASE BeginDownload \/ EndPause \/ UNCHANGED vars
  BY <1>5, BooksAside DEF BeginDownload, EndPause, vars, Durable
<1>6. CASE PowerCut \/ \E t \in Tasks : Restart(t)
  BY <1>6, BooksBoot
<1> QED BY <1>2, <1>3, <1>4, <1>5, <1>6 DEF Next

\* The tick that goes on without a save is the service's, or a boot.
LEMMA QuietTick ==
  ASSUME Serial, CellInv, BooksInv, [Next]_vars,
         pc[Meter] = "service", pc'[Meter] = "idle", \A t \in Tasks : ~InSave(t)
  PROVE  ram'.wh - Durable'.wh < Threshold
<1>1. TypeOK /\ TypeOK' /\ Meter \in Tasks
  BY TypeNext, TasksAssumption DEF CellInv
<1>2. /\ ram.wh \in Nat /\ Durable.wh \in Nat /\ ram'.wh \in Nat
      /\ Threshold \in Nat /\ Threshold > 0
  BY <1>1, DurableType, BoundAssumption DEF TypeOK, Reading
<1>3. CASE Service
  <2>1. saved = Durable.wh
    BY DEF BooksInv, InSave
  <2>2. ~(Distance(ram.wh, saved) >= Threshold)
    BY <1>1, <1>3 DEF Service, TypeOK
  <2>3. ram' = ram /\ Durable' = Durable
    BY <1>3 DEF Service, Durable
  <2> QED BY <1>2, <2>1, <2>2, <2>3 DEF Distance
<1>4. CASE PowerCut \/ \E t \in Tasks : Restart(t)
  <2>1. ram' = Durable'
    BY <1>4, BooksBoot
  <2> QED BY <1>2, <2>1
<1>5. CASE Poll \/ Drain \/ BeginDownload \/ EndPause \/ UNCHANGED vars
  BY <1>5 DEF Poll, Drain, BeginDownload, EndPause, vars
<1>6. ASSUME NEW t \in Tasks,
             \/ Snapshot(t) \/ TakeSeq(t) \/ Write(t) \/ WriteFails(t) \/ Note(t)
      PROVE  FALSE
  BY <1>6 DEF InSave, Snapshot, TakeSeq, Write, WriteFails, Note
<1>7. ASSUME NEW t \in Tasks,
             \/ ResetEnergy(t) \/ ResetDemand(t) \/ SetDemandWindow(t)
             \/ FlushForRestart(t) \/ OpenPortal(t)
      PROVE  FALSE
  <2>1. t # Meter
    BY <1>7 DEF ResetEnergy, ResetDemand, SetDemandWindow, FlushForRestart, OpenPortal, Operator
  <2> QED BY <1>1, <1>7, <2>1
          DEF ResetEnergy, ResetDemand, SetDemandWindow, FlushForRestart, OpenPortal, Enter,
              TypeOK
<1> QED BY <1>3, <1>4, <1>5, <1>6, <1>7 DEF Next

\* A tick of the energy task that does not save, with no other save under way, leaves less
\* than the threshold at risk, whatever writes failed and whenever power was lost
\* (energy_meter_task.c: energy_accum_service, energy_accum_save).
THEOREM LossIsBounded ==
  ASSUME Serial
  PROVE  Spec => QuietTickLoss
<1>1. Init => CellInv /\ BooksInv
  <2> SUFFICES ASSUME Init PROVE CellInv /\ BooksInv
    OBVIOUS
  <2>1. Durable = Fresh
    BY CellInitInv DEF Cell!CellInit
  <2> QED BY <2>1, CellInitInv DEF Init, BooksInv, Fresh
<1>2. CellInv /\ BooksInv /\ [Next]_vars => CellInv' /\ BooksInv'
  BY CellNextInv, BooksNext
<1>3. CellInv /\ BooksInv /\ [Next]_vars
        => (( /\ pc[Meter] = "service" /\ pc'[Meter] = "idle"
              /\ \A t \in Tasks : ~InSave(t)
              /\ Durable'.epoch = ram'.epoch)
            => ram'.wh - Durable'.wh < Threshold)
  BY QuietTick
<1> QED BY <1>1, <1>2, <1>3, PTL DEF Spec, QuietTickLoss
=============================================================================
