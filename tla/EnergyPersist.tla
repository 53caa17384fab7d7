--------------------------- MODULE EnergyPersist ---------------------------
(***************************************************************************)
(* Persistence of the meter reading (main/app/energy_meter_task.c).        *)
(*                                                                         *)
(* The ATM90E32AS clears its energy registers when they are read, so the   *)
(* RAM accumulators are the meter reading.  energy_accum_save() writes     *)
(* them to one of two NVS blobs, alternating on a 16-bit sequence number,  *)
(* and energy_accum_load() takes the newest blob that passes its CRC.      *)
(* The energy task saves when enough energy has accumulated; the panel,    *)
(* the console, the Modbus slave, the network manager and the web portal   *)
(* call the same function from their own tasks, with no lock around it:    *)
(* only the snapshot of the counters is taken under s_measurements_mutex.  *)
(*                                                                         *)
(* A save is therefore four steps of a task: Snapshot, TakeSeq, Write and  *)
(* Note.  Power may go between any two of them and in the middle of Write. *)
(*                                                                         *)
(* A definition named after the one that follows it (NoteLive before Note) *)
(* is a broken form of it, put in its place to see a property fail.        *)
(***************************************************************************)
EXTENDS Integers

CONSTANTS
    Tasks,          \* the tasks that call into energy_meter_task.c
    Meter,          \* energy_meter_task itself
    SeqMod,         \* 2^16: the width of s_persist_seq and blob.seq
    Threshold,      \* CONFIG_APP_ENERGY_PERSIST_THRESHOLD_WH, in units of energy
    PeriodTicks,    \* CONFIG_APP_ENERGY_PERSIST_PERIOD_S, in polls
    Windows,        \* the demand windows an operator may set
    DefaultWindow,  \* 15 minutes
    MaxStep,        \* bound: energy of one poll
    MaxWh,          \* bound: energy the model meters
    MaxPeak,        \* bound: levels of the demand maximum
    MaxEpoch,       \* bound: number of energy resets
    FailKinds,      \* what a failed nvs_set_blob() leaves in the slot
    Overlap,        \* TRUE: two tasks may be inside energy_accum_save() at once
    MeterMayFail    \* TRUE: energy_meter_init() may fail after creating its mutex

ASSUME TasksAssumption == Meter \in Tasks
ASSUME SeqAssumption == SeqMod \in Nat /\ SeqMod >= 4 /\ SeqMod % 2 = 0
ASSUME BoundAssumption ==
    /\ Threshold \in Nat \ {0} /\ PeriodTicks \in Nat
    /\ MaxStep \in Nat /\ MaxWh \in Nat /\ MaxPeak \in Nat /\ MaxEpoch \in Nat
ASSUME WindowAssumption == DefaultWindow \in Windows /\ Windows \subseteq Nat \ {0}
ASSUME ChoiceAssumption ==
    /\ FailKinds \subseteq {"kept", "written"}
    /\ Overlap \in BOOLEAN /\ MeterMayFail \in BOOLEAN

VARIABLES
    ram,        \* the accumulators, demand maximum and demand window
    pseq,       \* s_persist_seq
    saved,      \* s_persist_saved_total_wh
    dirty,      \* s_persist_dirty
    age,        \* polls since s_persist_last_save_us
    slot,       \* the blobs accum_a and accum_b in NVS
    pc,         \* where each task stands
    work,       \* the blob on the stack of each task's energy_accum_save()
    paused,     \* portal open or OTA download in flight
    twoCopies   \* history: both slots have held a valid blob

vars == <<ram, pseq, saved, dirty, age, slot, pc, work, paused, twoCopies>>
-----------------------------------------------------------------------------
(* A reading is the four accumulators summed up in wh, the demand maximum  *)
(* and the demand window.  epoch is a history variable: the number of      *)
(* energy resets behind this reading, so that an old one can be told from  *)
(* a new one.                                                              *)

Reading == [epoch : 0..MaxEpoch, wh : 0..MaxWh, peak : 0..MaxPeak, win : Windows]
Fresh == [epoch |-> 0, wh |-> 0, peak |-> 0, win |-> DefaultWindow]

Seqs == 0..(SeqMod - 1)
NextSeq(s) == IF s = SeqMod - 1 THEN 0 ELSE s + 1

\* (int16_t)(a - b) > 0
Newer(a, b) ==
    LET d == IF a >= b THEN a - b ELSE (a - b) + SeqMod
    IN  d > 0 /\ 2 * d < SeqMod

\* Odd sequence numbers go to accum_a, even ones to accum_b.
SlotKeys == {"A", "B"}
SlotKeyFixed(s) == "A"
SlotKey(s) == IF s % 2 = 1 THEN "A" ELSE "B"

\* A slot fails the length, magic, version or CRC test unless it is valid.
Slot == [valid : BOOLEAN, seq : Seqs, rd : Reading]
Bad == [valid |-> FALSE, seq |-> 0, rd |-> Fresh]
Blob(w) == [valid |-> TRUE, seq |-> w.seq, rd |-> w.rd]

\* energy_accum_load(): scan A then B and keep the newer valid blob.
NewestSlotSeqLost(sl) ==
    IF sl["A"].valid /\ ~(sl["B"].valid /\ Newer(sl["B"].seq, sl["A"].seq))
    THEN [sl["A"] EXCEPT !.seq = 0]
    ELSE IF sl["B"].valid THEN [sl["B"] EXCEPT !.seq = 0] ELSE Bad
NewestSlot(sl) ==
    IF sl["A"].valid /\ ~(sl["B"].valid /\ Newer(sl["B"].seq, sl["A"].seq))
    THEN sl["A"]
    ELSE IF sl["B"].valid THEN sl["B"] ELSE Bad

\* The reading the next boot would restore.
Durable == NewestSlot(slot).rd

Work == [rd : Reading, seq : Seqs, restart : BOOLEAN]
NoWork == [rd |-> Fresh, seq |-> 0, restart |-> FALSE]

PCs == {"idle", "service", "snapshot", "seq", "write", "note", "restart", "absent"}
InSave(t) == pc[t] \in {"snapshot", "seq", "write", "note"}

\* The scenario bound Overlap: may t enter energy_accum_save() now?
MayEnterSave(t) == Overlap \/ \A u \in Tasks \ {t} : ~InSave(u)

TypeOK ==
    /\ ram \in Reading
    /\ pseq \in Seqs
    /\ saved \in 0..MaxWh
    /\ dirty \in BOOLEAN
    /\ age \in 0..PeriodTicks
    /\ slot \in [SlotKeys -> Slot]
    /\ pc \in [Tasks -> PCs]
    /\ work \in [Tasks -> Work]
    /\ paused \in BOOLEAN
    /\ twoCopies \in BOOLEAN

Init ==
    /\ ram = Fresh
    /\ pseq = 0
    /\ saved = 0
    /\ dirty = FALSE
    /\ age = 0
    /\ slot = [k \in SlotKeys |-> Bad]
    /\ pc = [t \in Tasks |-> "idle"]
    /\ work = [t \in Tasks |-> NoWork]
    /\ paused = FALSE
    /\ twoCopies = FALSE
-----------------------------------------------------------------------------
(* The energy task.                                                        *)

\* energy_meter_accumulate() and the demand window of one poll; the tick
\* goes on to energy_accum_service().
Poll ==
    /\ pc[Meter] = "idle"
    /\ ~paused
    /\ \E e \in 0..MaxStep, rise \in {0, 1} :
        /\ ram.wh + e <= MaxWh
        /\ ram.peak + rise <= MaxPeak
        /\ ram' = [ram EXCEPT !.wh = @ + e, !.peak = @ + rise]
    /\ pc' = [pc EXCEPT ![Meter] = "service"]
    /\ UNCHANGED <<pseq, saved, dirty, age, slot, work, paused, twoCopies>>

\* Paused: the registers are drained into the counters and nothing else runs.
Drain ==
    /\ pc[Meter] = "idle"
    /\ paused
    /\ \E e \in 1..MaxStep :
        /\ ram.wh + e <= MaxWh
        /\ ram' = [ram EXCEPT !.wh = @ + e]
    /\ UNCHANGED <<pseq, saved, dirty, age, slot, pc, work, paused, twoCopies>>

Distance(a, b) == IF a >= b THEN a - b ELSE b - a

\* energy_accum_service(): save on enough energy, or on the slow backstop when
\* anything changed since the last save.
ServiceNeverDirty ==
    LET delta == Distance(ram.wh, saved)
        due == delta >= Threshold \/ (dirty /\ age >= PeriodTicks)
    IN  /\ pc[Meter] = "service"
        /\ due => MayEnterSave(Meter)
        /\ dirty' = dirty
        /\ age' = IF age < PeriodTicks THEN age + 1 ELSE age
        /\ pc' = [pc EXCEPT ![Meter] = IF due THEN "snapshot" ELSE "idle"]
        /\ UNCHANGED <<ram, pseq, saved, slot, work, paused, twoCopies>>
Service ==
    LET delta == Distance(ram.wh, saved)
        changed == dirty \/ delta > 0
        due == delta >= Threshold \/ (changed /\ age >= PeriodTicks)
    IN  /\ pc[Meter] = "service"
        /\ due => MayEnterSave(Meter)
        /\ dirty' = changed
        /\ age' = IF age < PeriodTicks THEN age + 1 ELSE age
        /\ pc' = [pc EXCEPT ![Meter] = IF due THEN "snapshot" ELSE "idle"]
        /\ UNCHANGED <<ram, pseq, saved, slot, work, paused, twoCopies>>
-----------------------------------------------------------------------------
(* energy_accum_save(), by any task.                                       *)

\* The counters are copied under s_measurements_mutex.
Snapshot(t) ==
    /\ pc[t] = "snapshot"
    /\ work' = [work EXCEPT ![t].rd = ram]
    /\ pc' = [pc EXCEPT ![t] = "seq"]
    /\ UNCHANGED <<ram, pseq, saved, dirty, age, slot, paused, twoCopies>>

\* s_persist_seq is read after the mutex has been given back.
TakeSeq(t) ==
    /\ pc[t] = "seq"
    /\ work' = [work EXCEPT ![t].seq = NextSeq(pseq)]
    /\ pc' = [pc EXCEPT ![t] = "write"]
    /\ UNCHANGED <<ram, pseq, saved, dirty, age, slot, paused, twoCopies>>

\* A save that is over returns to its caller, or to the restart behind it.
Return(t) ==
    /\ pc' = [pc EXCEPT ![t] = IF work[t].restart THEN "restart" ELSE "idle"]
    /\ work' = [work EXCEPT ![t] = NoWork]

Write(t) ==
    /\ pc[t] = "write"
    /\ slot' = [slot EXCEPT ![SlotKey(work[t].seq)] = Blob(work[t])]
    /\ pc' = [pc EXCEPT ![t] = "note"]
    /\ twoCopies' = (twoCopies \/ \A k \in SlotKeys : slot'[k].valid)
    /\ UNCHANGED <<ram, pseq, saved, dirty, age, work, paused>>

WriteFailsAdvances(t) ==
    /\ pc[t] = "write"
    /\ pseq' = work[t].seq
    /\ Return(t)
    /\ UNCHANGED <<ram, saved, dirty, age, slot, paused, twoCopies>>

\* nvs_set_blob() fails: NVS keeps the old blob ("kept") or, as its
\* REMOVE_FAILED error says, has written the new one after all ("written").
WriteFails(t) ==
    /\ pc[t] = "write"
    /\ \E kind \in FailKinds :
        slot' = IF kind = "kept" THEN slot
                ELSE [slot EXCEPT ![SlotKey(work[t].seq)] = Blob(work[t])]
    /\ Return(t)
    /\ twoCopies' = (twoCopies \/ \A k \in SlotKeys : slot'[k].valid)
    /\ UNCHANGED <<ram, pseq, saved, dirty, age, paused>>

\* The bookkeeping of a successful save: total is the snapshot's.
NoteLive(t) ==
    /\ pc[t] = "note"
    /\ pseq' = work[t].seq
    /\ saved' = ram.wh
    /\ age' = 0
    /\ dirty' = FALSE
    /\ Return(t)
    /\ UNCHANGED <<ram, slot, paused, twoCopies>>
Note(t) ==
    /\ pc[t] = "note"
    /\ pseq' = work[t].seq
    /\ saved' = work[t].rd.wh
    /\ age' = 0
    /\ dirty' = FALSE
    /\ Return(t)
    /\ UNCHANGED <<ram, slot, paused, twoCopies>>
-----------------------------------------------------------------------------
(* The calls of the other tasks.                                           *)

Enter(t, restart) ==
    /\ MayEnterSave(t)
    /\ pc' = [pc EXCEPT ![t] = "snapshot"]
    /\ work' = [work EXCEPT ![t] = [NoWork EXCEPT !.restart = restart]]

Operator(t) == t # Meter /\ pc[t] = "idle"

\* energy_meter_reset_energy(): zero under the mutex, then save at once.
ResetEnergy(t) ==
    /\ Operator(t)
    /\ ram.epoch < MaxEpoch
    /\ ram' = [ram EXCEPT !.epoch = @ + 1, !.wh = 0]
    /\ dirty' = TRUE
    /\ Enter(t, FALSE)
    /\ UNCHANGED <<pseq, saved, age, slot, paused, twoCopies>>

\* energy_meter_reset_demand(): the peak shares the blob.
ResetDemand(t) ==
    /\ Operator(t)
    /\ ram' = [ram EXCEPT !.peak = 0]
    /\ dirty' = TRUE
    /\ Enter(t, FALSE)
    /\ UNCHANGED <<pseq, saved, age, slot, paused, twoCopies>>

\* energy_meter_set_demand_window_minutes(): marks dirty, leaves the save to
\* the energy task.
SetDemandWindow(t) ==
    /\ Operator(t)
    /\ \E w \in Windows : ram' = [ram EXCEPT !.win = w]
    /\ dirty' = TRUE
    /\ UNCHANGED <<pseq, saved, age, slot, pc, work, paused, twoCopies>>

\* energy_meter_flush_persist() before a controlled restart.
FlushForRestart(t) ==
    /\ Operator(t)
    /\ Enter(t, TRUE)
    /\ UNCHANGED <<ram, pseq, saved, dirty, age, slot, paused, twoCopies>>

\* Opening the configuration portal pauses the energy task, then flushes.
OpenPortal(t) ==
    /\ Operator(t)
    /\ ~paused
    /\ paused' = TRUE
    /\ Enter(t, FALSE)
    /\ UNCHANGED <<ram, pseq, saved, dirty, age, slot, twoCopies>>

\* An OTA download pauses the energy task and flushes nothing.
BeginDownload ==
    /\ ~paused
    /\ paused' = TRUE
    /\ UNCHANGED <<ram, pseq, saved, dirty, age, slot, pc, work, twoCopies>>

EndPause ==
    /\ paused
    /\ paused' = FALSE
    /\ UNCHANGED <<ram, pseq, saved, dirty, age, slot, pc, work, twoCopies>>
-----------------------------------------------------------------------------
(* Restarts.  Boot is what energy_meter_init() and the first lines of the  *)
(* energy task make of the slots; the task runs them before any other      *)
(* caller exists.  When the chip does not answer, energy_meter_init()      *)
(* returns after creating the mutex: no task, no load, counters at zero,   *)
(* and every call of the other tasks still works.                          *)

Boot(sl) ==
    /\ slot' = sl
    /\ dirty' = FALSE
    /\ age' = 0
    /\ paused' = FALSE
    /\ work' = [t \in Tasks |-> NoWork]
    /\ twoCopies' = (twoCopies \/ \A k \in SlotKeys : sl[k].valid)
    /\ \/ /\ pc' = [t \in Tasks |-> "idle"]
          /\ ram' = NewestSlot(sl).rd
          /\ pseq' = NewestSlot(sl).seq
          /\ saved' = NewestSlot(sl).rd.wh
       \/ /\ MeterMayFail
          /\ pc' = [t \in Tasks |-> IF t = Meter THEN "absent" ELSE "idle"]
          /\ ram' = Fresh
          /\ pseq' = 0
          /\ saved' = 0

\* Mains failure, brownout, or a restart nobody flushed for (OTA).  A blob
\* being written ends up old, new or failing its CRC.
PowerCut ==
    \/ Boot(slot)
    \/ \E t \in Tasks :
        /\ pc[t] = "write"
        /\ \E b \in {Bad, Blob(work[t])} :
            Boot([slot EXCEPT ![SlotKey(work[t].seq)] = b])

\* esp_restart() behind a flush.
Restart(t) == pc[t] = "restart" /\ Boot(slot)

Next ==
    \/ Poll
    \/ Drain
    \/ Service
    \/ \E t \in Tasks : Snapshot(t)
    \/ \E t \in Tasks : TakeSeq(t)
    \/ \E t \in Tasks : Write(t)
    \/ \E t \in Tasks : WriteFails(t)
    \/ \E t \in Tasks : Note(t)
    \/ \E t \in Tasks : ResetEnergy(t)
    \/ \E t \in Tasks : ResetDemand(t)
    \/ \E t \in Tasks : SetDemandWindow(t)
    \/ \E t \in Tasks : FlushForRestart(t)
    \/ \E t \in Tasks : OpenPortal(t)
    \/ BeginDownload
    \/ EndPause
    \/ PowerCut
    \/ \E t \in Tasks : Restart(t)

Spec == Init /\ [][Next]_vars

(* The scheduler runs every task; a task inside a save goes on to its end,  *)
(* and NVS does not refuse every write for ever.  Service is strongly fair  *)
(* because the bound Overlap = FALSE may close its guard again and again,   *)
(* where the real task never waits.                                         *)
Fairness ==
    /\ WF_vars(Poll) /\ SF_vars(Service)
    /\ \A t \in Tasks :
        /\ WF_vars(Snapshot(t)) /\ WF_vars(TakeSeq(t)) /\ WF_vars(Note(t))
        /\ SF_vars(Write(t))
        /\ WF_vars(Restart(t))

FairSpec == Spec /\ Fairness
-----------------------------------------------------------------------------
(* Properties.                                                             *)

\* The snapshots on their way to NVS.
Staged == {work[t].rd : t \in {u \in Tasks : pc[u] \in {"seq", "write"}}}

\* "Two alternating slots + CRC32 make a write atomic in practice: power lost
\* mid-write leaves the previous slot intact" (energy_meter_task.c:158-161):
\* the two slots behave as one cell that is replaced as a whole or not at all,
\* and a boot restores exactly that cell.  Holds while saves do not overlap.
Cell == INSTANCE DurableCell
            WITH live <- ram, staged <- Staged, cell <- Durable
AtomicCell == Cell!CellSpec

\* b is no older a reading than a: more energy, or an energy reset later.
NoOlder(a, b) == b.epoch > a.epoch \/ (b.epoch = a.epoch /\ b.wh >= a.wh)

\* What a boot would restore never goes back: neither over a power cut in the
\* middle of a write, nor over the wrap of the sequence number, nor because a
\* save with an older snapshot lands later.  Only a reset lowers it.
DurableNeverRegresses == [][NoOlder(Durable, Durable')]_vars

\* "an operator who clears the meter and pulls the power must not find the old
\* reading back on the next boot" (energy_meter_task.c:1241-1242): when a reading
\* taken after a reset is in NVS, no save that completes puts an earlier one in
\* front of it.
ResetNotUndone ==
    [][ (\E t \in Tasks : pc[t] = "write" /\ pc'[t] = "note")
          => Durable'.epoch >= Durable.epoch ]_vars

\* A tick of the energy task that does not save, with no other save under way,
\* leaves less than the threshold at risk: the bookkeeping of the last save
\* (s_persist_saved_total_wh) agrees with what NVS holds, across failed writes.
QuietTickLoss ==
    [][ (/\ pc[Meter] = "service" /\ pc'[Meter] = "idle"
         /\ \A t \in Tasks : ~InSave(t)
         /\ Durable'.epoch = ram'.epoch)
          => ram'.wh - Durable'.wh < Threshold ]_vars

\* Once both slots have held a blob, some slot always passes its CRC, so no
\* boot finds an empty meter: with any number of tasks saving at once.
SomeCopySurvives == twoCopies => \E k \in SlotKeys : slot[k].valid

\* "Lose at most ~50 Wh (one threshold), never go to zero" on a power cut
\* (docs/energy_logging.md:565, in Vietnamese): from the moment both slots hold a
\* non-zero reading, no boot of a meter that nobody resets finds zero.
NeverBackToZero ==
    []( (\A k \in SlotKeys : slot[k].valid /\ slot[k].rd.wh > 0)
          => [](Durable.wh > 0 \/ Durable.epoch > 0) )

\* The slow backstop (Kconfig APP_ENERGY_PERSIST_PERIOD_S): on a meter whose load
\* has gone - the model's load ends at MaxWh - the last energy, too little to
\* reach the threshold, still gets to NVS, unless the task is paused.
EnergyReachesFlash == []<>(Durable.wh = ram.wh \/ paused)
=============================================================================
