---------------------------- MODULE Field_proofs ----------------------------
(* Proofs about the relays and inputs, the certificate store, the clock and *)
(* the card, for every value of their constants; and of all seven together.  *)
EXTENDS MCField, Modbus_proofs

-----------------------------------------------------------------------------
(* The relays and the digital inputs.                                      *)

\* The reset line in latch and device alike, and no pulse before the start is over.
LineInv ==
    /\ pulse = "held" => latch["rst"] = ~Released /\ driven["rst"] = ~Released
    /\ pulse \in {"none", "done"} => latch["rst"] = Released /\ driven["rst"] = Released
    /\ stage # "run" => pulse = "none"
    /\ "rst" \in DOMAIN latch

\* With no interrupt pending, an idle task knows the inputs; one between its two readings
\* has seen them as they are, whatever it had missed before.  In both cases the next
\* change makes the line fall.
SeenInv ==
    /\ in \in Levels
    /\ stage # "run" => ioAt = "wait"
    /\ (stage = "run" /\ ioAt = "wait" /\ ~sem /\ ~missed) => lastIn = in /\ seen = in
    /\ (ioAt = "read1" /\ ~sem) => seen = in /\ first = in[0]
-----------------------------------------------------------------------------
(* The reset line.                                                         *)

\* What is transmitted is the latch, or the pins stay as they are.
LEMMA Driven ==
  ASSUME NEW ok \in BOOLEAN, Transmit(ok)
  PROVE  driven' = IF ok THEN latch' ELSE driven
BY DEF Transmit

LEMMA LineStep ==
  ASSUME LineInv, [IoNext]_relayVars
  PROVE  LineInv'
<1> USE DEF LineInv, Released
<1>1. CASE Create
  BY <1>1, Driven DEF Create, AllHigh, Pins
<1>2. CASE Direct
  BY <1>2, Driven DEF Direct, Teardown
<1>3. CASE WritePort
  <2>1. latch'["rst"] = TRUE /\ "rst" \in DOMAIN latch'
    BY <1>3 DEF WritePort, InitialLatch, AllHigh, Pins
  <2>2. driven' \in {latch', driven} /\ pulse' = pulse /\ stage # "run" /\ stage' # "run"
    BY <1>3, Driven DEF WritePort, Teardown
  <2> QED
    BY <2>1, <2>2
<1>4. CASE ReadInitial0 \/ ReadInitial1
  BY <1>4 DEF ReadInitial0, ReadInitial1, Teardown, outputs
<1>5. CASE InterruptInit \/ StartTask
  BY <1>5 DEF InterruptInit, StartTask, outputs
<1>6. CASE TakeInterrupt \/ ReadIn0 \/ ReadIn1 \/ PollInputs
  BY <1>6 DEF TakeInterrupt, ReadIn0, ReadIn1, PollInputs, outputs
<1>7. CASE ResetAssert
  BY <1>7, Driven DEF ResetAssert, Latched, Pins
<1>8. CASE ResetRelease
  BY <1>8, Driven DEF ResetRelease, Latched, Pins
<1>9. ASSUME NEW i \in Inputs, InputChanges(i) PROVE LineInv'
  BY <1>9 DEF InputChanges, outputs
<1>10. ASSUME NEW w \in Writers, CacheOut(w) PROVE LineInv'
  BY <1>10 DEF CacheOut
<1>11. ASSUME NEW w \in Writers, NEW level \in BOOLEAN, SetOut(w, level) PROVE LineInv'
  BY <1>11, Driven DEF SetOut, Latched, Pins
<1>12. CASE UNCHANGED relayVars
  BY <1>12 DEF relayVars, outputs
<1> QED
  BY <1>1, <1>2, <1>3, <1>4, <1>5, <1>6, <1>7, <1>8, <1>9, <1>10, <1>11, <1>12 DEF IoNext

\* While the reset is held the line is down, and before and after it is up: no write of a
\* relay in between changes that (io_expander.c: io_expander_w5500_reset_pulse; pcf8574.c:
\* pcf8574_write_pin).
THEOREM LineHeld == IoSpec => []ResetIsWhole
<1>1. IoInit => LineInv
  BY DEF IoInit, LineInv, AllHigh, Pins, Released
<1>2. LineInv => ResetIsWhole
  BY DEF LineInv, ResetIsWhole
<1> QED
  BY <1>1, <1>2, LineStep, PTL DEF IoSpec
-----------------------------------------------------------------------------
(* The inputs.                                                             *)

\* An access to the device sees the inputs, or fails and sees nothing.
LEMMA Seen ==
  ASSUME NEW ok \in BOOLEAN, Access(ok) \/ Transmit(ok)
  PROVE  seen' = IF ok THEN in ELSE seen
BY DEF Access, Transmit

\* Whoever accesses the device beside the task of the expander disturbs nothing.
LEMMA AccessAside ==
  ASSUME SeenInv, seen' \in {in, seen}, UNCHANGED <<stage, in, sem, lastIn, ioAt, first, missed>>
  PROVE  SeenInv'
BY DEF SeenInv

LEMMA SeenStep ==
  ASSUME SeenInv, [IoNext]_relayVars
  PROVE  SeenInv'
<1>1. CASE Create \/ Direct \/ WritePort
  BY <1>1 DEF Create, Direct, WritePort, Teardown, inputs, SeenInv
<1>2. CASE ReadInitial0 \/ ReadInitial1
  BY <1>2 DEF ReadInitial0, ReadInitial1, Teardown, SeenInv
<1>3. CASE InterruptInit
  BY <1>3 DEF InterruptInit, inputs, SeenInv
<1>4. CASE StartTask
  BY <1>4 DEF StartTask, SeenInv
<1>5. CASE TakeInterrupt
  BY <1>5 DEF TakeInterrupt, SeenInv
<1>6. CASE ReadIn0
  <2>1. PICK ok \in BOOLEAN : /\ Access(ok)
                              /\ ioAt' = IF ok THEN "read1" ELSE "wait"
                              /\ first' = IF ok THEN in[0] ELSE FALSE
                              /\ missed' = (missed \/ ~ok)
    BY <1>6 DEF ReadIn0
  <2>2. seen' = IF ok THEN in ELSE seen
    BY <2>1, Seen
  <2>3. ioAt = "read0" /\ UNCHANGED <<stage, in, sem, lastIn>>
    BY <1>6 DEF ReadIn0
  <2> QED
    BY <2>1, <2>2, <2>3 DEF SeenInv
<1>7. CASE ReadIn1
  <2>1. PICK ok \in BOOLEAN :
          /\ Access(ok)
          /\ lastIn' = IF ok THEN [i \in Inputs |-> IF i = 0 THEN first ELSE in[1]] ELSE lastIn
          /\ missed' = ~ok
    BY <1>7 DEF ReadIn1
  <2>2. seen' = IF ok THEN in ELSE seen
    BY <2>1, Seen
  <2>3. ioAt = "read1" /\ ioAt' = "wait" /\ UNCHANGED <<stage, in, sem>>
    BY <1>7 DEF ReadIn1
  <2>4. ok /\ ~sem => lastIn' = in
    BY <2>1, <2>3 DEF SeenInv, Levels, Inputs
  <2> QED
    BY <2>1, <2>2, <2>3, <2>4 DEF SeenInv
<1>8. ASSUME NEW i \in Inputs, InputChanges(i) PROVE SeenInv'
  <2>1. in' \in Levels
    BY <1>8 DEF InputChanges, Levels, SeenInv
  <2>2. sem' = (sem \/ (in = seen /\ stage \in {"armed", "run"}))
    BY <1>8 DEF InputChanges
  <2>3. UNCHANGED <<stage, seen, lastIn, ioAt, first, missed>>
    BY <1>8 DEF InputChanges
  <2> QED
    BY <2>1, <2>2, <2>3 DEF SeenInv
<1>9. CASE PollInputs
  BY <1>9, Seen, AccessAside DEF PollInputs, inputs
<1>10. CASE ResetAssert \/ ResetRelease
  BY <1>10, Seen, AccessAside DEF ResetAssert, ResetRelease, inputs
<1>11. ASSUME NEW w \in Writers, CacheOut(w) PROVE SeenInv'
  BY <1>11 DEF CacheOut, inputs, SeenInv
<1>12. ASSUME NEW w \in Writers, NEW level \in BOOLEAN, SetOut(w, level) PROVE SeenInv'
  BY <1>12, Seen, AccessAside DEF SetOut, inputs
<1>13. CASE UNCHANGED relayVars
  BY <1>13 DEF relayVars, inputs, SeenInv
<1> QED
  BY <1>1, <1>2, <1>3, <1>4, <1>5, <1>6, <1>7, <1>8, <1>9, <1>10, <1>11, <1>12, <1>13 DEF IoNext

\* Unless a reading failed, no change of an input goes unreported, though every access to
\* the device ends the interrupt (io_expander.c: io_expander_task, io_expander_start).
THEOREM ChangesReported == IoSpec => []InputsReported
<1>1. IoInit => SeenInv
  BY DEF IoInit, SeenInv
<1>2. SeenInv => InputsReported
  BY DEF SeenInv, InputsReported
<1> QED
  BY <1>1, <1>2, SeenStep, PTL DEF IoSpec
-----------------------------------------------------------------------------
(* Their types.                                                            *)

LEMMA OneMoreError ==
  ASSUME NEW n \in 0..MaxErrors, n < MaxErrors
  PROVE  n + 1 \in 0..MaxErrors
BY RelayAssumption

\* An access changes its count of errors and what was seen, a transfer the pins as well.
LEMMA AccessType ==
  ASSUME IoTypeOK, NEW ok \in BOOLEAN, Access(ok)
  PROVE  seen' \in Levels /\ ioErrors' \in 0..MaxErrors
BY OneMoreError DEF Access, IoTypeOK

LEMMA TransmitType ==
  ASSUME IoTypeOK, NEW ok \in BOOLEAN, Transmit(ok), latch' \in [Pins -> BOOLEAN]
  PROVE  seen' \in Levels /\ ioErrors' \in 0..MaxErrors /\ driven' \in [Pins -> BOOLEAN]
BY OneMoreError DEF Transmit, IoTypeOK

LEMMA LatchedType ==
  ASSUME IoTypeOK, NEW pin \in Pins, NEW level \in BOOLEAN
  PROVE  Latched(pin, level) \in [Pins -> BOOLEAN]
BY DEF IoTypeOK, Latched

LEMMA IoTypeStep ==
  ASSUME IoTypeOK, [IoNext]_relayVars
  PROVE  IoTypeOK'
<1> USE DEF IoTypeOK
<1>1. CASE Create
  <2>1. latch' \in [Pins -> BOOLEAN]
    BY <1>1 DEF Create, AllHigh
  <2> QED BY <1>1, <2>1, TransmitType DEF Create, inputs
<1>2. CASE Direct
  BY <1>2, TransmitType DEF Direct, Teardown, inputs
<1>3. CASE WritePort
  <2>1. latch' \in [Pins -> BOOLEAN]
    BY <1>3 DEF WritePort, InitialLatch, AllHigh
  <2> QED BY <1>3, <2>1, TransmitType DEF WritePort, Teardown, inputs
<1>4. CASE ReadInitial0 \/ ReadInitial1
  BY <1>4, AccessType DEF ReadInitial0, ReadInitial1, Teardown, outputs, Levels, Inputs
<1>5. CASE InterruptInit \/ StartTask
  BY <1>5 DEF InterruptInit, StartTask, outputs, inputs
<1>6. CASE TakeInterrupt
  BY <1>6 DEF TakeInterrupt, outputs
<1>7. CASE ReadIn0
  BY <1>7, AccessType DEF ReadIn0, outputs, Levels, Inputs
<1>8. CASE ReadIn1
  <2>1. PICK ok \in BOOLEAN :
          /\ Access(ok) /\ missed' = ~ok
          /\ lastIn' = IF ok THEN [i \in Inputs |-> IF i = 0 THEN first ELSE in[1]] ELSE lastIn
    BY <1>8 DEF ReadIn1
  <2>2. lastIn' \in Levels
    BY <2>1 DEF Levels, Inputs
  <2>3. ioAt' = "wait" /\ first' = FALSE /\ UNCHANGED <<stage, outputs, in, sem>>
    BY <1>8 DEF ReadIn1
  <2> QED BY <2>1, <2>2, <2>3, AccessType DEF outputs
<1>9. CASE PollInputs
  BY <1>9, AccessType DEF PollInputs, outputs, inputs
<1>10. CASE ResetAssert
  <2>1. latch' \in [Pins -> BOOLEAN]
    BY <1>10, LatchedType DEF ResetAssert, Pins, Released
  <2>2. pulses + 1 \in 0..MaxPulses
    BY <1>10, RelayAssumption DEF ResetAssert
  <2> QED BY <1>10, <2>1, <2>2, TransmitType DEF ResetAssert, inputs
<1>11. CASE ResetRelease
  <2>1. latch' \in [Pins -> BOOLEAN]
    BY <1>11, LatchedType DEF ResetRelease, Pins, Released
  <2> QED BY <1>11, <2>1, TransmitType DEF ResetRelease, inputs
<1>12. ASSUME NEW i \in Inputs, InputChanges(i) PROVE IoTypeOK'
  <2>1. in' \in Levels
    BY <1>12 DEF InputChanges, Levels
  <2>2. (sem \/ (in = seen /\ stage \in {"armed", "run"})) \in BOOLEAN
    OBVIOUS
  <2> QED BY <1>12, <2>1, <2>2 DEF InputChanges, outputs
<1>13. ASSUME NEW w \in Writers, CacheOut(w) PROVE IoTypeOK'
  <2>1. (writer[w] = "on") \in BOOLEAN
    OBVIOUS
  <2> QED BY <1>13, <2>1 DEF CacheOut, inputs
<1>14. ASSUME NEW w \in Writers, NEW level \in BOOLEAN, SetOut(w, level) PROVE IoTypeOK'
  <2>1. latch' \in [Pins -> BOOLEAN]
    BY <1>14, LatchedType DEF SetOut, Pins
  <2> QED BY <1>14, <2>1, TransmitType DEF SetOut, inputs
<1>15. CASE UNCHANGED relayVars
  BY <1>15 DEF relayVars, outputs, inputs
<1> QED
  BY <1>1, <1>2, <1>3, <1>4, <1>5, <1>6, <1>7, <1>8, <1>9, <1>10, <1>11, <1>12, <1>13,
     <1>14, <1>15 DEF IoNext

\* Latch, pins, inputs and the stages of start, task and reset keep to their types
\* (io_expander.c, pcf8574.c).
THEOREM IoTypeCorrect == IoSpec => []IoTypeOK
<1>1. IoInit => IoTypeOK
  <2> SUFFICES ASSUME IoInit PROVE IoTypeOK
    OBVIOUS
  <2>1. lastIn \in Levels /\ in \in Levels /\ seen \in Levels
    BY DEF IoInit, Levels
  <2>2. /\ AllHigh \in [Pins -> BOOLEAN]
        /\ [w \in Writers |-> "idle"] \in [Writers -> {"idle", "on", "off"}]
    BY DEF AllHigh
  <2>3. 0 \in 0..MaxErrors /\ 0 \in 0..MaxPulses
    BY RelayAssumption
  <2> QED BY <2>1, <2>2, <2>3 DEF IoInit, IoTypeOK
<1> QED BY <1>1, IoTypeStep, PTL DEF IoSpec

-----------------------------------------------------------------------------
(* The certificate store.                                                  *)

\* What is renamed into a slot is the whole file uploaded for it.
CertInv ==
    /\ DOMAIN files = CertSlots
    /\ CertificateIsWhole
    /\ "do" \in DOMAIN upload
    /\ upload.do # "none" => upload.pem.of \in CertSlots
    /\ upload.do \in {"unlink", "rename"} => temp = upload.pem

\* An empty store.
LEMMA EmptyStore ==
  ASSUME files' = [s \in CertSlots |-> None] \/ files' = files, DOMAIN files = CertSlots,
         CertificateIsWhole
  PROVE  DOMAIN files' = CertSlots /\ CertificateIsWhole'
BY DEF CertificateIsWhole

\* A slot that is emptied, or given a file of its own.
LEMMA OneSlot ==
  ASSUME CertInv, NEW s \in CertSlots, NEW c, c = None \/ c.of = s,
         files' = [files EXCEPT ![s] = c]
  PROVE  DOMAIN files' = CertSlots /\ CertificateIsWhole'
BY DEF CertInv, CertificateIsWhole

\* The upload goes on with its next call, or is given up.
LEMMA UploadGoes ==
  ASSUME CertInv, NEW do, Then(do)
  PROVE  upload'.do = do /\ upload'.pem = upload.pem /\ "do" \in DOMAIN upload'
BY DEF Then, CertInv

LEMMA Given ==
  ASSUME upload' = NoUpload
  PROVE  upload'.do = "none" /\ "do" \in DOMAIN upload'
BY DEF NoUpload

LEMMA BootStep ==
  ASSUME CertInv, Boot
  PROVE  CertInv'
<1>1. files' = [s \in CertSlots |-> None] \/ files' = files
  BY DEF Boot, Mount
<1>2. upload'.do = "none" /\ "do" \in DOMAIN upload'
  BY Given DEF Boot
<1> QED
  BY <1>1, <1>2, EmptyStore DEF CertInv

\* cert_store_write()
LEMMA WriteStep ==
  ASSUME CertInv, Open \/ Fill \/ Unlink \/ Rename
  PROVE  CertInv'
<1>1. CASE Open
  <2>1. upload.do = "open" /\ files' = files
    BY <1>1 DEF Open
  <2>2. CASE Then("fill")
    BY <2>1, <2>2, UploadGoes DEF CertInv, CertificateIsWhole
  <2>3. CASE GiveUp
    BY <2>1, <2>3, Given DEF GiveUp, CertInv, CertificateIsWhole
  <2> QED
    BY <1>1, <2>2, <2>3 DEF Open
<1>2. CASE Fill
  <2>1. upload.do = "fill" /\ files' = files
    BY <1>2 DEF Fill
  <2>2. CASE Then("unlink") /\ temp' = upload.pem
    BY <2>1, <2>2, UploadGoes DEF CertInv, CertificateIsWhole
  <2>3. CASE GiveUp
    BY <2>1, <2>3, Given DEF GiveUp, CertInv, CertificateIsWhole
  <2> QED
    BY <1>2, <2>2, <2>3 DEF Fill
<1>3. CASE Unlink
  <2>0. Then("rename")
    BY <1>3 DEF Unlink
  <2>1. /\ upload'.do = "rename" /\ upload'.pem = upload.pem /\ "do" \in DOMAIN upload'
        /\ temp' = temp /\ temp = upload.pem
    BY <1>3, <2>0, UploadGoes DEF Unlink, CertInv
  <2>2. upload.pem.of \in CertSlots
    BY <1>3 DEF Unlink, CertInv
  <2>3. files' = [files EXCEPT ![upload.pem.of] = None] \/ files' = files
    BY <1>3 DEF Unlink
  <2>4. DOMAIN files' = CertSlots /\ CertificateIsWhole'
    BY <2>2, <2>3, OneSlot, EmptyStore DEF CertInv
  <2> QED
    BY <2>1, <2>2, <2>4 DEF CertInv
<1>4. CASE Rename
  <2>1. upload'.do = "none" /\ "do" \in DOMAIN upload'
    BY <1>4, Given DEF Rename, GiveUp
  <2>2. upload.pem.of \in CertSlots /\ temp.of = upload.pem.of
    BY <1>4 DEF Rename, CertInv
  <2>3. files' = [files EXCEPT ![upload.pem.of] = temp] \/ files' = files
    BY <1>4 DEF Rename
  <2>4. DOMAIN files' = CertSlots /\ CertificateIsWhole'
    BY <2>2, <2>3, OneSlot, EmptyStore DEF CertInv
  <2> QED
    BY <2>1, <2>4 DEF CertInv
<1> QED
  BY <1>1, <1>2, <1>3, <1>4

LEMMA CertStep ==
  ASSUME CertInv, [PortalNext]_portalVars
  PROVE  CertInv'
<1>1. CASE PowerCut \/ RebootTimer
  BY <1>1, BootStep DEF PowerCut, RebootTimer
<1>2. CASE Open \/ Fill \/ Unlink \/ Rename
  BY <1>2, WriteStep
<1>3. ASSUME UNCHANGED <<storeVars, upload>> PROVE CertInv'
  BY <1>3 DEF storeVars, CertInv, CertificateIsWhole
<1>4. CASE Start \/ Stop \/ Login \/ SaveAll \/ RebootPost \/ ResetSettings \/ ReloadDefaults
  BY <1>3, <1>4 DEF Start, Stop, Login, SaveAll, RebootPost, ResetSettings, ReloadDefaults, Beside
<1>5. ASSUME NEW s \in CertSlots, Delete(s) PROVE CertInv'
  <2>1. files' = [files EXCEPT ![s] = None] /\ UNCHANGED <<temp, upload>>
    BY <1>5 DEF Delete
  <2> QED
    BY <2>1, OneSlot DEF CertInv
<1>6. ASSUME NEW s \in CertSlots, NEW e \in Editions, Upload(s, e) PROVE CertInv'
  <2>1. files' = files /\ upload'.do = "open" /\ upload'.pem.of = s /\ "do" \in DOMAIN upload'
    BY <1>6 DEF Upload, Pem
  <2> QED
    BY <2>1 DEF CertInv, CertificateIsWhole
<1>7. CASE EraseNext
  <2>1. SlotOrder[erase] \in CertSlots
    BY <1>7 DEF EraseNext, CertSlots
  <2>2. files' = [files EXCEPT ![SlotOrder[erase]] = None] \/ files' = files
    BY <1>7 DEF EraseNext
  <2>3. DOMAIN files' = CertSlots /\ CertificateIsWhole'
    BY <2>1, <2>2, OneSlot, EmptyStore DEF CertInv
  <2>4. UNCHANGED <<temp, upload>>
    BY <1>7 DEF EraseNext
  <2> QED
    BY <2>3, <2>4 DEF CertInv
<1>8. CASE UNCHANGED portalVars
  BY <1>3, <1>8 DEF portalVars
<1> QED
  BY <1>1, <1>2, <1>4, <1>5, <1>6, <1>7, <1>8 DEF PortalNext

\* Whatever write fails and wherever power is cut, the path MQTT loads a certificate from
\* holds a whole file uploaded for that slot, or none (cert_store.c: cert_store_write,
\* cert_store_delete, cert_store_init).
THEOREM CertificatesWhole == PortalSpec => []CertificateIsWhole
<1>1. PortalInit => CertInv
  BY DEF PortalInit, CertInv, CertificateIsWhole, NoUpload
<1>2. CertInv => CertificateIsWhole
  BY DEF CertInv
<1> QED
  BY <1>1, <1>2, CertStep, PTL DEF PortalSpec
-----------------------------------------------------------------------------
(* The types of the portal.                                                *)

LEMMA SlotCount ==
  /\ Len(SlotOrder) \in Nat
  /\ 0 \in 0..Len(SlotOrder) + 1 /\ 1 \in 0..Len(SlotOrder) + 1
  /\ Len(SlotOrder) + 1 \in 0..Len(SlotOrder) + 1
BY WebPortalAssumption

LEMMA DefaultType == Default \in [mode : Modes, caPath : BOOLEAN]
BY DEF Default, Modes

LEMMA ContentTypes ==
  /\ None \in Contents /\ Half \in Contents /\ NoUpload.pem = None
  /\ \A s \in CertSlots, e \in Editions : Pem(s, e) \in Contents
BY DEF Contents, NoUpload

LEMMA NoUploadType ==
  NoUpload \in [do : {"none", "open", "fill", "unlink", "rename"}, pem : Contents]
BY ContentTypes DEF NoUpload

LEMMA CallTypes ==
  ASSUME PortalTypeOK, Fails \/ Works
  PROVE  portalFaults' \in 0..MaxFaults
BY WebPortalAssumption DEF PortalTypeOK, Fails, Works

LEMMA BootTypes ==
  ASSUME PortalTypeOK, Boot, cuts' \in 0..MaxCuts
  PROVE  PortalTypeOK'
<1>1. /\ files' \in [CertSlots -> Contents] /\ temp' \in Contents /\ mounted' \in BOOLEAN
      /\ Fails \/ Works
  BY ContentTypes DEF Boot, Mount, PortalTypeOK
<1>2. portalFaults' \in 0..MaxFaults
  BY <1>1, CallTypes
<1> QED
  BY <1>1, <1>2, NoUploadType, SlotCount DEF Boot, PortalTypeOK

LEMMA UploadTypes ==
  ASSUME PortalTypeOK, NEW do \in {"none", "open", "fill", "unlink", "rename"},
         Then(do) \/ GiveUp
  PROVE  upload' \in [do : {"none", "open", "fill", "unlink", "rename"}, pem : Contents]
BY NoUploadType DEF PortalTypeOK, Then, GiveUp

LEMMA PortalTypeStep ==
  ASSUME PortalTypeOK, [PortalNext]_portalVars
  PROVE  PortalTypeOK'
<1> USE DEF storeVars, serverVars, settings
<1>1. CASE PowerCut
  BY <1>1, BootTypes, WebPortalAssumption DEF PowerCut, PortalTypeOK
<1>2. CASE RebootTimer
  BY <1>2, BootTypes DEF RebootTimer, PortalTypeOK
<1>3. CASE Start \/ Stop \/ Login
  BY <1>3, CallTypes DEF Start, Stop, Login, Beside, PortalTypeOK
<1>4. CASE Open \/ Fill \/ Unlink \/ Rename
  BY <1>4, CallTypes, UploadTypes, ContentTypes
  DEF Open, Fill, Unlink, Rename, Around, PortalTypeOK
<1>5. ASSUME NEW s \in CertSlots, Delete(s) PROVE PortalTypeOK'
  BY <1>5, CallTypes, ContentTypes DEF Delete, Around, PortalTypeOK
<1>6. ASSUME NEW s \in CertSlots, NEW e \in Editions, Upload(s, e) PROVE PortalTypeOK'
  BY <1>6, CallTypes, ContentTypes DEF Upload, Around, PortalTypeOK
<1>7. CASE SaveAll \/ RebootPost
  <2>1. \A m \in Modes : Bound(m) \in [mode : Modes, caPath : BOOLEAN]
    BY DEF Bound
  <2>2. Fails \/ Works
    BY <1>7 DEF SaveAll, RebootPost, Arm
  <2>3. timer' \in {"none", "idle", "armed"}
    BY <1>7 DEF SaveAll, RebootPost, Arm, PortalTypeOK
  <2>4. {ram', kept'} \subseteq [mode : Modes, caPath : BOOLEAN]
    BY <1>7, <2>1 DEF SaveAll, RebootPost, PortalTypeOK
  <2>5. UNCHANGED <<storeVars, upload, erase, serverVars, cuts>>
    BY <1>7 DEF SaveAll, RebootPost
  <2> QED BY <2>2, <2>3, <2>4, <2>5, CallTypes DEF PortalTypeOK
<1>8. CASE ResetSettings \/ ReloadDefaults
  BY <1>8, CallTypes, SlotCount, DefaultType DEF ResetSettings, ReloadDefaults, PortalTypeOK
<1>9. CASE EraseNext
  <2>1. SlotOrder[erase] \in CertSlots
    BY <1>9 DEF EraseNext, CertSlots
  <2>2. files' \in [CertSlots -> Contents]
    BY <1>9, <2>1, ContentTypes DEF EraseNext, PortalTypeOK
  <2>3. erase' \in 0..Len(SlotOrder) + 1
    BY <1>9, SlotCount DEF EraseNext
  <2> QED BY <1>9, <2>2, <2>3, CallTypes DEF EraseNext, PortalTypeOK
<1>10. CASE UNCHANGED portalVars
  BY <1>10 DEF portalVars, PortalTypeOK
<1> QED
  BY <1>1, <1>2, <1>3, <1>4, <1>5, <1>6, <1>7, <1>8, <1>9, <1>10 DEF PortalNext

\* The certificate store, the upload and the server keep to their types (cert_store.c,
\* web_portal.c).
THEOREM PortalTypeCorrect == PortalSpec => []PortalTypeOK
<1>1. PortalInit => PortalTypeOK
  <2>1. 0 \in 0..MaxFaults /\ 0 \in 0..MaxCuts
    BY WebPortalAssumption
  <2>2. [s \in CertSlots |-> None] \in [CertSlots -> Contents]
    BY ContentTypes
  <2> QED
    BY <2>1, <2>2, ContentTypes, NoUploadType, SlotCount, DefaultType DEF PortalInit, PortalTypeOK
<1> QED BY <1>1, PortalTypeStep, PTL DEF PortalSpec

-----------------------------------------------------------------------------
(* The clock.                                                              *)

\* The epochs a task has set the clock to and not yet stored.
Setting == {"set", "mark", "store"}

\* A task that has met no other since it began still works alone.
AloneInv ==
    \A t \in alone : clockJob[t] # Idle => \A u \in Tasks \ {t} : clockJob[u] = Idle

\* The floor may be ahead of the clock only while an answer waits that will be taken over,
\* or a task is on its way
\* to store a new one, and what a task working alone is about to store is not; a network
\* time is adopted by a trusted clock only.
AnswerWaits == sync = "done" /\ answer # 0

FloorInv ==
    /\ ~unsure => \/ floor <= clock \/ AnswerWaits
                  \/ \E t \in Tasks : clockJob[t].at \in Setting
    /\ \A t \in alone : clockJob[t].at \in {"mark", "store", "keep"} =>
          clockJob[t].epoch <= clock \/ AnswerWaits
    /\ quality # "S" => asked \/ silent
    /\ clockJob["service"].at \in {"store", "adopt"} => quality = "S"

LEMMA TimeConstants ==
  /\ MaxTime \in Nat /\ MaxTime > 0
  /\ MaxStarts \in Nat /\ MaxSets \in Nat /\ MaxClockFaults \in Nat
BY TimeSourceAssumption

\* Where the jobs of the tasks may stand.
Places == {"idle", "set", "mark", "keep", "store", "adopt"}
Jobs == [at : Places, epoch : Times]

LEMMA IdleIsAJob == Idle \in Jobs /\ Idle.at = "idle"
BY TimeConstants DEF Idle, Jobs, Places, Times

LEMMA JobTypes ==
  ASSUME TimeTypeOK
  PROVE  clockJob \in [Tasks -> Jobs] /\ \A t \in Tasks : clockJob[t] \in Jobs
BY DEF TimeTypeOK, Jobs, Places

\* A task that begins, goes on or ends.
LEMMA BeginType ==
  ASSUME TimeTypeOK, NEW t \in Tasks, NEW place \in Places, NEW epoch \in Times,
         Begin(t, place, epoch)
  PROVE  clockJob' \in [Tasks -> Jobs] /\ alone' \subseteq Tasks
<1>1. [at |-> place, epoch |-> epoch] \in Jobs
  BY DEF Jobs
<1> QED BY <1>1, JobTypes DEF Begin

LEMMA GoesType ==
  ASSUME TimeTypeOK, NEW t \in Tasks, NEW place \in Places, ClockGoes(t, place)
  PROVE  clockJob' \in [Tasks -> Jobs]
BY JobTypes DEF ClockGoes, Jobs

LEMMA EndsType ==
  ASSUME TimeTypeOK, NEW t \in Tasks, Ends(t)
  PROVE  clockJob' \in [Tasks -> Jobs]
BY JobTypes, IdleIsAJob DEF Ends

\* A start, with a chip that reads c, and the floor as it is or none.
LEMMA StartType ==
  ASSUME TimeTypeOK, NEW c, NEW known \in {floor, 0}, StartsWith(c, known)
  PROVE  /\ clock' \in Times /\ floor' \in Times /\ quality' \in {"U", "E", "S"}
         /\ asked' \in BOOLEAN /\ silent' \in BOOLEAN
         /\ (known = floor => floor' <= clock') /\ (quality' # "S" => asked' \/ silent')
<1>1. floor \in Times /\ known \in Times /\ (Believed(c, known) => c \in Times /\ c >= known)
  BY TimeConstants DEF TimeTypeOK, Believed, NotBehind, Times
<1>2. NotBehind(c, known) \in BOOLEAN /\ Believed(c, known) \in BOOLEAN
  BY DEF NotBehind, Believed
<1>3. asked' \in BOOLEAN /\ silent' \in BOOLEAN
  BY <1>2, Zenon DEF StartsWith
<1>4. ~Believed(c, known) => asked' \/ silent'
  BY <1>2, Zenon DEF StartsWith
<1>5. floor' \in {floor, c} /\ (floor' = floor \/ Believed(c, known))
  BY DEF StartsWith
<1>6. CASE Believed(c, known)
  <2>1. clock' = c /\ quality' = "S"
    BY <1>6 DEF StartsWith
  <2> QED BY <1>1, <1>3, <1>5, <1>6, <2>1 DEF Times
<1>7. CASE ~Believed(c, known)
  <2>1. clock' = known /\ quality' = IF known > 0 THEN "E" ELSE "U"
    BY <1>7 DEF StartsWith
  <2> QED BY <1>1, <1>3, <1>4, <1>5, <1>7, <2>1 DEF Times
<1> QED BY <1>6, <1>7

LEMMA TimeInitType == TimeInit => TimeTypeOK
<1> SUFFICES ASSUME TimeInit PROVE TimeTypeOK
  OBVIOUS
<1>1. clockJob \in [Tasks -> Jobs]
  BY IdleIsAJob DEF TimeInit
<1>2. {clock, floor, answer} \subseteq Times /\ chip \in {Absent, Halted}
  BY TimeConstants DEF TimeInit, Times
<1>3. starts \in 0..MaxStarts /\ sets \in 0..MaxSets /\ clockFaults \in 0..MaxClockFaults
  BY TimeConstants DEF TimeInit
<1>4. quality \in {"U", "E", "S"}
  BY DEF TimeInit
<1> QED BY <1>1, <1>2, <1>3, <1>4 DEF TimeInit, TimeTypeOK, Jobs, Places

LEMMA TimeNextType == TimeTypeOK /\ [TimeNext]_timeVars => TimeTypeOK'
<1> SUFFICES ASSUME TimeTypeOK, [TimeNext]_timeVars PROVE TimeTypeOK'
  OBVIOUS
<1> USE DEF Times, bounds, history
<1>1. CASE ClockRestart
  <2>1. chip' \in Times \cup {Absent, Halted}
    BY <1>1, TimeConstants DEF ClockRestart, TimeTypeOK
  <2>2. PICK c \in {chip', Absent}, known \in {floor, 0} : StartsWith(c, known)
    BY <1>1 DEF ClockRestart
  <2>3. clockJob' \in [Tasks -> Jobs]
    BY <1>1, IdleIsAJob DEF ClockRestart
  <2>4. starts' \in 0..MaxStarts
    BY <1>1, TimeConstants DEF ClockRestart, TimeTypeOK
  <2>5. sync' = "idle" /\ answer' = 0 /\ alone' = {} /\ UNCHANGED sets
    BY <1>1 DEF ClockRestart
  <2>6. unsure' \in BOOLEAN /\ (UNCHANGED clockFaults \/ ClockFault)
    BY <1>1, Zenon DEF ClockRestart
  <2>7. clockFaults' \in 0..MaxClockFaults /\ 0 \in Times
    BY <2>6, TimeConstants DEF ClockFault, TimeTypeOK
  <2> QED BY <2>1, <2>2, <2>3, <2>4, <2>5, <2>6, <2>7, StartType DEF TimeTypeOK, Jobs, Places
<1>2. CASE Tick
  <2>1. clock' \in Times /\ chip' \in Times \cup {Absent, Halted}
    BY <1>2, TimeConstants DEF Tick, TimeTypeOK
  <2>2. UNCHANGED <<quality, floor, asked, sync, answer, clockJob, history, bounds>>
    BY <1>2 DEF Tick
  <2> QED BY <2>1, <2>2 DEF TimeTypeOK
<1>3. CASE SyncStart
  BY <1>3 DEF SyncStart, TimeTypeOK
<1>4. CASE NetworkAnswers
  <2>1. answer' \in Times /\ clock' = answer' /\ sets' \in 0..MaxSets
    BY <1>4, TimeConstants DEF NetworkAnswers, TimeTypeOK
  <2>2. /\ sync' \in {"done", "missed"} /\ alone' \subseteq Tasks /\ unsure' \in BOOLEAN
        /\ UNCHANGED <<quality, floor, chip, asked, clockJob, silent, starts, clockFaults>>
    BY <1>4 DEF NetworkAnswers, TimeTypeOK
  <2> QED BY <2>1, <2>2 DEF TimeTypeOK
<1>5. CASE TimeOut \/ StopSync \/ RefuseAnswer
  BY <1>5 DEF TimeOut, StopSync, RefuseAnswer, TimeTypeOK
<1>6. CASE TakeAnswer
  <2>1. clockJob' \in [Tasks -> Jobs] /\ alone' \subseteq Tasks
    BY <1>6, BeginType DEF TakeAnswer, TimeTypeOK, Tasks, Places
  <2>2. sync' = "idle"
        /\ UNCHANGED <<clock, quality, floor, chip, asked, answer, unsure, silent, bounds>>
    BY <1>6 DEF TakeAnswer
  <2> QED BY <2>1, <2>2 DEF TimeTypeOK, Jobs, Places
<1>7. CASE Adopt
  <2>1. clockJob' \in [Tasks -> Jobs]
    BY <1>7, EndsType DEF Adopt, Tasks
  <2>2. chip' \in Times \cup {Absent, Halted} /\ clockFaults' \in 0..MaxClockFaults
    <3>1. clockJob["service"].epoch \in Times
      BY JobTypes DEF Tasks, Jobs
    <3> QED BY <1>7, <3>1, TimeConstants DEF Adopt, ClockFault, TimeTypeOK
  <2>3. asked' = FALSE
        /\ UNCHANGED <<clock, quality, floor, sync, answer, history, starts, sets>>
    BY <1>7 DEF Adopt
  <2> QED BY <2>1, <2>2, <2>3 DEF TimeTypeOK, Jobs, Places
<1>8. CASE HandSet
  <2>1. chip' \in Times /\ sets' \in 0..MaxSets
    BY <1>8, TimeConstants DEF HandSet, TimeTypeOK
  <2>2. clockJob' \in [Tasks -> Jobs] /\ alone' \subseteq Tasks
    BY <1>8, <2>1, BeginType DEF HandSet, Tasks, Places
  <2>3. UNCHANGED <<clock, quality, floor, asked, sync, answer, unsure, silent, starts,
                    clockFaults>>
    BY <1>8 DEF HandSet
  <2> QED BY <2>1, <2>2, <2>3 DEF TimeTypeOK, Jobs, Places
<1>9. CASE AskForSync
  BY <1>9 DEF AskForSync, TimeTypeOK
<1>10. ASSUME NEW t \in Tasks, Set(t) PROVE TimeTypeOK'
  <2>1. clockJob' \in [Tasks -> Jobs]
    BY <1>10, GoesType DEF Set, Places
  <2>2. clock' \in Times
    BY <1>10, JobTypes DEF Set, Jobs
  <2>3. UNCHANGED <<quality, floor, chip, asked, sync, answer, history, bounds>>
    BY <1>10 DEF Set
  <2> QED BY <2>1, <2>2, <2>3 DEF TimeTypeOK, Jobs, Places
<1>11. ASSUME NEW t \in Tasks, Mark(t) PROVE TimeTypeOK'
  <2>1. clockJob' \in [Tasks -> Jobs]
    BY <1>11, GoesType DEF Mark, Places
  <2>2. quality' = "S" /\ UNCHANGED <<clock, floor, chip, asked, sync, answer, history, bounds>>
    BY <1>11 DEF Mark
  <2> QED BY <2>1, <2>2 DEF TimeTypeOK, Jobs, Places
<1>12. ASSUME NEW t \in Tasks, Store(t) PROVE TimeTypeOK'
  <2>1. clockJob' \in [Tasks -> Jobs]
    BY <1>12, GoesType, EndsType DEF Store, Places
  <2>2. floor' \in Times /\ clockFaults' \in 0..MaxClockFaults
    <3>1. clockJob[t].epoch \in Times
      BY JobTypes DEF Jobs
    <3> QED BY <1>12, <3>1, TimeConstants DEF Store, ClockFault, TimeTypeOK
  <2>3. unsure' \in BOOLEAN
    <3>1. (t \notin alone) \in BOOLEAN
      OBVIOUS
    <3>2. unsure' = (t \notin alone) \/ unsure' = TRUE
      BY <1>12, Zenon DEF Store
    <3> QED BY <3>1, <3>2, Zenon
  <2>4. UNCHANGED <<clock, quality, chip, asked, sync, answer, alone, silent, starts, sets>>
    BY <1>12 DEF Store
  <2> QED BY <2>1, <2>2, <2>3, <2>4 DEF TimeTypeOK, Jobs, Places
<1>13. ASSUME NEW t \in Tasks, Keep(t) PROVE TimeTypeOK'
  <2>1. clockJob' \in [Tasks -> Jobs] /\ alone' \subseteq Tasks
    BY <1>13, BeginType DEF Keep, TimeTypeOK, Places
  <2>2. UNCHANGED <<clock, quality, floor, chip, asked, sync, answer, unsure, silent, bounds>>
    BY <1>13 DEF Keep
  <2> QED BY <2>1, <2>2 DEF TimeTypeOK, Jobs, Places
<1>14. CASE UNCHANGED timeVars
  BY <1>14 DEF timeVars, TimeTypeOK
<1> QED BY <1>1, <1>2, <1>3, <1>4, <1>5, <1>6, <1>7, <1>8, <1>9, <1>10, <1>11, <1>12, <1>13,
           <1>14 DEF TimeNext

\* Whatever the network, the chip, NVS and the hands at the device do, every variable keeps
\* its type (time_source.c: s_quality, s_sync_epoch, the floor in NVS).
THEOREM TimeTypeCorrect == TimeSpec => []TimeTypeOK
BY TimeInitType, TimeNextType, PTL DEF TimeSpec

\* The clock, the floor and the jobs stay: nothing else is said of them.
LEMMA AloneKept ==
  ASSUME AloneInv, UNCHANGED <<alone, clockJob>>
  PROVE  AloneInv'
BY DEF AloneInv

\* Whoever begins is alone only if all others are idle.
LEMMA AloneBegins ==
  ASSUME TimeTypeOK, NEW t \in Tasks, NEW place, NEW epoch, Begin(t, place, epoch)
  PROVE  AloneInv' /\ alone' \subseteq {t}
<1>1. CASE \A u \in Tasks : clockJob[u] = Idle
  <2>1. alone' = {t} /\ clockJob' = [clockJob EXCEPT ![t] = [at |-> place, epoch |-> epoch]]
    BY <1>1 DEF Begin
  <2> QED BY <1>1, <2>1, JobTypes DEF AloneInv
<1>2. CASE ~ \A u \in Tasks : clockJob[u] = Idle
  <2>1. alone' = {}
    BY <1>2 DEF Begin
  <2> QED BY <2>1 DEF AloneInv
<1> QED BY <1>1, <1>2

\* Nor does it disturb anybody to go on or to end.
LEMMA AloneGoesOn ==
  ASSUME TimeTypeOK, AloneInv, NEW t \in Tasks, clockJob[t] # Idle, UNCHANGED alone,
         \A u \in Tasks \ {t} : clockJob'[u] = clockJob[u]
  PROVE  AloneInv' /\ \A u \in alone \ {t} : clockJob[u] = Idle
<1>1. alone \subseteq Tasks
  BY DEF TimeTypeOK
<1>2. \A u \in alone \ {t} : clockJob[u] = Idle
  BY <1>1 DEF AloneInv
<1>3. \A u \in alone' : clockJob'[u] # Idle => \A v \in Tasks \ {u} : clockJob'[v] = Idle
  <2> TAKE u \in alone'
  <2>1. CASE u = t
    BY <2>1 DEF AloneInv
  <2>2. CASE u # t
    BY <1>1, <1>2, <2>2
  <2> QED BY <2>1, <2>2
<1> QED BY <1>2, <1>3 DEF AloneInv

\* What a step of a task at work is made of.
LEMMA GoesFacts ==
  ASSUME TimeTypeOK, NEW t \in Tasks, NEW place \in Places \ {"idle"}, ClockGoes(t, place)
  PROVE  /\ clockJob'[t] = [at |-> place, epoch |-> clockJob[t].epoch]
         /\ \A u \in Tasks \ {t} : clockJob'[u] = clockJob[u]
<1>1. clockJob' = [clockJob EXCEPT ![t] = [clockJob[t] EXCEPT !.at = place]]
  BY DEF ClockGoes
<1>2. clockJob[t] \in Jobs
  BY JobTypes
<1>3. [clockJob[t] EXCEPT !.at = place] = [at |-> place, epoch |-> clockJob[t].epoch]
  BY <1>2 DEF Jobs
<1> QED BY <1>1, <1>3, JobTypes

LEMMA EndsFacts ==
  ASSUME TimeTypeOK, NEW t \in Tasks, Ends(t)
  PROVE  /\ clockJob'[t] = Idle
         /\ \A u \in Tasks \ {t} : clockJob'[u] = clockJob[u]
BY JobTypes DEF Ends

LEMMA BeginFacts ==
  ASSUME TimeTypeOK, NEW t \in Tasks, NEW place, NEW epoch, Begin(t, place, epoch)
  PROVE  /\ clockJob[t] = Idle /\ clockJob'[t] = [at |-> place, epoch |-> epoch]
         /\ \A u \in Tasks \ {t} : clockJob'[u] = clockJob[u]
BY JobTypes DEF Begin

LEMMA AtWork ==
  ASSUME NEW t \in Tasks, clockJob[t].at # "idle"
  PROVE  clockJob[t] # Idle
BY IdleIsAJob

\* Steps that touch neither tasks nor floor, and leave the clock or advance it.
LEMMA FloorKept ==
  ASSUME TimeTypeOK, FloorInv, UNCHANGED <<alone, clockJob, unsure, floor, quality, silent>>,
         (clock' \in Times /\ clock <= clock') \/ AnswerWaits',
         AnswerWaits => AnswerWaits', asked => asked'
  PROVE  FloorInv'
<1>1. {floor, clock} \subseteq Int /\ \A t \in alone : clockJob[t].epoch \in Int
  BY JobTypes, TimeConstants DEF TimeTypeOK, Jobs, Times
<1>2. CASE AnswerWaits'
  BY <1>2 DEF FloorInv
<1>3. CASE ~AnswerWaits'
  <2>1. clock' \in Int /\ clock <= clock' /\ ~AnswerWaits
    BY <1>3 DEF Times
  <2> QED BY <1>1, <1>3, <2>1 DEF FloorInv
<1> QED BY <1>2, <1>3

LEMMA FloorStep ==
  TimeTypeOK /\ AloneInv /\ FloorInv /\ [TimeNext]_timeVars => AloneInv' /\ FloorInv'
<1> SUFFICES ASSUME TimeTypeOK, AloneInv, FloorInv, [TimeNext]_timeVars
             PROVE  AloneInv' /\ FloorInv'
  OBVIOUS
<1> USE DEF bounds, history
<1>0. /\ {floor, clock} \subseteq Int /\ alone \subseteq Tasks /\ "service" \in Tasks
      /\ \A t \in Tasks : clockJob[t].epoch \in Times
      /\ \A n \in Times : n \in Int /\ n <= n
  BY JobTypes, TimeConstants DEF TimeTypeOK, Jobs, Times, Tasks
<1>1. CASE ClockRestart
  <2>1. PICK c \in {chip', Absent}, known \in {floor, 0} :
           StartsWith(c, known) /\ (known = floor \/ unsure')
    BY <1>1 DEF ClockRestart
  <2>2. clockJob' = [t \in Tasks |-> Idle] /\ alone' = {}
    BY <1>1 DEF ClockRestart
  <2>3. (floor' <= clock' \/ unsure') /\ (quality' # "S" => asked' \/ silent')
    BY <2>1, StartType
  <2>4. clockJob'["service"].at = "idle"
    BY <1>0, <2>2, IdleIsAJob
  <2> QED BY <2>2, <2>3, <2>4 DEF AloneInv, FloorInv
<1>2. CASE Tick
  <2>1. clock' \in Times /\ clock <= clock'
    BY <1>2, TimeConstants DEF Tick, TimeTypeOK, Times
  <2>2. UNCHANGED <<quality, floor, asked, sync, answer, clockJob, history, bounds>>
    BY <1>2 DEF Tick
  <2>3. AnswerWaits => AnswerWaits'
    BY <2>2 DEF AnswerWaits
  <2> QED BY <2>1, <2>2, <2>3, AloneKept, FloorKept
<1>3. CASE SyncStart
  <2>1. clock' \in Times /\ clock <= clock' /\ ~AnswerWaits /\ (asked => asked')
    BY <1>0, <1>3 DEF SyncStart, TimeTypeOK, AnswerWaits
  <2>2. UNCHANGED <<quality, floor, clockJob, alone, unsure, silent>>
    BY <1>3 DEF SyncStart
  <2> QED BY <2>1, <2>2, AloneKept, FloorKept
<1>4. CASE NetworkAnswers
  <2>1. UNCHANGED <<quality, floor, asked, clockJob, silent>> /\ ~AnswerWaits
    BY <1>4 DEF NetworkAnswers, AnswerWaits
  <2>2. CASE alone' = {} /\ unsure' = TRUE
    BY <2>1, <2>2 DEF AloneInv, FloorInv
  <2>3. CASE UNCHANGED <<alone, unsure>> /\ AnswerWaits'
    BY <2>1, <2>3, AloneKept, FloorKept
  <2> QED BY <1>4, <2>2, <2>3 DEF NetworkAnswers, AnswerWaits
<1>5. CASE TimeOut \/ StopSync \/ RefuseAnswer
  <2>1. clock' \in Times /\ clock <= clock' /\ ~AnswerWaits /\ (asked => asked')
    BY <1>0, <1>5 DEF TimeOut, StopSync, RefuseAnswer, TimeTypeOK, AnswerWaits
  <2>2. UNCHANGED <<quality, floor, clockJob, alone, unsure, silent>>
    BY <1>5 DEF TimeOut, StopSync, RefuseAnswer
  <2> QED BY <2>1, <2>2, AloneKept, FloorKept
<1>6. CASE TakeAnswer
  <2>1. Begin("service", "set", answer)
        /\ UNCHANGED <<clock, quality, floor, asked, unsure, silent>>
    BY <1>6 DEF TakeAnswer
  <2>2. AloneInv' /\ alone' \subseteq {"service"}
    BY <1>0, <2>1, AloneBegins
  <2>3. clockJob'["service"].at = "set"
    <3>1. clockJob'["service"] = [at |-> "set", epoch |-> answer]
      BY <1>0, <2>1, BeginFacts
    <3> QED BY <3>1
  <2> QED BY <1>0, <2>1, <2>2, <2>3 DEF FloorInv, Setting
<1>7. CASE Adopt
  <2>1. clockJob["service"].at = "adopt" /\ Ends("service")
        /\ UNCHANGED <<clock, quality, floor, sync, answer, alone, unsure, silent>>
    BY <1>7 DEF Adopt
  <2>2. clockJob'["service"].at = "idle"
        /\ \A u \in Tasks \ {"service"} : clockJob'[u] = clockJob[u]
    BY <1>0, <2>1, EndsFacts, IdleIsAJob
  <2>3. AloneInv' /\ \A u \in alone \ {"service"} : clockJob[u] = Idle
    BY <1>0, <2>1, <2>2, AtWork, AloneGoesOn
  <2>4. \A u \in Tasks : clockJob[u].at \in Setting => clockJob'[u].at = clockJob[u].at
    BY <2>1, <2>2 DEF Setting
  <2>5. quality = "S"
    BY <2>1 DEF FloorInv
  <2>6. \A u \in alone' : clockJob'[u].at = "idle"
    BY <1>0, <2>1, <2>2, <2>3, IdleIsAJob
  <2> QED BY <2>1, <2>2, <2>3, <2>4, <2>5, <2>6 DEF FloorInv, AnswerWaits
<1>8. CASE HandSet
  <2>1. Begin("hand", "set", chip')
        /\ UNCHANGED <<clock, quality, floor, asked, sync, answer, unsure, silent>>
    BY <1>8 DEF HandSet
  <2>2. "hand" \in Tasks /\ "hand" # "service"
    BY DEF Tasks
  <2>3. AloneInv' /\ alone' \subseteq {"hand"}
    BY <2>1, <2>2, AloneBegins
  <2>4. clockJob'["hand"].at = "set" /\ clockJob'["service"] = clockJob["service"]
    <3>1. /\ clockJob'["hand"] = [at |-> "set", epoch |-> chip']
          /\ \A u \in Tasks \ {"hand"} : clockJob'[u] = clockJob[u]
      BY <2>1, <2>2, BeginFacts
    <3> QED BY <1>0, <2>2, <3>1
  <2> QED BY <2>1, <2>2, <2>3, <2>4 DEF FloorInv, AnswerWaits, Setting
<1>9. CASE AskForSync
  <2>1. clock' \in Times /\ clock <= clock' /\ (AnswerWaits => AnswerWaits') /\ asked'
    BY <1>0, <1>9 DEF AskForSync, TimeTypeOK, AnswerWaits
  <2>2. UNCHANGED <<quality, floor, clockJob, alone, unsure, silent>>
    BY <1>9 DEF AskForSync
  <2> QED BY <2>1, <2>2, AloneKept, FloorKept
<1>10. ASSUME NEW t \in Tasks, Set(t) PROVE AloneInv' /\ FloorInv'
  <2>1. clockJob[t].at = "set" /\ ClockGoes(t, "mark") /\ clock' = clockJob[t].epoch
        /\ UNCHANGED <<quality, floor, asked, sync, answer, alone, unsure, silent>>
    BY <1>10 DEF Set
  <2>2. clockJob'[t] = [at |-> "mark", epoch |-> clockJob[t].epoch]
        /\ \A u \in Tasks \ {t} : clockJob'[u] = clockJob[u]
    BY <2>1, GoesFacts DEF Places
  <2>3. AloneInv' /\ \A u \in alone \ {t} : clockJob[u] = Idle
    BY <2>1, <2>2, AtWork, AloneGoesOn
  <2>4. \A u \in alone' : clockJob'[u].at \in {"mark", "store", "keep"} => u = t
    BY <1>0, <2>1, <2>2, <2>3, IdleIsAJob
  <2>5. \A u \in alone' : clockJob'[u].at \in {"mark", "store", "keep"} =>
           clockJob'[u].epoch <= clock'
    BY <1>0, <2>1, <2>2, <2>4
  <2>6. clockJob'["service"].at \in {"store", "adopt"} => quality = "S"
    BY <1>0, <2>2 DEF FloorInv
  <2>7. clockJob'[t].at \in Setting
    BY <2>2 DEF Setting
  <2> QED BY <2>1, <2>3, <2>5, <2>6, <2>7 DEF FloorInv, AnswerWaits
<1>11. ASSUME NEW t \in Tasks, Mark(t) PROVE AloneInv' /\ FloorInv'
  <2>1. clockJob[t].at = "mark" /\ ClockGoes(t, "store") /\ quality' = "S"
        /\ UNCHANGED <<clock, floor, asked, sync, answer, alone, unsure, silent>>
    BY <1>11 DEF Mark
  <2>2. clockJob'[t] = [at |-> "store", epoch |-> clockJob[t].epoch]
        /\ \A u \in Tasks \ {t} : clockJob'[u] = clockJob[u]
    BY <2>1, GoesFacts DEF Places
  <2>3. AloneInv'
    BY <2>1, <2>2, AtWork, AloneGoesOn
  <2>4. \A u \in alone' : clockJob'[u].at \in {"mark", "store", "keep"} =>
           clockJob'[u].epoch <= clock' \/ AnswerWaits'
    BY <1>0, <2>1, <2>2 DEF FloorInv, AnswerWaits
  <2>5. clockJob'[t].at \in Setting
    BY <2>2 DEF Setting
  <2> QED BY <2>1, <2>3, <2>4, <2>5 DEF FloorInv, AnswerWaits
<1>12. ASSUME NEW t \in Tasks, Store(t) PROVE AloneInv' /\ FloorInv'
  <2>1. clockJob[t].at \in {"store", "keep"}
        /\ UNCHANGED <<clock, quality, asked, sync, answer, alone, silent>>
    BY <1>12 DEF Store
  <2>2. /\ \A u \in Tasks \ {t} : clockJob'[u] = clockJob[u]
        /\ \/ clockJob'[t] = Idle
           \/ /\ t = "service" /\ clockJob[t].at = "store"
              /\ clockJob'[t] = [at |-> "adopt", epoch |-> clockJob[t].epoch]
    BY <1>12, GoesFacts, EndsFacts DEF Store, Places
  <2>3. AloneInv' /\ \A u \in alone \ {t} : clockJob[u] = Idle
    BY <2>1, <2>2, AtWork, AloneGoesOn
  <2>4. \A u \in alone' : clockJob'[u].at \notin {"mark", "store", "keep"}
    BY <1>0, <2>1, <2>2, <2>3, IdleIsAJob
  <2>5. clockJob'["service"].at \in {"store", "adopt"} => quality = "S"
    BY <1>0, <2>2, IdleIsAJob DEF FloorInv
  <2>6. ~unsure' => floor' <= clock \/ AnswerWaits
    <3>1. ~unsure' => floor' = clockJob[t].epoch /\ t \in alone
      <4>1. (t \notin alone) \in BOOLEAN
        OBVIOUS
      <4> QED BY <1>12, <4>1, Zenon DEF Store
    <3> QED BY <2>1, <3>1 DEF FloorInv
  <2> QED BY <2>1, <2>3, <2>4, <2>5, <2>6 DEF FloorInv, AnswerWaits
<1>13. ASSUME NEW t \in Tasks, Keep(t) PROVE AloneInv' /\ FloorInv'
  <2>1. Begin(t, "keep", clock)
        /\ UNCHANGED <<clock, quality, floor, asked, sync, answer, unsure, silent>>
    BY <1>13 DEF Keep
  <2>2. AloneInv' /\ alone' \subseteq {t}
    BY <2>1, AloneBegins
  <2>3. clockJob[t].at = "idle" /\ clockJob'[t] = [at |-> "keep", epoch |-> clock]
        /\ \A u \in Tasks \ {t} : clockJob'[u] = clockJob[u]
    BY <2>1, BeginFacts, IdleIsAJob
  <2>4. \A u \in Tasks : clockJob[u].at \in Setting => clockJob'[u].at = clockJob[u].at
    BY <2>3 DEF Setting
  <2>5. clockJob'["service"].at \in {"store", "adopt"} => quality = "S"
    BY <1>0, <2>3 DEF FloorInv
  <2>6. \A u \in alone' : clockJob'[u].epoch <= clock
    BY <1>0, <2>2, <2>3
  <2> QED BY <2>1, <2>2, <2>4, <2>5, <2>6 DEF FloorInv, AnswerWaits
<1>14. CASE UNCHANGED timeVars
  BY <1>14 DEF timeVars, AloneInv, FloorInv, AnswerWaits
<1> QED BY <1>1, <1>2, <1>3, <1>4, <1>5, <1>6, <1>7, <1>8, <1>9, <1>10, <1>11, <1>12, <1>13,
           <1>14 DEF TimeNext

LEMMA FloorStart == TimeInit => AloneInv /\ FloorInv
<1> SUFFICES ASSUME TimeInit PROVE AloneInv /\ FloorInv
  OBVIOUS
<1>1. clockJob = [t \in Tasks |-> Idle] /\ alone = {} /\ asked = TRUE
  BY DEF TimeInit
<1>2. floor = clock /\ floor \in Int
  BY DEF TimeInit
<1>3. clockJob["service"].at = "idle"
  BY <1>1, IdleIsAJob DEF Tasks
<1> QED BY <1>1, <1>2, <1>3 DEF AloneInv, FloorInv

LEMMA FloorSays == FloorInv => FloorAndTrust
<1> SUFFICES ASSUME FloorInv PROVE FloorAndTrust
  OBVIOUS
<1>1. Quiet => ~AnswerWaits /\ \A t \in Tasks : clockJob[t].at \notin Setting
  BY IdleIsAJob DEF Quiet, Setting, AnswerWaits
<1> QED BY <1>1 DEF FloorInv, FloorAndTrust

\* With nothing under way the stored floor is not ahead of the clock, unless a write of it
\* failed or met another, an answer of the network was dropped or the start could not
\* read it, and one task alone has not written it since; and a clock that is not trusted goes on asking the network,
\* whatever restarts, answers and settings there were (time_source.c: time_source_set,
\* time_source_service, sync_service, time_source_init).
THEOREM FloorStaysBehind == TimeSpec => []FloorAndTrust
<1>1. TimeSpec => [](AloneInv /\ FloorInv)
  BY TimeTypeCorrect, FloorStart, FloorStep, PTL DEF TimeSpec
<1> QED BY <1>1, FloorSays, PTL

-----------------------------------------------------------------------------
(* The card.                                                               *)

\* The rows of one file are no younger than those of another.
InOrder(s, u) ==
    \A m \in 1..Len(s), n \in 1..Len(u) : s[m] > Header /\ u[n] > Header => s[m] <= u[n]

\* Every generation is older than all that follow it, for a rotation that lost some of its
\* moves leaves gaps.
Sorted(a, b, c, d) ==
    /\ InOrder(a, b) /\ InOrder(a, c) /\ InOrder(a, d)
    /\ InOrder(b, c) /\ InOrder(b, d) /\ InOrder(c, d)

\* No row is from the future, every file has its beginning or lost it, and the files are in
\* order.
OrderInv ==
    /\ \A f \in Files : \A n \in 1..Len(logs[f]) : logs[f][n] <= rows
    /\ \A f \in Files : logs[f] # <<>> => logs[f][1] \in {Header, Torn} \/ f \in bare
    /\ Sorted(logs["g3"], logs["g2"], logs["g1"], logs["energy"])

\* Who is past the lock holds it, so that no card is mounted under him: one that is about to
\* write a row to a card that can be written to has seen the file's beginning there, or was
\* told it had been written.
LockInv ==
    /\ \A t \in Loggers : logJob[t] \notin {"idle", "wait"} => holder = t
    /\ \A t \in Loggers : logJob[t] = "row" /\ usable => logs[t] # <<>> \/ t \in bare
    /\ usable => inserted

LEMMA CardConstants ==
  /\ Debounce \in Nat /\ Debounce > 0 /\ FullAt \in Nat
  /\ MaxRows \in Nat /\ MaxCardFaults \in Nat /\ MaxPulls \in Nat
BY SdLogAssumption

Lines == Torn..MaxRows
CardJobs == {"idle", "wait", "size", "remove", "move1", "move2", "move3", "empty", "header",
             "row"}

LEMMA LineFacts ==
  /\ Lines \subseteq Int /\ Header \in Lines /\ Torn \in Lines
  /\ \A r \in 0..MaxRows : r \in Lines
BY CardConstants DEF Lines, Header, Torn

\* A line more, and a file that is no longer there.
LEMMA AppendFacts ==
  ASSUME NEW s \in Seq(Lines), NEW x \in Lines
  PROVE  /\ Append(s, x) \in Seq(Lines) /\ Append(s, x) # <<>> /\ Append(s, x) # s
         /\ Len(Append(s, x)) = Len(s) + 1 /\ Append(s, x)[Len(s) + 1] = x
         /\ \A n \in 1..Len(s) : Append(s, x)[n] = s[n]
         /\ \A n \in 1..Len(Append(s, x)) : n \in 1..Len(s) \/ n = Len(s) + 1
OBVIOUS

LEMMA EmptyFacts == <<>> \in Seq(Lines) /\ Len(<<>>) = 0 /\ 1..Len(<<>>) = {}
OBVIOUS

LEMMA InOrderEmpty ==
  ASSUME NEW s
  PROVE  InOrder(s, <<>>) /\ InOrder(<<>>, s)
BY EmptyFacts DEF InOrder

\* A line that is no row, or younger than every row before it, may follow.
LEMMA InOrderAppend ==
  ASSUME NEW s \in Seq(Lines), NEW u \in Seq(Lines), NEW x \in Lines, InOrder(s, u),
         x > Header => \A m \in 1..Len(s) : s[m] <= x
  PROVE  InOrder(s, Append(u, x))
BY AppendFacts DEF InOrder

LEMMA OlderInOrder ==
  ASSUME NEW f, NEW g, InOrder(logs[f], logs[g])
  PROVE  Older(f, g)
BY DEF InOrder, Older, RowsOf

LEMMA CallFacts ==
  ASSUME CardTypeOK
  PROVE  /\ CallWorks => usable /\ cardFaults' \in 0..MaxCardFaults
         /\ CallFails => cardFaults' \in 0..MaxCardFaults
BY CardConstants DEF CallWorks, CallFails, CardTypeOK

LEMMA JobFacts ==
  ASSUME CardTypeOK, NEW t \in Loggers, NEW place \in CardJobs, Goes(t, place)
  PROVE  /\ logJob' \in [Loggers -> CardJobs] /\ logJob'[t] = place
         /\ \A u \in Loggers \ {t} : logJob'[u] = logJob[u]
BY DEF Goes, CardTypeOK, CardJobs

\* append_line() leaves the file alone or appends to it, on a card that can be written to.
LEMMA AppendedFacts ==
  ASSUME CardTypeOK, NEW t \in Loggers, NEW line \in Lines, NEW ok \in BOOLEAN,
         Appended(t, line, ok)
  PROVE  /\ cardFaults' \in 0..MaxCardFaults /\ logs' \in [Files -> Seq(Lines)]
         /\ \A f \in Files \ {t} : logs'[f] = logs[f]
         /\ \/ logs' = logs
            \/ usable /\ \E x \in {line, Torn} : logs'[t] = Append(logs[t], x)
<1>1. t \in Files /\ logs \in [Files -> Seq(Lines)] /\ logs[t] \in Seq(Lines)
  BY DEF CardTypeOK, Lines, Files, Loggers
<1>2. cardFaults' \in 0..MaxCardFaults
  BY CallFacts DEF Appended
<1>3. \/ logs' = logs
      \/ usable /\ \E x \in {line, Torn} : logs' = [logs EXCEPT ![t] = Append(logs[t], x)]
  BY CallFacts DEF Appended
<1>4. CASE logs' = logs
  BY <1>1, <1>2, <1>4
<1>5. CASE usable /\ \E x \in {line, Torn} : logs' = [logs EXCEPT ![t] = Append(logs[t], x)]
  <2>1. PICK x \in {line, Torn} : logs' = [logs EXCEPT ![t] = Append(logs[t], x)]
    BY <1>5
  <2>2. x \in Lines
    BY LineFacts
  <2>3. Append(logs[t], x) \in Seq(Lines)
    BY <1>1, <2>2, AppendFacts
  <2> QED BY <1>1, <1>2, <1>5, <2>1, <2>3
<1> QED BY <1>3, <1>4, <1>5

\* The lost header goes with the file.
Follows(from, to) == bare' = (bare \ {from}) \cup {f \in {to} : from \in bare}

\* A rotation's move: the file has a new name, or the move did not come about.
LEMMA MovedFacts ==
  ASSUME CardTypeOK, NEW n \in 1..3, NEW place, NEW next \in CardJobs, Moved(n, place, next)
  PROVE  /\ cardFaults' \in 0..MaxCardFaults /\ logs' \in [Files -> Seq(Lines)]
         /\ bare' \subseteq Files
         /\ logJob["energy"] = place /\ Goes("energy", next)
         /\ UNCHANGED <<inserted, usable, cardMounted, steady, holder, rows, pulls>>
         /\ \/ logs' = logs /\ bare' = bare
            \/ /\ logs[Moves[n].to] = <<>> /\ logs'[Moves[n].to] = logs[Moves[n].from]
               /\ logs'[Moves[n].from] = <<>>
               /\ \A f \in Files \ {Moves[n].to, Moves[n].from} : logs'[f] = logs[f]
               /\ Follows(Moves[n].from, Moves[n].to)
<1>1. /\ logJob["energy"] = place /\ Goes("energy", next)
      /\ UNCHANGED <<inserted, usable, cardMounted, steady, holder, rows, pulls>>
      /\ CallWorks \/ CallFails
      /\ \/ logs' = logs /\ bare' = bare
         \/ /\ logs[Moves[n].to] = <<>>
            /\ logs' = [logs EXCEPT ![Moves[n].to] = logs[Moves[n].from],
                                    ![Moves[n].from] = <<>>]
            /\ Follows(Moves[n].from, Moves[n].to)
  BY DEF Moved, Follows
<1>2. {Moves[n].to, Moves[n].from} \subseteq Files /\ Moves[n].to # Moves[n].from
  BY DEF Moves, Files, Generations, Loggers
<1>3. logs \in [Files -> Seq(Lines)] /\ bare \subseteq Files
  BY DEF CardTypeOK, Lines
<1>4. bare' \subseteq Files
  BY <1>1, <1>2, <1>3 DEF Follows
<1> QED BY <1>1, <1>2, <1>3, <1>4, CallFacts, EmptyFacts

LEMMA CardInitType == CardInit => CardTypeOK
<1> SUFFICES ASSUME CardInit PROVE CardTypeOK
  OBVIOUS
<1>1. logs \in [Files -> Seq(Torn..MaxRows)]
  BY EmptyFacts DEF CardInit, Lines
<1>2. logJob \in [Loggers -> CardJobs]
  BY DEF CardInit, CardJobs
<1>3. /\ steady \in -Debounce..Debounce /\ rows \in 0..MaxRows
      /\ cardFaults \in 0..MaxCardFaults /\ pulls \in 0..MaxPulls
  BY CardConstants DEF CardInit
<1> QED BY <1>1, <1>2, <1>3 DEF CardInit, CardTypeOK, CardJobs

LEMMA CardNextType == CardTypeOK /\ [CardNext]_sdVars => CardTypeOK'
<1> SUFFICES ASSUME CardTypeOK, [CardNext]_sdVars PROVE CardTypeOK'
  OBVIOUS
<1> USE DEF sdCard
<1>1. CASE Push
  <2>1. logs' \in [Files -> Seq(Torn..MaxRows)]
    BY <1>1, EmptyFacts DEF Push, CardTypeOK, Lines
  <2>2. inserted' = TRUE /\ bare' \subseteq Files
        /\ UNCHANGED <<usable, cardMounted, steady, holder, logJob, rows, cardFaults, pulls>>
    BY <1>1 DEF Push, CardTypeOK
  <2> QED BY <2>1, <2>2 DEF CardTypeOK
<1>2. CASE Pull
  <2>1. pulls' \in 0..MaxPulls
    BY <1>2, CardConstants DEF Pull, CardTypeOK
  <2>2. inserted' = FALSE /\ usable' = FALSE
        /\ UNCHANGED <<logs, bare, cardMounted, steady, holder, logJob, rows, cardFaults>>
    BY <1>2 DEF Pull
  <2> QED BY <2>1, <2>2 DEF CardTypeOK
<1>3. CASE PowerLoss
  <2>1. logJob' \in [Loggers -> CardJobs]
    BY <1>3 DEF PowerLoss, CardJobs
  <2>2. pulls' \in 0..MaxPulls /\ steady' \in -Debounce..Debounce
    BY <1>3, CardConstants DEF PowerLoss, CardTypeOK
  <2>3. usable' = FALSE /\ cardMounted' = FALSE /\ holder' = "none"
        /\ UNCHANGED <<inserted, logs, bare, rows, cardFaults>>
    BY <1>3 DEF PowerLoss
  <2> QED BY <2>1, <2>2, <2>3 DEF CardTypeOK, CardJobs
<1>4. CASE Sample
  <2>1. steady' \in -Debounce..Debounce
    BY <1>4, CardConstants DEF Sample, Counted, CardTypeOK
  <2>2. {usable', cardMounted'} \subseteq BOOLEAN
        /\ UNCHANGED <<inserted, logs, bare, holder, logJob, rows, pulls>>
        /\ cardFaults' = cardFaults
    BY <1>4 DEF Sample, CardTypeOK
  <2> QED BY <2>1, <2>2 DEF CardTypeOK
<1>5. CASE Size
  <2>1. logJob' \in [Loggers -> CardJobs]
    BY <1>5, JobFacts DEF Size, CardJobs, Loggers
  <2>2. cardFaults' \in 0..MaxCardFaults
    BY <1>5, CallFacts DEF Size
  <2>3. UNCHANGED <<inserted, usable, logs, bare, cardMounted, steady, holder, rows, pulls>>
    BY <1>5 DEF Size
  <2> QED BY <2>1, <2>2, <2>3 DEF CardTypeOK, CardJobs
<1>6. CASE Remove
  <2>1. logJob' \in [Loggers -> CardJobs]
    BY <1>6, JobFacts DEF Remove, CardJobs, Loggers
  <2>2. cardFaults' \in 0..MaxCardFaults
    BY <1>6, CallFacts DEF Remove
  <2>3. logs' \in [Files -> Seq(Torn..MaxRows)]
    BY <1>6, EmptyFacts DEF Remove, CardTypeOK, Lines
  <2>4. bare' \subseteq Files
        /\ UNCHANGED <<inserted, usable, cardMounted, steady, holder, rows, pulls>>
    BY <1>6 DEF Remove, CardTypeOK
  <2> QED BY <2>1, <2>2, <2>3, <2>4 DEF CardTypeOK, CardJobs
<1>7. CASE Move
  <2>1. PICK n \in 1..3, next \in CardJobs : Moved(n, logJob["energy"], next)
    BY <1>7, MovedFacts DEF Move, AfterRotation, CardJobs
  <2>2. logJob' \in [Loggers -> CardJobs]
    BY <2>1, MovedFacts, JobFacts DEF Loggers
  <2> QED BY <2>1, <2>2, MovedFacts DEF CardTypeOK, CardJobs, Lines
<1>8. ASSUME NEW t \in Loggers, Log(t) PROVE CardTypeOK'
  <2>1. logJob' \in [Loggers -> CardJobs]
    BY <1>8, JobFacts DEF Log, CardJobs
  <2>2. rows' \in 0..MaxRows
    BY <1>8, CardConstants DEF Log, CardTypeOK
  <2>3. UNCHANGED <<sdCard, cardMounted, steady, holder, cardFaults, pulls>>
    BY <1>8 DEF Log
  <2> QED BY <2>1, <2>2, <2>3 DEF CardTypeOK, CardJobs
<1>9. ASSUME NEW t \in Loggers, Locked(t) PROVE CardTypeOK'
  <2>1. logJob' \in [Loggers -> CardJobs]
    BY <1>9, JobFacts DEF Locked, CardJobs
  <2>2. holder' = t /\ UNCHANGED <<sdCard, cardMounted, steady, rows, cardFaults, pulls>>
    BY <1>9 DEF Locked
  <2> QED BY <2>1, <2>2 DEF CardTypeOK, CardJobs
<1>10. ASSUME NEW t \in Loggers, LooksEmpty(t) PROVE CardTypeOK'
  <2>1. logJob' \in [Loggers -> CardJobs]
    BY <1>10, JobFacts DEF LooksEmpty, CardJobs
  <2>2. cardFaults' \in 0..MaxCardFaults
    BY <1>10, CallFacts DEF LooksEmpty
  <2>3. UNCHANGED <<sdCard, cardMounted, steady, holder, rows, pulls>>
    BY <1>10 DEF LooksEmpty
  <2> QED BY <2>1, <2>2, <2>3 DEF CardTypeOK, CardJobs
<1>11. ASSUME NEW t \in Loggers, WriteHeader(t) PROVE CardTypeOK'
  <2>1. logJob' \in [Loggers -> CardJobs]
    BY <1>11, JobFacts DEF WriteHeader, Done, CardJobs
  <2>2. cardFaults' \in 0..MaxCardFaults /\ logs' \in [Files -> Seq(Lines)]
    BY <1>11, LineFacts, AppendedFacts DEF WriteHeader
  <2>3. holder' \in {holder, "none"} /\ bare' \subseteq Files
        /\ UNCHANGED <<inserted, usable, cardMounted, steady, rows, pulls>>
    BY <1>11 DEF WriteHeader, Done, CardTypeOK, Files
  <2> QED BY <2>1, <2>2, <2>3 DEF CardTypeOK, CardJobs, Lines
<1>12. ASSUME NEW t \in Loggers, WriteRow(t) PROVE CardTypeOK'
  <2>1. logJob' \in [Loggers -> CardJobs]
    BY <1>12, JobFacts DEF WriteRow, Done, CardJobs
  <2>2. cardFaults' \in 0..MaxCardFaults /\ logs' \in [Files -> Seq(Lines)]
    BY <1>12, LineFacts, AppendedFacts DEF WriteRow, CardTypeOK
  <2>3. holder' = "none"
        /\ UNCHANGED <<inserted, usable, bare, cardMounted, steady, rows, pulls>>
    BY <1>12 DEF WriteRow, Done
  <2> QED BY <2>1, <2>2, <2>3 DEF CardTypeOK, CardJobs, Lines
<1>13. CASE UNCHANGED sdVars
  BY <1>13 DEF sdVars, CardTypeOK
<1> QED BY <1>1, <1>2, <1>3, <1>4, <1>5, <1>6, <1>7, <1>8, <1>9, <1>10, <1>11, <1>12, <1>13
        DEF CardNext

\* Whatever card is put in, pulled or fails, every variable keeps its type
\* (sd_card.c: s_mounted, the debounce counters, the files).
THEOREM CardTypeCorrect == CardSpec => []CardTypeOK
BY CardInitType, CardNextType, PTL DEF CardSpec

\* Files that are kept stay in order.
LEMMA OrderKept ==
  ASSUME OrderInv, logs' = logs, rows' = rows, bare' = bare
  PROVE  OrderInv'
BY DEF OrderInv

\* What is appended is not from the future, and no row without a beginning.
LEMMA OrderAppended ==
  ASSUME CardTypeOK, OrderInv, NEW t \in Loggers, NEW x \in Lines, x <= rows, rows' = rows,
         logs' \in [Files -> Seq(Lines)], logs'[t] = Append(logs[t], x),
         \A f \in Files \ {t} : logs'[f] = logs[f],
         logs[t] = <<>> => x \in {Header, Torn} \/ t \in bare',
         bare \subseteq bare' \/ (logs[t] = <<>> /\ bare \ {t} \subseteq bare'),
         x > Header => x = rows
  PROVE  OrderInv'
<1>1. logs \in [Files -> Seq(Lines)] /\ t \in Files /\ t \in {"energy", "fault"}
  BY DEF CardTypeOK, Lines, Files, Loggers
<1>2. {"g3", "g2", "g1", "energy"} \subseteq Files
  BY DEF Files, Loggers, Generations
<1>3. \A f \in Files : \A n \in 1..Len(logs'[f]) : logs'[f][n] <= rows'
  <2> TAKE f \in Files
  <2>1. CASE f = t
    <3>1. logs[t] \in Seq(Lines) /\ logs'[f] = Append(logs[t], x)
      BY <1>1, <2>1
    <3>2. \A n \in 1..Len(logs'[f]) : logs'[f][n] = x \/ \E m \in 1..Len(logs[t]) :
                                                        logs'[f][n] = logs[t][m]
      BY <3>1, AppendFacts
    <3>3. \A m \in 1..Len(logs[t]) : logs[t][m] <= rows
      BY <1>1 DEF OrderInv
    <3> QED BY <3>2, <3>3
  <2>2. CASE f # t
    BY <2>2 DEF OrderInv
  <2> QED BY <2>1, <2>2
<1>4. \A f \in Files : logs'[f] # <<>> => logs'[f][1] \in {Header, Torn} \/ f \in bare'
  <2> TAKE f \in Files
  <2>1. CASE f = t /\ logs[t] = <<>>
    BY <1>1, <2>1, AppendFacts, EmptyFacts
  <2>2. CASE f = t /\ logs[t] # <<>>
    <3>1. 1 \in 1..Len(logs[t])
      BY <1>1, <2>2
    <3>2. logs[t] \in Seq(Lines) /\ logs'[f] = Append(logs[t], x)
      BY <1>1, <2>2
    <3>3. logs'[f][1] = logs[t][1]
      BY <3>1, <3>2, AppendFacts
    <3>4. logs[t][1] \in {Header, Torn} \/ t \in bare'
      BY <1>1, <2>2 DEF OrderInv
    <3> QED BY <2>2, <3>3, <3>4
  <2>3. CASE f # t
    BY <2>3 DEF OrderInv
  <2> QED BY <2>1, <2>2, <2>3
<1>5. CASE t = "energy"
  <2>1. \A g \in {"g3", "g2", "g1"} : InOrder(logs[g], logs'["energy"])
    <3> TAKE g \in {"g3", "g2", "g1"}
    <3>1. InOrder(logs[g], logs["energy"])
      BY DEF OrderInv, Sorted
    <3>2. x > Header => \A m \in 1..Len(logs[g]) : logs[g][m] <= x
      <4>1. \A m \in 1..Len(logs[g]) : logs[g][m] <= rows
        BY <1>2 DEF OrderInv
      <4> QED BY <4>1
    <3>3. logs[g] \in Seq(Lines) /\ logs["energy"] \in Seq(Lines)
      BY <1>1, <1>2
    <3>4. logs'["energy"] = Append(logs["energy"], x)
      BY <1>5
    <3> QED BY <3>1, <3>2, <3>3, <3>4, InOrderAppend
  <2>2. \A g \in {"g3", "g2", "g1"} : logs'[g] = logs[g]
    BY <1>2, <1>5
  <2> QED BY <1>3, <1>4, <2>1, <2>2 DEF OrderInv, Sorted
<1>6. CASE t = "fault"
  BY <1>2, <1>3, <1>4, <1>6 DEF OrderInv
<1> QED BY <1>1, <1>5, <1>6

\* What is moved or removed keeps the order.
LEMMA OrderRotated ==
  ASSUME CardTypeOK, OrderInv, rows' = rows, NEW from \in Files, NEW to \in Files,
         \/ from = "g2" /\ to = "g3"
         \/ from = "g1" /\ to = "g2"
         \/ from = "energy" /\ to = "g1",
         logs[to] = <<>>, logs'[to] = logs[from], logs'[from] = <<>>,
         \A f \in Files \ {to, from} : logs'[f] = logs[f],
         Follows(from, to)
  PROVE  OrderInv'
<1>1. \A f \in Files : logs'[f] = <<>> \/ \E g \in Files : logs'[f] = logs[g]
  OBVIOUS
<1>2. \A f \in Files : \A n \in 1..Len(logs'[f]) : logs'[f][n] <= rows'
  BY <1>1, EmptyFacts DEF OrderInv
<1>3. \A f \in Files : logs'[f] # <<>> => logs'[f][1] \in {Header, Torn} \/ f \in bare'
  BY <1>1 DEF OrderInv, Follows
<1>4. Sorted(logs'["g3"], logs'["g2"], logs'["g1"], logs'["energy"])
  BY InOrderEmpty DEF OrderInv, Sorted, Files, Loggers, Generations
<1> QED BY <1>2, <1>3, <1>4 DEF OrderInv

LEMMA OrderRemoved ==
  ASSUME OrderInv, rows' = rows, logs' = [logs EXCEPT !["g3"] = <<>>],
         bare' = bare \ {"g3"}, CardTypeOK
  PROVE  OrderInv'
<1>1. /\ logs'["g3"] = <<>> /\ \A f \in Files \ {"g3"} : logs'[f] = logs[f]
      /\ {"g3", "g2", "g1", "energy"} \subseteq Files
  BY DEF CardTypeOK, Files, Generations, Loggers
<1>2. \A f \in Files : \A n \in 1..Len(logs'[f]) : logs'[f][n] <= rows'
  BY <1>1, EmptyFacts DEF OrderInv
<1>3. \A f \in Files : logs'[f] # <<>> => logs'[f][1] \in {Header, Torn} \/ f \in bare'
  BY <1>1 DEF OrderInv
<1>4. Sorted(logs'["g3"], logs'["g2"], logs'["g1"], logs'["energy"])
  BY <1>1, InOrderEmpty DEF OrderInv, Sorted
<1> QED BY <1>2, <1>3, <1>4 DEF OrderInv

LEMMA OrderCleared ==
  ASSUME logs' = [f \in Files |-> <<>>]
  PROVE  OrderInv'
<1>1. \A f \in Files : logs'[f] = <<>>
  OBVIOUS
<1>2. {"g3", "g2", "g1", "energy"} \subseteq Files
  BY DEF Files, Generations, Loggers
<1> QED BY <1>1, <1>2, EmptyFacts, InOrderEmpty DEF OrderInv, Sorted

\* Whoever is past the lock goes on, and the card is left as it is.
LEMMA LockGoesOn ==
  ASSUME CardTypeOK, LockInv, NEW t \in Loggers, NEW place \in CardJobs,
         logJob[t] \notin {"idle", "wait"}, Goes(t, place), usable' = usable,
         inserted' = inserted, holder' = holder,
         \A f \in Loggers \ {t} : logs'[f] = logs[f],
         \A f \in Loggers \ {t} : f \in bare => f \in bare',
         place = "row" /\ usable => logs'[t] # <<>> \/ t \in bare'
  PROVE  LockInv'
BY JobFacts DEF LockInv

LEMMA LockReleased ==
  ASSUME CardTypeOK, LockInv, NEW t \in Loggers, logJob[t] \notin {"idle", "wait"}, Done(t),
         usable' = usable, inserted' = inserted,
         \A f \in Loggers \ {t} : logs'[f] = logs[f]
  PROVE  LockInv'
<1>1. logJob'[t] = "idle" /\ \A u \in Loggers \ {t} : logJob'[u] = logJob[u]
  BY JobFacts DEF Done, CardJobs
<1>2. \A u \in Loggers \ {t} : logJob[u] \in {"idle", "wait"}
  BY DEF LockInv
<1> QED BY <1>1, <1>2 DEF LockInv

LEMMA OrderStep ==
  CardTypeOK /\ OrderInv /\ LockInv /\ [CardNext]_sdVars => OrderInv' /\ LockInv'
<1> SUFFICES ASSUME CardTypeOK, OrderInv, LockInv, [CardNext]_sdVars
             PROVE  OrderInv' /\ LockInv'
  OBVIOUS
<1> USE DEF sdCard
<1>0. rows \in Lines /\ rows <= rows /\ Header <= rows /\ Torn <= rows /\ Loggers \subseteq Files
  BY CardConstants DEF CardTypeOK, Lines, Header, Torn, Files
<1>1. CASE Push
  <2>1. ~usable /\ UNCHANGED <<usable, holder, logJob, rows>> /\ inserted'
    BY <1>1 DEF Push, LockInv
  <2>2. UNCHANGED <<logs, bare>> \/ logs' = [f \in Files |-> <<>>]
    BY <1>1 DEF Push
  <2>3. LockInv'
    BY <2>1 DEF LockInv
  <2> QED BY <2>1, <2>2, <2>3, OrderKept, OrderCleared
<1>2. CASE Pull
  <2>1. ~usable' /\ UNCHANGED <<logs, bare, holder, logJob, rows>>
    BY <1>2 DEF Pull
  <2> QED BY <2>1, OrderKept DEF LockInv
<1>3. CASE PowerLoss
  <2>1. ~usable' /\ UNCHANGED <<logs, bare, rows>> /\ \A t \in Loggers : logJob'[t] = "idle"
    BY <1>3 DEF PowerLoss
  <2> QED BY <2>1, OrderKept DEF LockInv
<1>4. CASE Sample
  <2>1. UNCHANGED <<inserted, logs, bare, holder, logJob, rows>>
    BY <1>4 DEF Sample
  <2>2. usable' = usable \/ (holder = "none" /\ inserted)
    BY <1>4 DEF Sample
  <2>3. CASE usable' = usable
    BY <2>1, <2>3, OrderKept DEF LockInv
  <2>4. CASE holder = "none" /\ inserted
    <3>1. \A t \in Loggers : logJob[t] \in {"idle", "wait"}
      BY <2>4 DEF LockInv, Loggers
    <3> QED BY <2>1, <2>4, <3>1, OrderKept DEF LockInv
  <2> QED BY <2>2, <2>3, <2>4
<1>5. CASE Size
  <2>1. PICK place \in {"remove", "empty"} : Goes("energy", place)
    BY <1>5 DEF Size
  <2>2. logJob["energy"] = "size" /\ UNCHANGED <<inserted, usable, logs, bare, holder, rows>>
    BY <1>5 DEF Size
  <2>3. LockInv'
    BY <2>1, <2>2, LockGoesOn DEF Loggers, CardJobs
  <2> QED BY <2>2, <2>3, OrderKept
<1>6. CASE Remove
  <2>1. /\ logJob["energy"] = "remove" /\ Goes("energy", "move1")
        /\ UNCHANGED <<inserted, usable, holder, rows>>
        /\ \/ UNCHANGED <<logs, bare>>
           \/ logs' = [logs EXCEPT !["g3"] = <<>>] /\ bare' = bare \ {"g3"}
    BY <1>6 DEF Remove
  <2>2. logs'["fault"] = logs["fault"] /\ ("fault" \in bare => "fault" \in bare')
    BY <2>1 DEF CardTypeOK, Files, Loggers
  <2>3. LockInv'
    BY <2>1, <2>2, LockGoesOn DEF Loggers, CardJobs
  <2> QED BY <2>1, <2>3, OrderKept, OrderRemoved
<1>7. CASE Move
  <2>1. PICK n \in 1..3, next \in {"move2", "move3", "empty"} :
          Moved(n, logJob["energy"], next) /\ logJob["energy"] \in {"move1", "move2", "move3"}
    BY <1>7, MovedFacts DEF Move, AfterRotation, CardJobs
  <2>2. next \in CardJobs
    BY DEF CardJobs
  <2>3. /\ Goes("energy", next) /\ UNCHANGED <<inserted, usable, holder, rows>>
        /\ \/ logs' = logs /\ bare' = bare
           \/ /\ logs[Moves[n].to] = <<>> /\ logs'[Moves[n].to] = logs[Moves[n].from]
              /\ logs'[Moves[n].from] = <<>>
              /\ \A f \in Files \ {Moves[n].to, Moves[n].from} : logs'[f] = logs[f]
              /\ Follows(Moves[n].from, Moves[n].to)
    BY <2>1, <2>2, MovedFacts
  <2>4. /\ \/ Moves[n].from = "g2" /\ Moves[n].to = "g3"
           \/ Moves[n].from = "g1" /\ Moves[n].to = "g2"
           \/ Moves[n].from = "energy" /\ Moves[n].to = "g1"
        /\ {Moves[n].from, Moves[n].to} \subseteq Files
    BY DEF Moves, Files, Generations, Loggers
  <2>5. logs'["fault"] = logs["fault"] /\ ("fault" \in bare => "fault" \in bare')
    BY <2>3, <2>4 DEF Files, Loggers, Follows
  <2>6. LockInv'
    BY <2>1, <2>2, <2>3, <2>5, LockGoesOn DEF Loggers
  <2>7. rows' = rows
    BY <2>3
  <2>8. CASE logs' = logs /\ bare' = bare
    BY <2>6, <2>7, <2>8, OrderKept
  <2>9. CASE ~(logs' = logs /\ bare' = bare)
    <3> DEFINE from == Moves[n].from
               to == Moves[n].to
    <3>1. /\ logs[to] = <<>> /\ logs'[to] = logs[from] /\ logs'[from] = <<>>
          /\ \A f \in Files \ {to, from} : logs'[f] = logs[f]
          /\ Follows(from, to)
      BY <2>3, <2>9
    <3>2. from \in Files /\ to \in Files
      BY <2>4
    <3>3. \/ from = "g2" /\ to = "g3"
          \/ from = "g1" /\ to = "g2"
          \/ from = "energy" /\ to = "g1"
      BY <2>4
    <3> HIDE DEF from, to
    <3>4. OrderInv'
      BY <2>7, <3>1, <3>2, <3>3, OrderRotated
    <3> QED BY <2>6, <3>4
  <2> QED BY <2>8, <2>9
<1>8. ASSUME NEW t \in Loggers, Log(t) PROVE OrderInv' /\ LockInv'
  <2>1. logJob[t] = "idle" /\ Goes(t, "wait") /\ rows' = rows + 1 /\ rows \in Int
        /\ UNCHANGED <<inserted, usable, logs, bare, holder>>
    BY <1>8 DEF Log, CardTypeOK
  <2>2. OrderInv'
    <3>1. \A f \in Files : \A n \in 1..Len(logs[f]) : logs[f][n] \in Int
      <4> TAKE f \in Files
      <4> TAKE n \in 1..Len(logs[f])
      <4>1. logs[f] \in Seq(Lines)
        BY DEF CardTypeOK, Lines
      <4>2. logs[f][n] \in Lines
        BY <4>1
      <4> QED BY <4>2, LineFacts
    <3>2. \A f \in Files : \A n \in 1..Len(logs[f]) : logs[f][n] <= rows'
      BY <2>1, <3>1 DEF OrderInv
    <3> QED BY <2>1, <3>2 DEF OrderInv
  <2>3. LockInv'
    BY <2>1, JobFacts DEF LockInv, CardJobs
  <2> QED BY <2>2, <2>3
<1>9. ASSUME NEW t \in Loggers, Locked(t) PROVE OrderInv' /\ LockInv'
  <2>1. holder = "none" /\ holder' = t /\ UNCHANGED <<inserted, usable, logs, bare, rows>>
    BY <1>9 DEF Locked
  <2>2. logJob'[t] \in {"size", "empty"} /\ \A u \in Loggers \ {t} : logJob'[u] = logJob[u]
    BY <1>9, JobFacts DEF Locked, CardJobs
  <2>3. \A u \in Loggers : logJob[u] \in {"idle", "wait"}
    BY <2>1 DEF LockInv, Loggers
  <2> QED BY <2>1, <2>2, <2>3, OrderKept DEF LockInv
<1>10. ASSUME NEW t \in Loggers, LooksEmpty(t) PROVE OrderInv' /\ LockInv'
  <2>1. PICK place \in {"header", "row"} : Goes(t, place) /\ (place = "row" => logs[t] # <<>>)
    BY <1>10 DEF LooksEmpty
  <2>2. logJob[t] = "empty" /\ UNCHANGED <<inserted, usable, logs, bare, holder, rows>>
    BY <1>10 DEF LooksEmpty
  <2>3. LockInv'
    BY <2>1, <2>2, LockGoesOn DEF CardJobs
  <2> QED BY <2>2, <2>3, OrderKept
<1>11. ASSUME NEW t \in Loggers, WriteHeader(t) PROVE OrderInv' /\ LockInv'
  <2>1. PICK ok \in BOOLEAN :
          /\ Appended(t, Header, ok)
          /\ IF ok THEN Goes(t, "row") /\ UNCHANGED holder ELSE Done(t)
          /\ bare' = IF logs[t] # <<>> THEN bare
                     ELSE IF ok /\ logs'[t] = <<>> THEN bare \cup {t} ELSE bare \ {t}
    BY <1>11 DEF WriteHeader
  <2>2. /\ logJob[t] = "header" /\ UNCHANGED <<inserted, usable, rows>>
        /\ logs[t] \in Seq(Lines)
    BY <1>0, <1>11 DEF WriteHeader, CardTypeOK, Lines
  <2>3. /\ logs' \in [Files -> Seq(Lines)] /\ \A f \in Files \ {t} : logs'[f] = logs[f]
        /\ logs' = logs \/ \E x \in {Header, Torn} : logs'[t] = Append(logs[t], x)
    BY <2>1, LineFacts, AppendedFacts
  <2>4. bare \ {t} \subseteq bare' /\ (logs[t] # <<>> => bare' = bare)
    BY <2>1
  <2>5. OrderInv'
    <3>1. CASE logs' = logs
      BY <2>2, <2>4, <3>1 DEF OrderInv
    <3>2. CASE \E x \in {Header, Torn} : logs'[t] = Append(logs[t], x)
      BY <1>0, <2>2, <2>3, <2>4, <3>2, LineFacts, OrderAppended DEF Header, Torn
    <3> QED BY <2>3, <3>1, <3>2
  <2>6. CASE ok
    <3>1. logs'[t] # <<>> \/ t \in bare'
      BY <2>1, <2>3, <2>6
    <3>2. Goes(t, "row") /\ UNCHANGED holder
      BY <2>1, <2>6
    <3>3. LockInv'
      BY <1>0, <2>2, <2>3, <2>4, <3>1, <3>2, LockGoesOn DEF CardJobs
    <3> QED BY <2>5, <3>3
  <2>7. CASE ~ok
    BY <1>0, <2>1, <2>2, <2>3, <2>5, <2>7, LockReleased
  <2> QED BY <2>6, <2>7
<1>12. ASSUME NEW t \in Loggers, WriteRow(t) PROVE OrderInv' /\ LockInv'
  <2>1. PICK ok \in BOOLEAN : Appended(t, rows, ok)
    BY <1>12 DEF WriteRow
  <2>2. /\ logJob[t] = "row" /\ Done(t)
        /\ UNCHANGED <<inserted, usable, bare, rows>>
    BY <1>12 DEF WriteRow
  <2>3. /\ logs' \in [Files -> Seq(Lines)] /\ \A f \in Files \ {t} : logs'[f] = logs[f]
        /\ \/ logs' = logs
           \/ usable /\ \E x \in {rows, Torn} : logs'[t] = Append(logs[t], x)
    BY <1>0, <2>1, AppendedFacts
  <2>4. usable => logs[t] # <<>> \/ t \in bare
    BY <2>2 DEF LockInv
  <2>5. OrderInv'
    BY <1>0, <2>2, <2>3, <2>4, LineFacts, OrderKept, OrderAppended DEF Header, Torn
  <2> QED BY <1>0, <2>2, <2>3, <2>5, LockReleased
<1>13. CASE UNCHANGED sdVars
  BY <1>13, OrderKept DEF sdVars, LockInv
<1> QED BY <1>1, <1>2, <1>3, <1>4, <1>5, <1>6, <1>7, <1>8, <1>9, <1>10, <1>11, <1>12, <1>13
        DEF CardNext

LEMMA OrderStart == CardInit => OrderInv /\ LockInv
<1> SUFFICES ASSUME CardInit PROVE OrderInv /\ LockInv
  OBVIOUS
<1>1. \A f \in Files : logs[f] = <<>>
  BY DEF CardInit
<1>2. {"g3", "g2", "g1", "energy"} \subseteq Files
  BY DEF Files, Generations, Loggers
<1>3. OrderInv
  BY <1>1, <1>2, EmptyFacts, InOrderEmpty DEF OrderInv, Sorted
<1> QED BY <1>3 DEF CardInit, LockInv

LEMMA OrderSays == OrderInv => LogReadsInOrder
BY OlderInOrder DEF OrderInv, Sorted, LogReadsInOrder

\* A log file begins with its header or with what is left of one, unless that header was
\* reported written and lost, and every generation is older than the next, for any card, any
\* failures and any removals (sd_card.c: append_line, sd_card_log_energy_csv,
\* energy_rotate_generations).
THEOREM LogsStayInOrder == CardSpec => []LogReadsInOrder
<1>1. CardSpec => [](OrderInv /\ LockInv)
  BY CardTypeCorrect, OrderStart, OrderStep, PTL DEF CardSpec
<1> QED BY <1>1, OrderSays, PTL

-----------------------------------------------------------------------------
(* All seven together.                                                     *)

\* Whichever part runs, each goes by its own specification, so that every theorem about a
\* part holds of their composition.
THEOREM PartsOfTheField ==
  FieldSpec => Spec /\ IoSpec /\ SlaveSpec /\ BusSpec /\ TimeSpec /\ CardSpec /\ PortalSpec
<1>1. FieldInit =>
        Init /\ IoInit /\ SlaveInit /\ BusInit /\ TimeInit /\ CardInit /\ PortalInit
  BY DEF FieldInit
<1>2. [FieldNext]_fieldVars =>
        /\ [Next]_tcpVars /\ [IoNext]_relayVars /\ [SlaveNext]_slaveVars
        /\ [BusNext]_masterVars /\ [TimeNext]_timeVars /\ [CardNext]_sdVars
        /\ [PortalNext]_portalVars
  BY DEF FieldNext, fieldVars
<1> QED
  BY <1>1, <1>2, PTL
  DEF FieldSpec, Spec, IoSpec, SlaveSpec, BusSpec, TimeSpec, CardSpec, PortalSpec

\* Whichever part runs keeps to its types.
THEOREM FieldTypeCorrect == FieldSpec => []TypesOK
<1>1. /\ TypeOK /\ IoTypeOK /\ SlaveTypeOK /\ BusTypeOK /\ TimeTypeOK /\ CardTypeOK
      /\ PortalTypeOK
      => TypesOK
  BY DEF TypesOK
<1> QED
  BY <1>1, PartsOfTheField, TcpTypeCorrect, IoTypeCorrect, SlaveTypeCorrect,
     MasterTypeCorrect, TimeTypeCorrect, CardTypeCorrect, PortalTypeCorrect, PTL
=============================================================================
