------------------------ MODULE AlarmManager_proofs ------------------------
(* Proofs about AlarmManager, for every value of its constants.            *)
EXTENDS AlarmManager, TLAPS

-----------------------------------------------------------------------------
(* Type correctness.                                                       *)

LEMMA BoolOr == ASSUME NEW a, NEW b \in BOOLEAN PROVE (b \/ a) \in BOOLEAN
  OBVIOUS

LEMMA ContentsType ==
  ASSUME NEW n \in Versions
  PROVE  /\ Contents[n].enabled \subseteq VBits \cup OcBits
         /\ Contents[n].confirm \in 0..(Period - 3)
  BY VersionAssumption

LEMMA ConfirmType == ASSUME TypeOK PROVE Confirm \in 0..(Period - 3)
<1>1. CASE cached = None
  BY <1>1, ClockAssumption DEF Confirm
<1>2. CASE cached \in Versions
  BY <1>2, ContentsType, ClockAssumption DEF Confirm, Versions, None
<1> QED BY <1>1, <1>2 DEF TypeOK

LEMMA GatedType == ASSUME NEW bits \in SUBSET Bits PROVE Gated(bits) \subseteq bits
  BY DEF Gated

LEMMA ZeroVersion == 0 \in Versions
  BY VersionAssumption DEF Versions

LEMMA TypeInit == Init => TypeOK
<1>1. 0 \in Versions /\ 0 \in 0..(Period - 1) /\ 1 \in 0..(Period - 1) /\ 0 \in 0..Period
      /\ NotSeen \in NotSeen..Period
  BY ClockAssumption, VersionAssumption DEF Versions, NotSeen
<1>2. ASSUME Init
      PROVE  chip \in [v : Versions \cup {None}, oc : Versions \cup {None}]
  BY <1>2 DEF Init
<1>3. ASSUME Init
      PROVE  /\ since \in [Bits -> 0..(Period - 1)] /\ age \in [Bits -> NotSeen..Period]
             /\ polls \in [Bits -> 0..Period]
  BY <1>1, <1>3 DEF Init
<1> QED BY <1>1, <1>2, <1>3 DEF Init, TypeOK, PCs

LEMMA TypeTick ==
  ASSUME TypeOK, Tick
  PROVE  now' \in 0..(Period - 1) /\ age' \in [Bits -> NotSeen..Period]
<1>1. now' \in 0..(Period - 1)
  <2>1. \A n \in Int : n % Period \in 0..(Period - 1)
    BY ClockAssumption
  <2> QED BY <2>1 DEF TypeOK, Tick
<1>2. ASSUME NEW a \in NotSeen..Period
      PROVE  (IF a \in {NotSeen, Period} THEN a ELSE a + 1) \in NotSeen..Period
  BY <1>2, ClockAssumption DEF NotSeen
<1>3. age' \in [Bits -> NotSeen..Period]
  BY <1>2 DEF TypeOK, Tick
<1> QED BY <1>1, <1>3

\* The steps of apply_ic().
LEMMA TypeApply ==
  ASSUME TypeOK,
         \/ CopyConfig \/ ApplyBegin \/ AnchorFails
         \/ \E load \in BOOLEAN : Anchor(load)
         \/ WriteThresholds \/ WriteFails \/ NoteOc \/ Note
  PROVE  TypeOK'
<1> USE DEF TypeOK, PCs, Applying
<1>0. 0 \in Versions
  BY ZeroVersion
<1>1. CASE CopyConfig
  BY <1>1 DEF CopyConfig, bitvars, outputs
<1>2. CASE ApplyBegin
  BY <1>0, <1>2 DEF ApplyBegin, Applied, bitvars, outputs
<1>3. CASE AnchorFails
  BY <1>0, <1>3 DEF AnchorFails, Applied, bitvars, outputs
<1>4. ASSUME NEW load \in BOOLEAN, Anchor(load) PROVE TypeOK'
  <2>1. anchored' \in BOOLEAN
    BY <1>4, Zenon DEF Anchor
  <2>2. copy' \in Versions /\ wanted' \in BOOLEAN /\ writeOi' \in BOOLEAN /\ pc' \in PCs
    <3>1. CASE wanted \/ (OcEnabled(copy) /\ load)
      <4>1. writeOi' = (OcEnabled(copy) /\ load) /\ pc' = "write" /\ UNCHANGED <<copy, wanted>>
        BY <1>4, <3>1 DEF Anchor
      <4>2. writeOi' \in BOOLEAN
        BY <4>1, Zenon
      <4> QED BY <4>1, <4>2
    <3>2. CASE ~(wanted \/ (OcEnabled(copy) /\ load))
      BY <1>0, <1>4, <3>2 DEF Anchor, Applied
    <3> QED BY <3>1, <3>2
  <2> QED BY <1>4, <2>1, <2>2 DEF Anchor, bitvars, outputs
<1>5. CASE WriteThresholds
  <2>1. chip' \in [v : Versions \cup {None}, oc : Versions \cup {None}]
    BY <1>5 DEF WriteThresholds
  <2> QED BY <1>5, <2>1 DEF WriteThresholds, bitvars, outputs
<1>6. CASE WriteFails
  BY <1>0, <1>6 DEF WriteFails, Applied, bitvars, outputs
<1>7. CASE NoteOc
  BY <1>7 DEF NoteOc, bitvars, outputs
<1>8. CASE Note
  BY <1>0, <1>8 DEF Note, Applied, bitvars, outputs
<1> QED BY <1>1, <1>2, <1>3, <1>4, <1>5, <1>6, <1>7, <1>8

LEMMA TypeEvaluate == ASSUME TypeOK, Evaluate PROVE TypeOK'
<1> USE DEF TypeOK
<1> PICK bits \in SUBSET Bits :
      LET act == Gated(bits)
          newly == Confirmed(act) \ latched
      IN  /\ active' = act
          /\ latched' = latched \cup newly
          /\ since' = [b \in Bits |-> IF b \notin act THEN 0
                                      ELSE IF since[b] = 0 THEN now ELSE since[b]]
          /\ age' = [b \in Bits |-> IF b \notin act \ latched' THEN NotSeen
                                    ELSE IF age[b] = NotSeen THEN 0 ELSE age[b]]
          /\ polls' = [b \in Bits |-> IF b \notin act \ latched' THEN 0
                                      ELSE IF polls[b] = Period THEN Period ELSE polls[b] + 1]
          /\ logged' = (logged \cup newly) \ Ended(act)
          /\ pc' = IF newly # {} /\ HasRole THEN "drive" ELSE "poll"
          /\ UNCHANGED <<limits, now, outputs>>
  BY DEF Evaluate
<1>1. Gated(bits) \subseteq Bits /\ Confirmed(Gated(bits)) \subseteq Bits
  BY GatedType DEF Confirmed
<1>2. active' \subseteq Bits /\ latched' \subseteq Bits /\ logged' \subseteq Bits
  BY <1>1
<1>3. since' \in [Bits -> 0..(Period - 1)] /\ age' \in [Bits -> NotSeen..Period]
      /\ polls' \in [Bits -> 0..Period]
  BY ClockAssumption DEF NotSeen
<1>4. pc' \in PCs
  BY DEF PCs
<1> QED BY <1>2, <1>3, <1>4 DEF limits, outputs

\* The flags that are set to the truth of a statement.
LEMMA FlagTypes ==
  /\ RequestApply => late' \in BOOLEAN
  /\ ResetLatch => crossed' \in BOOLEAN
<1>1. ASSUME NEW x, NEW S PROVE (x \in S) \in BOOLEAN
  BY SMT
<1>2. RequestApply => late' = (pc \in Applying \ {"copy"})
  BY Zenon DEF RequestApply
<1>3. ResetLatch => crossed' = (pc \in {"drive", "drove"})
  BY Zenon DEF ResetLatch
<1>4. RequestApply => late' \in BOOLEAN
  <2>1. (pc \in Applying \ {"copy"}) \in BOOLEAN
    BY <1>1
  <2> QED BY <2>1, <1>2, Zenon
<1>5. ResetLatch => crossed' \in BOOLEAN
  <2>1. (pc \in {"drive", "drove"}) \in BOOLEAN
    BY <1>1
  <2> QED BY <2>1, <1>3, Zenon
<1> QED BY <1>4, <1>5

LEMMA TypeStep == TypeOK /\ [Next]_vars => TypeOK'
<1> SUFFICES ASSUME TypeOK, [Next]_vars PROVE TypeOK'
  OBVIOUS
<1> USE DEF TypeOK
<1>0. 0 \in 0..(Period - 1) /\ NotSeen \in NotSeen..Period /\ 0 \in 0..Period
  BY ClockAssumption DEF NotSeen
<1>1. CASE Poll
  <2>1. pc' \in PCs
    BY <1>1 DEF Poll, PCs, Applying
  <2>2. now' \in 0..(Period - 1) /\ age' \in [Bits -> NotSeen..Period]
    BY <1>1, TypeTick DEF Poll
  <2> QED BY <1>1, <2>1, <2>2 DEF Poll, limits, outputs
<1>2. CASE MissedPoll
  <2>1. now' \in 0..(Period - 1) /\ age' \in [Bits -> NotSeen..Period]
    BY <1>2, TypeTick DEF MissedPoll
  <2> QED BY <1>2, <2>1 DEF MissedPoll, limits, outputs
<1>3. CASE Evaluate
  BY <1>3, TypeEvaluate
<1>4. CASE Drive
  <2>1. crossed' \in BOOLEAN
    BY <1>4, Zenon DEF Drive
  <2>2. pc' \in PCs /\ {latch', relay', loose'} \subseteq BOOLEAN
    BY <1>4 DEF Drive, WriteRelay, PCs
  <2> QED BY <1>4, <2>1, <2>2 DEF Drive, limits, bitvars
<1>5. CASE Drove
  BY <1>5 DEF Drove, PCs, limits, bitvars
<1>6. CASE EditConfig
  <2>1. cfg' \in Versions
    BY <1>6, VersionAssumption DEF EditConfig, Versions
  <2> QED BY <1>6, <2>1 DEF EditConfig, bitvars, outputs
<1>7. CASE RequestApply
  <2>1. late' \in BOOLEAN
    BY <1>7, FlagTypes
  <2> QED BY <1>7, <2>1 DEF RequestApply, bitvars, outputs
<1>8. CASE ResetLatch
  <2>1. crossed' \in BOOLEAN
    BY <1>8, FlagTypes
  <2>2. since' \in [Bits -> 0..(Period - 1)] /\ age' \in [Bits -> NotSeen..Period]
        /\ polls' \in [Bits -> 0..Period]
    BY <1>0, <1>8 DEF ResetLatch
  <2> QED BY <1>8, <2>1, <2>2 DEF ResetLatch, limits
<1>9. CASE Release
  BY <1>9 DEF Release, WriteRelay, limits, bitvars
<1>10. CASE SwitchByHand \/ OtherPin
  BY <1>10 DEF SwitchByHand, OtherPin, WriteRelay, limits, bitvars
<1>11. CASE UNCHANGED vars
  BY <1>11 DEF vars, limits, bitvars, outputs
<1> QED
  BY <1>1, <1>2, <1>3, <1>4, <1>5, <1>6, <1>7, <1>8, <1>9, <1>10, <1>11, TypeApply DEF Next

\* The types of the alarm manager, for any alarms, contents of the configuration and
\* period of the clock.
THEOREM AlarmTypeCorrect == Spec => []TypeOK
  BY TypeInit, TypeStep, PTL DEF Spec
-----------------------------------------------------------------------------
(* The masks.                                                              *)

\* While no request has come late: what apply_ic() holds is no older than the last
\* request, and so is what the anchors let through.
MaskInv ==
    /\ cfg >= asked /\ cfg >= cached /\ cfg >= copy
    /\ pc = "begin" => copy >= cached
    /\ pc \in {"anchor", "write", "noteOc", "note"} => cached = copy
    /\ pc \in {"noteOc", "note"} => chip.v = copy
    /\ pc = "noteOc" /\ writeOi => chip.oc = copy
    /\ ~late =>
         /\ pc \in Applying \ {"copy"} => copy >= asked
         /\ armed => chip.v >= asked
         /\ anchored => /\ cached >= asked
                        /\ OcEnabled(cached) /\ cached = asked => chip.oc >= asked


LEMMA MaskInit == Init => MaskInv
<1>1. ASSUME Init PROVE cfg >= asked /\ cfg >= cached
  BY <1>1 DEF Init, None
<1> QED BY <1>1 DEF Init, MaskInv, Applying

\* The steps of apply_ic().
LEMMA MaskApply ==
  ASSUME TypeOK, MaskInv,
         \/ CopyConfig \/ ApplyBegin \/ AnchorFails
         \/ \E load \in BOOLEAN : Anchor(load)
         \/ WriteThresholds \/ WriteFails \/ NoteOc \/ Note
  PROVE  MaskInv'
<1>0. /\ cfg \in Nat /\ asked \in Int /\ copy \in Int /\ cached \in Int
      /\ chip.v \in Int /\ chip.oc \in Int
  BY VersionAssumption DEF TypeOK, Versions, None
<1> USE DEF MaskInv, Applying
<1>1. CASE CopyConfig
  BY <1>0, <1>1 DEF CopyConfig, OcEnabled
<1>2. CASE ApplyBegin
  <2>1. CASE ~pending /\ Applied /\ UNCHANGED cached
    BY <1>0, <1>2, <2>1 DEF ApplyBegin, Applied, OcEnabled
  <2>2. CASE wanted' = pending /\ cached' = copy /\ pc' = "anchor" /\ UNCHANGED <<copy, writeOi>>
    <3>1. pc = "begin" /\ UNCHANGED <<cfg, asked, anchored, armed, chip, late>>
      BY <1>2 DEF ApplyBegin
    <3>2. ~late /\ anchored /\ copy = asked => cached = copy
      BY <1>0, <3>1
    <3> QED BY <1>0, <2>2, <3>1, <3>2 DEF OcEnabled
  <2> QED BY <1>2, <2>1, <2>2 DEF ApplyBegin
<1>3. CASE AnchorFails
  BY <1>0, <1>3 DEF AnchorFails, Applied, OcEnabled
<1>4. ASSUME NEW load \in BOOLEAN, Anchor(load) PROVE MaskInv'
  <2>1. pc = "anchor" /\ UNCHANGED <<cfg, asked, armed, cached, chip, late>>
    BY <1>4 DEF Anchor
  <2>2. anchored' => anchored \/ ~OcEnabled(cached)
    <3>1. anchored' => anchored \/ ~OcEnabled(copy)
      BY <1>4, Zenon DEF Anchor
    <3> QED BY <2>1, <3>1
  <2>3. (pc' = "write" /\ copy' = copy) \/ (pc' = "service" /\ copy' = 0)
    <3>1. CASE wanted \/ (OcEnabled(copy) /\ load)
      <4>1. pc' = "write" /\ UNCHANGED <<copy, wanted>>
        BY <1>4, <3>1, Zenon DEF Anchor
      <4> QED BY <4>1
    <3>2. CASE ~(wanted \/ (OcEnabled(copy) /\ load))
      BY <1>4, <3>2 DEF Anchor, Applied
    <3> QED BY <3>1, <3>2
  <2> QED BY <1>0, <2>1, <2>2, <2>3 DEF OcEnabled
<1>5. CASE WriteThresholds
  BY <1>0, <1>5 DEF WriteThresholds, OcEnabled
<1>6. CASE WriteFails
  BY <1>0, <1>6 DEF WriteFails, Applied, OcEnabled
<1>7. CASE NoteOc
  BY <1>0, <1>7 DEF NoteOc, OcEnabled
<1>8. CASE Note
  BY <1>0, <1>8 DEF Note, Applied, OcEnabled
<1> QED BY <1>1, <1>2, <1>3, <1>4, <1>5, <1>6, <1>7, <1>8

LEMMA MaskStep == TypeOK /\ MaskInv /\ [Next]_vars => MaskInv'
<1> SUFFICES ASSUME TypeOK, MaskInv, [Next]_vars PROVE MaskInv'
  OBVIOUS
<1>0. /\ cfg \in Nat /\ asked \in Int /\ copy \in Int /\ cached \in Int
      /\ chip.v \in Int /\ chip.oc \in Int
  BY VersionAssumption DEF TypeOK, Versions, None
<1>1. ASSUME UNCHANGED limits,
             pc' \in Applying \ {"copy"} => pc' = pc
      PROVE  MaskInv'
  BY <1>1 DEF MaskInv, limits, OcEnabled, Applying
<1>2. CASE Poll
  BY <1>1, <1>2 DEF Poll, Applying
<1>3. CASE MissedPoll
  BY <1>1, <1>3 DEF MissedPoll, limits
<1>4. CASE Evaluate
  <2>1. UNCHANGED limits /\ pc' \notin Applying
    BY <1>4 DEF Evaluate, Applying
  <2> QED BY <1>1, <2>1
<1>5. CASE Drive
  BY <1>1, <1>5 DEF Drive, Applying
<1>6. CASE Drove
  BY <1>1, <1>6 DEF Drove, Applying
<1>7. CASE EditConfig
  <2>1. cfg' = cfg + 1 /\ UNCHANGED <<asked, anchored, armed, cached, chip, late, copy, writeOi, pc>>
    BY <1>7 DEF EditConfig
  <2> QED BY <1>0, <2>1 DEF MaskInv, OcEnabled
<1>8. CASE RequestApply
  <2>1. ~late' => pc' \notin Applying \ {"copy"}
    BY <1>8, Zenon DEF RequestApply
  <2>2. /\ asked' = cfg /\ armed' = FALSE /\ anchored' = FALSE
        /\ UNCHANGED <<cfg, cached, chip, copy, writeOi, pc>>
    BY <1>8 DEF RequestApply
  <2> QED BY <1>0, <2>1, <2>2 DEF MaskInv, OcEnabled
<1>9. CASE ResetLatch
  BY <1>1, <1>9 DEF ResetLatch
<1>10. CASE Release
  BY <1>1, <1>10 DEF Release
<1>11. CASE SwitchByHand \/ OtherPin
  BY <1>1, <1>11 DEF SwitchByHand, OtherPin
<1>12. CASE UNCHANGED vars
  BY <1>1, <1>12 DEF vars
<1> QED
  BY <1>2, <1>3, <1>4, <1>5, <1>6, <1>7, <1>8, <1>9, <1>10, <1>11, <1>12, MaskApply DEF Next

\* A verdict of the metering chip is not judged against a threshold older than the
\* last request to apply one, for the requests and edits that come in time, whatever
\* the versions enable and however often the transfers fail.
THEOREM LimitsMasked == Spec => []StaleLimitsMaskedUnlessLate
<1>1. TypeOK /\ MaskInv => StaleLimitsMaskedUnlessLate
  <2> SUFFICES ASSUME TypeOK, MaskInv, ~late PROVE StaleLimitsMaskedUnlessLate
    BY DEF StaleLimitsMaskedUnlessLate
  <2>1. asked \in Int /\ cached \in Int
    BY VersionAssumption DEF TypeOK, Versions, None
  <2>2. ASSUME OcBits \cap Enabled # {} PROVE OcEnabled(cached)
    BY <2>2 DEF Enabled, OcEnabled
  <2>3. armed => chip.v >= asked
    BY DEF MaskInv
  <2>4. ASSUME anchored, OcBits \cap Enabled # {}, cached <= asked PROVE chip.oc >= asked
    <3>1. cached = asked
      BY <2>1, <2>4 DEF MaskInv
    <3> QED BY <2>2, <2>4, <3>1 DEF MaskInv
  <2> QED BY <2>3, <2>4 DEF StaleLimitsMaskedUnlessLate
<1> QED BY <1>1, AlarmTypeCorrect, MaskInit, MaskStep, PTL DEF Spec
-----------------------------------------------------------------------------
(* The relay.                                                              *)

\* The relay, the task that drives it and the one that releases it.
RelayInv ==
    /\ pcR = "idle" => ~release
    /\ ~loose => relay = latch /\ (relay => driven \/ release \/ pc = "drove")
    /\ pc = "drove" /\ pcR = "release" => crossed
    /\ ~crossed =>
         /\ driven => pcR = "idle" /\ latched # {}
         /\ pc \in {"drive", "drove"} => latched # {}
         /\ ~loose /\ (driven \/ pc = "drove") => relay

LEMMA RelayStep == TypeOK /\ RelayInv /\ [Next]_vars => RelayInv'
<1> SUFFICES ASSUME TypeOK, RelayInv, [Next]_vars PROVE RelayInv'
  OBVIOUS
<1>1. ASSUME UNCHANGED outputs,
             pc' \in {"drive", "drove"} => pc' = pc, latched \subseteq latched',
             pc = "drove" => pc' = pc
      PROVE  RelayInv'
  BY <1>1 DEF RelayInv, outputs
<1>2. CASE Poll
  BY <1>1, <1>2 DEF Poll
<1>3. CASE MissedPoll
  BY <1>1, <1>3 DEF MissedPoll
<1>4. CASE \/ CopyConfig \/ ApplyBegin \/ AnchorFails
           \/ \E load \in BOOLEAN : Anchor(load)
           \/ WriteThresholds \/ WriteFails \/ NoteOc \/ Note
  BY <1>1, <1>4 DEF CopyConfig, ApplyBegin, AnchorFails, Anchor, WriteThresholds, WriteFails,
                    NoteOc, Note, Applied, bitvars
<1>5. CASE Evaluate
  <2>1. PICK newly : /\ latched' = latched \cup newly
                     /\ pc' = IF newly # {} /\ HasRole THEN "drive" ELSE "poll"
    BY <1>5 DEF Evaluate
  <2>2. UNCHANGED outputs /\ pc = "service"
    BY <1>5 DEF Evaluate
  <2> QED BY <2>1, <2>2 DEF RelayInv, outputs
<1>6. CASE Drive
  <2>1. pc = "drive" /\ UNCHANGED <<driven, pcR, release, latched>>
    BY <1>6 DEF Drive, bitvars
  <2>2. ~crossed' => ~crossed /\ pcR # "release"
    BY <1>6, Zenon DEF Drive
  <2>3. CASE driven /\ pc' = "poll" /\ UNCHANGED <<latch, relay, loose>>
    BY <2>1, <2>2, <2>3 DEF RelayInv
  <2>4. CASE ~driven /\ WriteRelay(TRUE, TRUE) /\ loose' = FALSE /\ pc' = "drove"
    <3>1. pcR = "release" => crossed'
      BY <1>6, Zenon DEF Drive
    <3> QED BY <2>1, <2>2, <2>4, <3>1 DEF RelayInv, WriteRelay
  <2>5. CASE ~driven /\ WriteRelay(TRUE, FALSE) /\ loose' = TRUE /\ pc' = "poll"
    BY <2>1, <2>2, <2>5 DEF RelayInv, WriteRelay
  <2> QED BY <1>6, <2>3, <2>4, <2>5 DEF Drive
<1>7. CASE Drove
  <2>1. /\ pc = "drove" /\ pc' = "poll" /\ driven' = TRUE
        /\ UNCHANGED <<latch, relay, pcR, release, loose, crossed, latched>>
    BY <1>7 DEF Drove, bitvars
  <2>2. pcR \in {"idle", "release"}
    BY DEF TypeOK
  <2> QED BY <2>1, <2>2 DEF RelayInv
<1>8. CASE EditConfig
  BY <1>1, <1>8 DEF EditConfig, bitvars
<1>9. CASE RequestApply
  BY <1>1, <1>9 DEF RequestApply, bitvars
<1>10. CASE ResetLatch
  BY <1>10 DEF ResetLatch, RelayInv
<1>11. CASE Release
  <2>1. pcR' = "idle" /\ release' = FALSE /\ UNCHANGED <<pc, latched, driven, crossed>>
    BY <1>11 DEF Release, bitvars
  <2>2. CASE loose' = TRUE
    BY <2>1, <2>2 DEF RelayInv
  <2>3. CASE loose' = FALSE /\ latch' = FALSE /\ relay' = FALSE /\ pcR = "release"
    BY <2>1, <2>3 DEF RelayInv
  <2>4. CASE ~release /\ UNCHANGED <<latch, relay, loose>>
    BY <2>1, <2>4 DEF RelayInv
  <2> QED BY <1>11, <2>2, <2>3, <2>4, Zenon DEF Release, WriteRelay
<1>12. CASE SwitchByHand \/ OtherPin
  BY <1>12 DEF SwitchByHand, OtherPin, RelayInv, bitvars
<1>13. CASE UNCHANGED vars
  BY <1>1, <1>13 DEF vars, bitvars
<1> QED
  BY <1>2, <1>3, <1>4, <1>5, <1>6, <1>7, <1>8, <1>9, <1>10, <1>11, <1>12, <1>13 DEF Next

\* However the polls, the resets of the latch, the failures of the bus, the writes of the
\* other pins and the switching by hand fall: a relay the alarm has switched ON is one
\* the next Reset Latch switches OFF, and where no reset fell into the steps of driving
\* it, the alarm behind it is latched.
THEOREM RelayIsTheLatch == Spec => []RelayFollowsLatch
<1>1. Init => RelayInv
  BY DEF Init, RelayInv
<1>2. TypeOK /\ RelayInv => RelayFollowsLatch
  BY DEF TypeOK, RelayInv, RelayFollowsLatch
<1> QED BY <1>1, <1>2, AlarmTypeCorrect, RelayStep, PTL DEF Spec
-----------------------------------------------------------------------------
(* The incidents.                                                          *)

LEMMA IncidentStep ==
  (logged \subseteq active) /\ [Next]_vars
    => (logged \subseteq active)' /\ logged \cap active' \subseteq logged'
<1> SUFFICES ASSUME logged \subseteq active, [Next]_vars
             PROVE  (logged \subseteq active)' /\ logged \cap active' \subseteq logged'
  OBVIOUS
<1>1. ASSUME UNCHANGED <<active, logged>>
      PROVE  (logged \subseteq active)' /\ logged \cap active' \subseteq logged'
  BY <1>1
<1>2. CASE Evaluate
  <2>1. PICK act, newly : /\ newly \subseteq act
                          /\ active' = act
                          /\ logged' = (logged \cup newly) \ Ended(act)
    <3>1. \A act : Confirmed(act) \subseteq act
      BY DEF Confirmed
    <3> QED BY <1>2, <3>1 DEF Evaluate
  <2> QED BY <2>1 DEF Ended
<1>3. CASE Next /\ ~Evaluate
  BY <1>1, <1>3 DEF Next, Poll, MissedPoll, CopyConfig, ApplyBegin, AnchorFails, Anchor,
       WriteThresholds, WriteFails, NoteOc, Note, Drive, Drove, EditConfig, RequestApply,
       ResetLatch, Release, SwitchByHand, OtherPin, bitvars
<1>4. CASE UNCHANGED vars
  BY <1>1, <1>4 DEF vars, bitvars
<1> QED BY <1>2, <1>3, <1>4

\* An open incident has its alarm active, and no step closes it before the alarm ends:
\* neither a Reset Latch nor a change of the configuration.
THEOREM IncidentsStayOpen == Spec => OpenIncidents
<1>1. Init => logged \subseteq active
  BY DEF Init
<1> QED BY <1>1, IncidentStep, PTL DEF Spec, OpenIncidents
-----------------------------------------------------------------------------
(* The confirm window.                                                     *)

\* A bit that is not latched: since when the code has seen it, and since when the
\* polls have.  A run that began when the clock read 0 has no since yet.
Rested == {"poll", "drive", "drove"}

Unlatched(b) ==
    IF since[b] = 0
    THEN \/ polls[b] = 0
         \/ /\ polls[b] = 1 /\ now = age[b]
            /\ age[b] \in IF pc \in Rested THEN 0..(Period - 2) ELSE 1..(Period - 1)
    ELSE /\ polls[b] > 0
         /\ Elapsed(since[b]) <= age[b]
         /\ polls[b] <= Elapsed(since[b]) + (IF pc \in Rested THEN 2 ELSE 1)
         /\ pc \in Rested => Elapsed(since[b]) <= Period - 2

WindowInv == \A b \in Bits \ latched : Unlatched(b) /\ (age[b] = NotSeen <=> polls[b] = 0)

LEMMA Modulo ==
  ASSUME NEW n \in 0..(2 * Period - 1)
  PROVE  n % Period = IF n < Period THEN n ELSE n - Period
  BY ClockAssumption

LEMMA ElapsedIs ==
  ASSUME TypeOK, NEW s \in 0..(Period - 1)
  PROVE  Elapsed(s) = IF now < s THEN now - s + Period ELSE now - s
<1>1. now - s + Period \in 0..(2 * Period - 1)
  BY ClockAssumption DEF TypeOK
<1>2. now \in Int /\ s \in Int /\ Period \in Nat
  BY ClockAssumption DEF TypeOK
<1> QED BY <1>1, <1>2, Modulo DEF Elapsed

LEMMA NowIs ==
  ASSUME TypeOK, Tick PROVE now' = IF now = Period - 1 THEN 0 ELSE now + 1
<1>1. now + 1 \in 0..(2 * Period - 1) /\ now \in 0..(Period - 1)
  BY ClockAssumption DEF TypeOK
<1> QED BY <1>1, Modulo, ClockAssumption DEF Tick

\* A tick of the clock is one more millisecond since any moment, until the whole period.
LEMMA ElapsedTick ==
  ASSUME TypeOK, TypeOK', Tick, NEW s \in 0..(Period - 1)
  PROVE  /\ Elapsed(s) \in 0..(Period - 1)
         /\ Elapsed(s)' = IF Elapsed(s) = Period - 1 THEN 0 ELSE Elapsed(s) + 1
<1>1. Elapsed(s)' = IF now' < s THEN now' - s + Period ELSE now' - s
  <2>1. TypeOK' => (Elapsed(s) = IF now < s THEN now - s + Period ELSE now - s)'
    BY ElapsedIs, PTL
  <2> QED BY <2>1
<1>2. now \in 0..(Period - 1)
  BY DEF TypeOK
<1> QED BY <1>1, <1>2, ElapsedIs, NowIs, ClockAssumption

\* A tick leaves the window of an unlatched bit as it was, one millisecond later; the
\* clock does not come round to where the bit was first seen.
LEMMA WindowTick ==
  ASSUME TypeOK, TypeOK', WindowInv, Tick, NEW b \in Bits \ latched,
         pc = "poll", UNCHANGED <<since, polls>>,
         pc' \notin Rested \/ (pc' = pc /\ age[b] < Period - 2)
  PROVE  Unlatched(b)' /\ (age'[b] = NotSeen <=> polls'[b] = 0)
<1>1. /\ since[b] \in 0..(Period - 1) /\ age[b] \in NotSeen..Period /\ polls[b] \in 0..Period
      /\ now \in 0..(Period - 1) /\ b \in Bits
  BY DEF TypeOK
<1>2. age'[b] = IF age[b] \in {NotSeen, Period} THEN age[b] ELSE age[b] + 1
  BY <1>1 DEF Tick
<1>3. Unlatched(b) /\ (age[b] = NotSeen <=> polls[b] = 0)
  BY DEF WindowInv
<1>4. age'[b] = NotSeen <=> polls'[b] = 0
  BY <1>1, <1>2, <1>3, ClockAssumption DEF NotSeen
<1>5. CASE since[b] = 0
  BY <1>1, <1>2, <1>3, <1>5, NowIs, ClockAssumption DEF Unlatched, Rested, NotSeen
<1>6. CASE since[b] # 0
  <2>1. /\ Elapsed(since[b]) \in 0..(Period - 1)
        /\ Elapsed(since[b])' = IF Elapsed(since[b]) = Period - 1 THEN 0 ELSE Elapsed(since[b]) + 1
    <3>1. ASSUME NEW s \in 0..(Period - 1), s = since[b]
          PROVE  /\ Elapsed(s) \in 0..(Period - 1)
                 /\ Elapsed(s)' = IF Elapsed(s) = Period - 1 THEN 0 ELSE Elapsed(s) + 1
      BY ElapsedTick
    <3> QED BY <1>1, <3>1 DEF Elapsed
  <2> QED BY <1>1, <1>2, <1>3, <1>6, <2>1, ClockAssumption DEF Unlatched, Rested, NotSeen
<1> QED BY <1>4, <1>5, <1>6

\* An evaluated bit that is still not latched has not been seen, or was first seen less
\* than the confirm window ago; and a bit that gets latched has been seen throughout it.
LEMMA WindowEvaluate ==
  ASSUME TypeOK, WindowInv, Evaluate, NEW b \in Bits
  PROVE  /\ b \in latched' \ latched => age[b] >= Confirm /\ polls[b] > 0
         /\ polls'[b] >= Confirm + 3 => b \in latched'
         /\ b \notin latched' => Unlatched(b)' /\ (age'[b] = NotSeen <=> polls'[b] = 0)
<1>1. /\ since[b] \in 0..(Period - 1) /\ age[b] \in NotSeen..Period /\ polls[b] \in 0..Period
      /\ now \in 0..(Period - 1)
  BY DEF TypeOK
<1>2. Confirm \in 0..(Period - 3)
  BY ConfirmType
<1>3. PICK act :
        /\ latched' = latched \cup (Confirmed(act) \ latched)
        /\ since' = [c \in Bits |-> IF c \notin act THEN 0
                                    ELSE IF since[c] = 0 THEN now ELSE since[c]]
        /\ age' = [c \in Bits |-> IF c \notin act \ latched' THEN NotSeen
                                  ELSE IF age[c] = NotSeen THEN 0 ELSE age[c]]
        /\ polls' = [c \in Bits |-> IF c \notin act \ latched' THEN 0
                                    ELSE IF polls[c] = Period THEN Period ELSE polls[c] + 1]
        /\ pc = "service" /\ pc' \in Rested /\ now' = now
  BY DEF Evaluate, Rested
<1>4. CASE b \in latched
  BY <1>1, <1>2, <1>3, <1>4
<1>5. CASE b \notin latched
  <2>1. Unlatched(b) /\ (age[b] = NotSeen <=> polls[b] = 0)
    BY <1>5 DEF WindowInv
  <2>2. Elapsed(since[b]) \in 0..(Period - 1) /\ Elapsed(now) = 0
    BY <1>1, ElapsedIs, ClockAssumption
  <2>3. b \in latched' <=> b \in act /\ since[b] # 0 /\ Elapsed(since[b]) >= Confirm
    BY <1>3, <1>5 DEF Confirmed
  <2>4. CASE b \notin act
    <3>1. b \notin latched' /\ since'[b] = 0 /\ age'[b] = NotSeen /\ polls'[b] = 0
      BY <1>3, <2>3, <2>4
    <3> QED BY <1>2, <3>1 DEF Unlatched
  <2>5. CASE b \in act /\ b \in latched'
    <3>1. polls[b] > 0 /\ age[b] >= Confirm
      BY <1>1, <1>2, <2>1, <2>2, <2>3, <2>5 DEF Unlatched
    <3> QED BY <2>5, <3>1
  <2>6. CASE b \in act /\ b \notin latched'
    <3>1. /\ since'[b] = IF since[b] = 0 THEN now ELSE since[b]
          /\ age'[b] = IF age[b] = NotSeen THEN 0 ELSE age[b]
          /\ polls'[b] = IF polls[b] = Period THEN Period ELSE polls[b] + 1
      BY <1>3, <2>6
    <3>2. \A s : Elapsed(s)' = Elapsed(s)
      BY <1>3 DEF Elapsed
    <3>3. CASE since[b] = 0
      BY <1>1, <1>2, <1>3, <2>1, <2>2, <2>6, <3>1, <3>2, <3>3, ClockAssumption
         DEF Unlatched, Rested, NotSeen
    <3>4. CASE since[b] # 0
      <4>1. Elapsed(since[b]) < Confirm
        BY <1>2, <2>2, <2>3, <2>6, <3>4
      <4> QED BY <1>1, <1>2, <1>3, <2>1, <2>2, <2>6, <3>1, <3>2, <3>4, <4>1, ClockAssumption
              DEF Unlatched, Rested, NotSeen
    <3> QED BY <3>3, <3>4
  <2> QED BY <2>4, <2>5, <2>6
<1> QED BY <1>4, <1>5

LEMMA WindowInit == Init => WindowInv
  BY DEF Init, WindowInv, Unlatched

LEMMA WindowStep == TypeOK /\ WindowInv /\ [Next]_vars => WindowInv'
<1> SUFFICES ASSUME TypeOK, WindowInv, [Next]_vars PROVE WindowInv'
  OBVIOUS
<1>0. TypeOK'
  BY TypeStep
<1>1. ASSUME UNCHANGED <<now, since, age, polls, latched>>, pc \in Rested <=> pc' \in Rested
      PROVE  WindowInv'
  BY <1>1 DEF WindowInv, Unlatched, Elapsed
<1>2. CASE Poll
  <2>1. ASSUME NEW b \in Bits \ latched
        PROVE  Unlatched(b)' /\ (age'[b] = NotSeen <=> polls'[b] = 0)
    BY <1>0, <1>2, <2>1, WindowTick DEF Poll, Rested
  <2>2. latched' = latched
    BY <1>2 DEF Poll
  <2> QED BY <2>1, <2>2 DEF WindowInv
<1>3. CASE MissedPoll
  <2>1. ASSUME NEW b \in Bits \ latched
        PROVE  Unlatched(b)' /\ (age'[b] = NotSeen <=> polls'[b] = 0)
    BY <1>0, <1>3, <2>1, WindowTick DEF MissedPoll
  <2>2. latched' = latched
    BY <1>3 DEF MissedPoll
  <2> QED BY <2>1, <2>2 DEF WindowInv
<1>4. CASE Evaluate
  BY <1>4, WindowEvaluate DEF WindowInv
<1>5. CASE \/ CopyConfig \/ ApplyBegin \/ AnchorFails
           \/ \E load \in BOOLEAN : Anchor(load)
           \/ WriteThresholds \/ WriteFails \/ NoteOc \/ Note
  <2>1. UNCHANGED bitvars /\ pc \notin Rested /\ pc' \notin Rested
    BY <1>5 DEF CopyConfig, ApplyBegin, AnchorFails, Anchor, WriteThresholds, WriteFails,
                NoteOc, Note, Applied, Rested
  <2> QED BY <1>1, <2>1 DEF bitvars
<1>6. CASE Drive
  BY <1>1, <1>6 DEF Drive, bitvars, Rested
<1>7. CASE Drove
  BY <1>1, <1>7 DEF Drove, bitvars, Rested
<1>8. CASE EditConfig
  BY <1>1, <1>8 DEF EditConfig, bitvars
<1>9. CASE RequestApply
  BY <1>1, <1>9 DEF RequestApply, bitvars
<1>10. CASE ResetLatch
  BY <1>10 DEF ResetLatch, WindowInv, Unlatched
<1>11. CASE Release
  BY <1>1, <1>11 DEF Release, bitvars
<1>12. CASE SwitchByHand \/ OtherPin
  BY <1>1, <1>12 DEF SwitchByHand, OtherPin, bitvars
<1>13. CASE UNCHANGED vars
  BY <1>1, <1>13 DEF vars, bitvars
<1> QED
  BY <1>2, <1>3, <1>4, <1>5, <1>6, <1>7, <1>8, <1>9, <1>10, <1>11, <1>12, <1>13 DEF Next

\* For a clock of any period and any confirm times: a bit is latched after a full confirm
\* window of polls that all saw it, and by the poll after the window at the latest, when
\* the clock wraps in between as well.
THEOREM WindowIsKept == Spec => LatchWindow
<1>1. TypeOK /\ WindowInv /\ [Next]_vars =>
        (pc = "service" /\ pc' # "service" =>
          \A b \in Bits :
            /\ b \in latched' \ latched => age[b] >= Confirm /\ polls[b] > 0
            /\ polls'[b] >= Confirm + 3 => b \in latched')
  <2> SUFFICES ASSUME TypeOK, WindowInv, [Next]_vars, pc = "service", pc' # "service",
                      NEW b \in Bits
               PROVE  /\ b \in latched' \ latched => age[b] >= Confirm /\ polls[b] > 0
                      /\ polls'[b] >= Confirm + 3 => b \in latched'
    OBVIOUS
  <2>1. Evaluate
    BY DEF Next, vars, Poll, MissedPoll, CopyConfig, ApplyBegin, AnchorFails, Anchor,
           WriteThresholds, WriteFails, NoteOc, Note, Drive, Drove, EditConfig, RequestApply,
           ResetLatch, Release, SwitchByHand, OtherPin
  <2> QED BY <2>1, WindowEvaluate
<1> QED BY <1>1, AlarmTypeCorrect, WindowInit, WindowStep, PTL DEF Spec, LatchWindow
=============================================================================
