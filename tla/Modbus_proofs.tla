--------------------------- MODULE Modbus_proofs ----------------------------
(* Proofs about the three Modbus parts, for every value of their constants. *)
EXTENDS ModbusTcp, ModbusMaster, ModbusSlave,
        WellFoundedInduction, SequenceTheorems, TLAPS

-----------------------------------------------------------------------------
(* The Modbus TCP control server.                                          *)

\* What the save under way has still to write.
Due == IF saving = SaveOrder THEN Items ELSE IF saving = <<"enable">> THEN {"enable"} ELSE {}

\* The image is told to the others.  It is what was commanded but for what a boot could
\* not read or has lost; and what was commanded is stored, but for what is lost, the
\* items whose turn is to come and those that were not saved.  What a boot could not
\* read is still there.
SaveInv ==
    /\ control = image
    /\ \A i \in Items \ (unread \cup lost) : image[i] = commanded[i]
    /\ saving \in {<<>>, <<"enable">>, SaveOrder}
    /\ at = "save" <=> saving # <<>>
    /\ \A i \in Items \ (Due \cup unsaved \cup lost) : stored[i] = commanded[i]
    /\ \A i \in unread \ lost : stored[i] = commanded[i]

\* The part of the type invariant that the table of clients has no say in.
ImageTypes ==
    /\ {image, control, stored, commanded} \subseteq [Items -> 0..1]
    /\ at \in {"listen", "select", "serve", "save", "answer"}
    /\ saving \in Seq(Items) /\ {unsaved, unread, lost} \subseteq SUBSET Items
    /\ failures \in 0..MaxFailures /\ restarts \in 0..MaxRestarts

\* The part that it has, and where a command is served.
TableTypes == open \subseteq Slots /\ part \subseteq open /\ ready \subseteq Slots
TurnTypes ==
    /\ turn \in 1..MaxClients + 1 /\ frames \in 0..MaxFrames
    /\ at \in {"save", "answer"} => turn <= MaxClients /\ frames > 0
KnockType == knock \in BOOLEAN

TcpInv == ImageTypes /\ TableTypes /\ TurnTypes /\ KnockType /\ SaveInv
-----------------------------------------------------------------------------
(* The two items of a save.                                                *)

LEMMA Suffixes ==
  /\ SaveOrder # <<>> /\ Head(SaveOrder) = "setpoint" /\ Tail(SaveOrder) = <<"enable">>
  /\ <<"enable">> # <<>> /\ Head(<<"enable">>) = "enable" /\ Tail(<<"enable">>) = <<>>
  /\ SaveOrder # <<"enable">>
  /\ {<<>>, <<"enable">>, SaveOrder} \subseteq Seq(Items)
<1>1. SaveOrder \in Seq(Items) /\ <<"enable">> \in Seq(Items) /\ <<>> \in Seq(Items)
  BY DEF SaveOrder, Items
<1>2. Len(SaveOrder) = 2 /\ Len(<<"enable">>) = 1 /\ Len(<<>>) = 0
  BY DEF SaveOrder
<1>3. Head(SaveOrder) = "setpoint" /\ Tail(SaveOrder) = <<"enable">>
  BY DEF SaveOrder
<1>4. Head(<<"enable">>) = "enable" /\ Tail(<<"enable">>) = <<>>
  OBVIOUS
<1>5. SaveOrder # <<>> /\ <<"enable">> # <<>>
  BY <1>2
<1>6. SaveOrder # <<"enable">>
  BY <1>2
<1> QED
  BY <1>1, <1>3, <1>4, <1>5, <1>6

\* mb_tcp_accept() finds a first free slot when there is one.
LEMMA FirstFree ==
  ASSUME NEW F \in SUBSET Slots, F # {}, MaxClients \in Nat
  PROVE  (CHOOSE s \in F : \A r \in F : s <= r) \in F
<1>1. F \subseteq Nat
  BY DEF Slots
<1>2. PICK x \in F : \A y \in F : ~ (<<y, x>> \in OpToRel(<, Nat))
  BY <1>1, WFMin, NatLessThanWellFounded
<1>3. \A y \in F : ~ (y < x)
  BY <1>1, <1>2 DEF OpToRel
<1>4. \A y \in F : x <= y
  BY <1>1, <1>3
<1> QED
  BY <1>4
-----------------------------------------------------------------------------
(* The table of clients.                                                   *)

LEMMA Constants ==
  /\ MaxClients \in Nat /\ MaxClients >= 1
  /\ MaxFrames \in Nat /\ MaxFailures \in Nat /\ MaxRestarts \in Nat
  BY ModbusTcpAssumption

LEMMA StartTyped == Init => TcpInv
<1> SUFFICES ASSUME Init PROVE TcpInv
  OBVIOUS
<1>1. ImageTypes
  BY Constants, Suffixes DEF Init, ImageTypes
<1>2. TableTypes /\ KnockType
  BY DEF Init, TableTypes, KnockType
<1>3. TurnTypes
  BY Constants DEF Init, TurnTypes
<1>4. SaveInv
  BY Suffixes DEF Init, SaveInv, Due
<1> QED
  BY <1>1, <1>2, <1>3, <1>4 DEF TcpInv

LEMMA AcceptTyped ==
  ASSUME TableTypes, Accept
  PROVE  TableTypes'
<1> DEFINE first == CHOOSE s \in Slots \ open : \A r \in Slots \ open : s <= r
<1>1. open # Slots => first \in Slots \ open
  BY FirstFree, Constants DEF TableTypes
<1>2. open' = IF knock /\ open # Slots THEN open \cup {first} ELSE open
  BY DEF Accept
<1> HIDE DEF first
<1>3. open' \subseteq Slots /\ open \subseteq open'
  BY <1>1, <1>2 DEF TableTypes
<1>4. part' = part /\ ready' = {}
  BY DEF Accept, NoPass
<1> QED
  BY <1>3, <1>4 DEF TableTypes

LEMMA TableTyped ==
  ASSUME TableTypes, Next
  PROVE  TableTypes'
<1>1. CASE Restart
  BY <1>1 DEF Restart, NoClients, NoPass, TableTypes
<1>2. CASE Listen \/ SaveNot \/ SaveItem
  BY <1>2 DEF Listen, SaveNot, SaveItem, clients, pass, TableTypes
<1>3. CASE Select
  BY <1>3 DEF Select, clients, TableTypes
<1>4. CASE SelectFails
  BY <1>4 DEF SelectFails, NoClients, pass, TableTypes
<1>5. CASE Accept
  BY <1>5, AcceptTyped
<1>6. ASSUME NEW s \in Slots, Pass(s) \/ Drop(s) PROVE TableTypes'
  BY <1>6 DEF Pass, Drop, Close, AndOn, clients, TableTypes
<1>7. ASSUME NEW s \in Slots, Receive(s) PROVE TableTypes'
  BY <1>7 DEF Receive, TableTypes
<1>8. ASSUME NEW s \in Slots, Reply(s) \/ Command(s) \/ Repeat(s) PROVE TableTypes'
  BY <1>8 DEF Reply, Command, Repeat, Answered, Close, clients, pass, TableTypes
<1>9. CASE Answer
  BY <1>9 DEF Answer, Answered, Close, clients, TableTypes
<1> QED
  BY <1>1, <1>2, <1>3, <1>4, <1>5, <1>6, <1>7, <1>8, <1>9 DEF Next

LEMMA KnockTyped ==
  ASSUME KnockType, Next
  PROVE  KnockType'
BY DEF KnockType, Next, Restart, Listen, Select, SelectFails, SaveNot, SaveItem, Answer, Accept,
       Pass, Drop, Receive, Reply, Command, Repeat, NoPass, AndOn, pass

\* A command is served within the table and answered once.
LEMMA TurnTyped ==
  ASSUME TurnTypes, Next
  PROVE  TurnTypes'
<1> USE Constants DEF TurnTypes
<1>1. CASE Restart \/ Accept
  BY <1>1 DEF Restart, Accept, NoPass
<1>2. CASE Listen \/ SelectFails
  BY <1>2 DEF Listen, SelectFails, pass
<1>3. CASE SaveNot \/ SaveItem
  BY <1>3 DEF SaveNot, SaveItem, pass
<1>4. CASE Select
  BY <1>4 DEF Select
<1>5. ASSUME NEW s \in Slots, Pass(s) \/ Drop(s) PROVE TurnTypes'
  BY <1>5 DEF Pass, Drop, Serving, AndOn, Slots
<1>6. ASSUME NEW s \in Slots, Receive(s) PROVE TurnTypes'
  BY <1>6 DEF Receive, Serving, Slots
<1>7. ASSUME NEW s \in Slots, Reply(s) \/ Repeat(s) PROVE TurnTypes'
  BY <1>7 DEF Reply, Repeat, Answered, Slots
<1>8. ASSUME NEW s \in Slots, Command(s) PROVE TurnTypes'
  BY <1>8 DEF Command, pass, Slots
<1>9. CASE Answer
  BY <1>9 DEF Answer, Answered
<1> QED
  BY <1>1, <1>2, <1>3, <1>4, <1>5, <1>6, <1>7, <1>8, <1>9 DEF Next
-----------------------------------------------------------------------------
(* Commands and their saving.                                              *)

\* Serving a client touches nothing of this, but for its commands.
LEMMA ServingAside ==
  ASSUME NEW s \in Slots, Pass(s) \/ Drop(s) \/ Receive(s) \/ Reply(s)
  PROVE  UNCHANGED <<images, nvs, saving, commanded, restarts, at>>
BY DEF Pass, Drop, Receive, Reply, Aside

\* What a save still has to write, one item after the other.
LEMMA DueSteps ==
  ASSUME saving \in {<<>>, <<"enable">>, SaveOrder}, saving # <<>>
  PROVE  /\ Head(saving) \in Items /\ Tail(saving) \in {<<>>, <<"enable">>}
         /\ Due = {Head(saving)} \cup (IF Tail(saving) = <<>> THEN {} ELSE {"enable"})
         /\ saving' = Tail(saving) => Due' = Due \ {Head(saving)}
<1>1. CASE saving = SaveOrder
  BY <1>1, Suffixes DEF Due, Items
<1>2. CASE saving = <<"enable">>
  BY <1>2, Suffixes DEF Due, Items
<1> QED
  BY <1>1, <1>2

LEMMA ImageTyped ==
  ASSUME ImageTypes, SaveInv, Next
  PROVE  ImageTypes'
<1> USE Constants DEF ImageTypes
<1>1. CASE Restart
  <2>1. image' \in [Items -> 0..1] /\ control' = image' /\ unread' \subseteq Items
        /\ failures' \in 0..MaxFailures
    BY <1>1 DEF Restart, Load, ReadBack
  <2>2. lost' \subseteq Items /\ unsaved' = {} /\ saving' = <<>> /\ at' = "listen"
        /\ restarts' \in 0..MaxRestarts /\ UNCHANGED <<stored, commanded>>
    BY <1>1 DEF Restart, Differing
  <2> QED
    BY <2>1, <2>2, Suffixes
<1>2. CASE Listen \/ Select \/ SelectFails \/ Accept \/ Answer
  BY <1>2 DEF Listen, Select, SelectFails, Accept, Answer, Aside, images, nvs
<1>3. ASSUME NEW s \in Slots, Pass(s) \/ Drop(s) \/ Receive(s) \/ Reply(s) PROVE ImageTypes'
  BY <1>3, ServingAside DEF images, nvs
<1>4. ASSUME NEW s \in Slots, Command(s) PROVE ImageTypes'
  <2>1. PICK i \in Items : /\ image' = [image EXCEPT ![i] = 1 - @]
                           /\ commanded' = [commanded EXCEPT ![i] = image'[i]]
    BY <1>4 DEF Command
  <2>2. image' \in [Items -> 0..1]
    BY <2>1
  <2>3. commanded' \in [Items -> 0..1] /\ control' = image'
    BY <1>4, <2>1, <2>2 DEF Command
  <2>4. saving' \in Seq(Items) /\ at' = "save"
    BY <1>4, Suffixes DEF Command
  <2>5. UNCHANGED <<stored, unsaved, failures, restarts>>
    BY <1>4 DEF Command
  <2>6. {unread', lost'} \subseteq SUBSET Items
    BY <1>4 DEF Command
  <2> QED
    BY <2>2, <2>3, <2>4, <2>5, <2>6
<1>7. ASSUME NEW s \in Slots, Repeat(s) PROVE ImageTypes'
  <2>1. commanded' \in [Items -> 0..1]
    BY <1>7 DEF Repeat
  <2>2. {unsaved', unread', lost'} \subseteq SUBSET Items
    BY <1>7 DEF Repeat
  <2>3. UNCHANGED <<images, stored, failures, at, saving, restarts>>
    BY <1>7 DEF Repeat
  <2> QED
    BY <2>1, <2>2, <2>3 DEF images
<1>5. CASE SaveNot
  BY <1>5, Suffixes DEF SaveNot, images, Differing
<1>6. CASE SaveItem
  <2>1. Head(saving) \in Items /\ Tail(saving) \in Seq(Items)
    BY <1>6, DueSteps, Suffixes DEF SaveItem, SaveInv
  <2>2. saving' \in Seq(Items) /\ at' \in {"save", "answer"}
    BY <1>6, <2>1 DEF SaveItem
  <2>3. UNCHANGED <<image, control, commanded, restarts>>
    BY <1>6 DEF SaveItem, images
  <2>4. stored' \in [Items -> 0..1] /\ {unsaved', unread', lost'} \subseteq SUBSET Items
    BY <1>6, <2>1 DEF SaveItem, Differing
  <2>5. failures' \in 0..MaxFailures
    BY <1>6 DEF SaveItem
  <2> QED
    BY <2>2, <2>3, <2>4, <2>5
<1> QED
  BY <1>1, <1>2, <1>3, <1>4, <1>5, <1>6, <1>7 DEF Next

LEMMA SaveStep ==
  ASSUME ImageTypes, SaveInv, Next
  PROVE  SaveInv'
<1> USE DEF SaveInv
<1>1. CASE Restart
  <2>1. /\ \A i \in Items \ unread' : image'[i] = stored[i]
        /\ control' = image' /\ UNCHANGED <<stored, commanded>>
    BY <1>1 DEF Restart, Load, ReadBack
  <2>2. saving' = <<>> /\ at' = "listen" /\ unread' \subseteq Items
    BY <1>1 DEF Restart, Load, ReadBack
  <2>3. \A i \in Items \ lost' : stored[i] = commanded[i]
    BY <1>1 DEF Restart, Differing
  <2> QED
    BY <2>1, <2>2, <2>3
<1>2. CASE Listen \/ Select \/ SelectFails \/ Accept \/ Answer
  BY <1>2 DEF Listen, Select, SelectFails, Accept, Answer, Aside, images, nvs, Due
<1>3. ASSUME NEW s \in Slots, Pass(s) \/ Drop(s) \/ Receive(s) \/ Reply(s) PROVE SaveInv'
  BY <1>3, ServingAside DEF images, nvs, Due
<1>4. ASSUME NEW s \in Slots, Command(s) PROVE SaveInv'
  <2>1. saving' = SaveOrder /\ at' = "save" /\ Due' = Items /\ control' = image'
    BY <1>4 DEF Command, Due
  <2>2. PICK i \in Items :
          /\ image' = [image EXCEPT ![i] = 1 - @]
          /\ commanded' = [commanded EXCEPT ![i] = image'[i]]
          /\ unread' = unread \ {i} /\ lost' = lost \ {i} /\ UNCHANGED stored
    BY <1>4 DEF Command
  <2>3. \A j \in Items \ (unread' \cup lost') : image'[j] = commanded'[j]
    BY <2>2 DEF ImageTypes
  <2>4. \A j \in unread' \ lost' : stored'[j] = commanded'[j]
    BY <2>2 DEF ImageTypes
  <2> QED
    BY <2>1, <2>3, <2>4, Suffixes
<1>7. ASSUME NEW s \in Slots, Repeat(s) PROVE SaveInv'
  <2>1. PICK i \in Items :
          /\ commanded' = [commanded EXCEPT ![i] = image[i]]
          /\ unread' = unread \ {i} /\ lost' = lost \ {i}
          /\ unsaved' = IF stored[i] # image[i] THEN unsaved \cup {i} ELSE unsaved
    BY <1>7 DEF Repeat
  <2>2. UNCHANGED <<image, control, stored, at, saving>> /\ Due' = Due
    BY <1>7 DEF Repeat, images, Due
  <2>3. \A j \in Items \ (unread' \cup lost') : image'[j] = commanded'[j]
    BY <2>1, <2>2 DEF ImageTypes
  <2>4. \A j \in Items \ (Due' \cup unsaved' \cup lost') : stored'[j] = commanded'[j]
    BY <2>1, <2>2 DEF ImageTypes
  <2>5. \A j \in unread' \ lost' : stored'[j] = commanded'[j]
    BY <2>1, <2>2 DEF ImageTypes
  <2> QED
    BY <2>2, <2>3, <2>4, <2>5
<1>5. CASE SaveNot
  <2>1. saving' = <<>> /\ at' = "answer" /\ Due' = {}
    BY <1>5, Suffixes DEF SaveNot, Due
  <2>2. \A i \in Items \ unsaved' : stored'[i] = commanded'[i]
    BY <1>5 DEF SaveNot, Differing
  <2> QED
    BY <1>5, <2>1, <2>2 DEF SaveNot, images
<1>6. CASE SaveItem
  <2>1. /\ saving' \in {<<>>, <<"enable">>} /\ Head(saving) \in Items
        /\ Due' = Due \ {Head(saving)}
    BY <1>6, DueSteps DEF SaveItem
  <2>2. at' = "save" <=> saving' # <<>>
    BY <1>6 DEF SaveItem
  <2> DEFINE h == Head(saving)
  <2>3. UNCHANGED <<image, control, commanded>>
    BY <1>6 DEF SaveItem, images
  <2>4. CASE /\ stored' = [stored EXCEPT ![h] = image[h]]
             /\ unsaved' = unsaved \ {h}
             /\ unread' = unread \ {h} /\ lost' = lost \cup (unread \cap {h})
    <3> HIDE DEF h
    <3>1. \A i \in Items \ (Due' \cup unsaved' \cup lost') : stored'[i] = commanded'[i]
      BY <2>1, <2>3, <2>4 DEF ImageTypes, h
    <3>2. \A i \in unread' \ lost' : stored'[i] = commanded'[i]
      BY <2>1, <2>3, <2>4 DEF ImageTypes, h
    <3>3. \A i \in Items \ (unread' \cup lost') : image'[i] = commanded'[i]
      BY <2>3, <2>4
    <3> QED
      BY <2>1, <2>2, <2>3, <3>1, <3>2, <3>3
  <2>5. CASE unsaved' = unsaved \cup (Differing \cap {h}) /\ UNCHANGED <<stored, unread, lost>>
    <3>1. \A i \in Items \ (Due' \cup unsaved' \cup lost') : stored'[i] = commanded'[i]
      BY <2>1, <2>3, <2>5 DEF Differing
    <3> QED
      BY <2>1, <2>2, <2>3, <2>5, <3>1
  <2> QED
    BY <1>6, <2>4, <2>5 DEF SaveItem
<1> QED
  BY <1>1, <1>2, <1>3, <1>4, <1>5, <1>6, <1>7 DEF Next
-----------------------------------------------------------------------------
LEMMA TcpStep == TcpInv /\ [Next]_tcpVars => TcpInv'
<1> SUFFICES ASSUME TcpInv, [Next]_tcpVars PROVE TcpInv'
  OBVIOUS
<1>1. CASE Next
  BY <1>1, ImageTyped, TableTyped, TurnTyped, KnockTyped, SaveStep DEF TcpInv
<1>2. CASE UNCHANGED tcpVars
  BY <1>2 DEF tcpVars, images, nvs, clients, pass, TcpInv, ImageTypes, TableTypes, TurnTypes,
              KnockType, SaveInv, Due
<1> QED
  BY <1>1, <1>2

LEMMA TcpInvariant == Spec => []TcpInv
  BY StartTyped, TcpStep, PTL DEF Spec

\* Every variable of modbus_tcp_task.c's model keeps its type: the table of clients, what is
\* left in a buffer and the place of the task in its pass.
THEOREM TcpTypeCorrect == Spec => []TypeOK
<1>1. TcpInv => TypeOK
  BY DEF TcpInv, ImageTypes, TableTypes, TurnTypes, KnockType, TypeOK
<1> QED
  BY <1>1, TcpInvariant, PTL

\* The last command carried out is what other tasks are told and what is stored, over the
\* end of connections and losses of power, but for a boot that could not read it and
\* a save that failed or was left out (modbus_tcp_task.c: mb_tcp_handle_pdu,
\* mb_tcp_control_save, mb_tcp_control_load).
THEOREM CommandsOutlive == Spec => []CommandOutlives
<1>1. TcpInv => CommandOutlives
  BY Suffixes DEF TcpInv, SaveInv, Due, CommandOutlives
<1> QED
  BY <1>1, TcpInvariant, PTL

-----------------------------------------------------------------------------
(* The Modbus RTU master.                                                  *)

\* Where the configuration manager's own is in force, and where it is about to be.
InForce == {"top", "check", "poll", "sleep"}
Coming == {"apply", "booting"}

\* What is polled follows the configuration unless a change has still to be asked for, was
\* asked for and not noticed, or could not be read; a stack runs only under a configuration
\* that wants one; and what is shown as present gave its own readings.
FollowInv ==
    /\ ~asking /\ ~requested /\ ~fellBack =>
          /\ pos \in InForce \cup {"start"} => cfg = saved
          /\ pos \in Coming => taken = saved
    /\ pos = "start" => cfg.bus
    /\ stack = "up" => pos \in InForce /\ cfg.bus
    /\ \A s \in Numbers :
          slotOnline[s] => pos \notin {"boot", "booting"} /\ readings[s] = cfg.dev[s]

LEMMA ConstantTypes ==
  /\ MasterSlots \in Nat /\ MasterSlots > 0 /\ Threshold \in Nat /\ Threshold > 0
  /\ MaxChanges \in Nat /\ MaxBusFaults \in Nat
BY ModbusMasterAssumption

\* The configuration in force at power-on.
LEMMA NoConfigType == NoConfig \in Configs
BY DEF NoConfig, Configs

\* What a snapshot may hold.
LEMMA LoadedType ==
  ASSUME BusTypeOK, Loaded
  PROVE  /\ taken' \in Configs /\ fellBack' \in BOOLEAN /\ busFaults' \in 0..MaxBusFaults
         /\ ~fellBack' => taken' = saved
<1>1. CASE taken' = saved /\ fellBack' = FALSE /\ UNCHANGED busFaults
  BY <1>1 DEF BusTypeOK
<1>2. CASE /\ BusFault /\ fellBack' = TRUE
           /\ \E b \in BOOLEAN, d \in {"none", "a"} :
                taken' = [bus |-> b, dev |-> [NoConfig.dev EXCEPT ![0] = d]]
  <2>1. taken' \in Configs
    <3>1. PICK b \in BOOLEAN, d \in {"none", "a"} :
            taken' = [bus |-> b, dev |-> [NoConfig.dev EXCEPT ![0] = d]]
      BY <1>2
    <3>2. [NoConfig.dev EXCEPT ![0] = d] \in [Numbers -> Devices \cup {"none", "off"}]
      BY DEF NoConfig, Devices
    <3> QED BY <3>1, <3>2 DEF Configs
  <2>2. busFaults' \in 0..MaxBusFaults
    BY <1>2, ConstantTypes DEF BusTypeOK, BusFault
  <2> QED BY <1>2, <2>1, <2>2
<1> QED BY <1>1, <1>2 DEF Loaded

LEMMA BusInitType == BusInit => BusTypeOK
<1> SUFFICES ASSUME BusInit PROVE BusTypeOK
  OBVIOUS
<1>1. saved \in Configs
  <2>1. PICK b \in BOOLEAN :
          saved = [bus |-> b, dev |-> [s \in Numbers |-> IF s = 0 THEN "a" ELSE "off"]]
    BY DEF BusInit
  <2> QED BY <2>1 DEF Configs, Devices
<1>2. {cfg, taken} \subseteq Configs
  BY NoConfigType DEF BusInit
<1>3. slotOnline \in [Numbers -> BOOLEAN] /\ readings \in [Numbers -> Devices \cup {"none"}]
  BY DEF BusInit
<1>4. slotErrors \in [Numbers -> 0..Threshold]
  BY ConstantTypes DEF BusInit
<1>5. slot \in 0..MasterSlots /\ changes \in 0..MaxChanges /\ busFaults \in 0..MaxBusFaults
  BY ConstantTypes DEF BusInit
<1> QED BY <1>1, <1>2, <1>3, <1>4, <1>5 DEF BusInit, BusTypeOK

\* What polling makes of the table of slots and of the module's status.
LEMMA PollTypes ==
  ASSUME BusTypeOK, Poll
  PROVE  /\ slotOnline' \in [Numbers -> BOOLEAN] /\ slotErrors' \in [Numbers -> 0..Threshold]
         /\ readings' \in [Numbers -> Devices \cup {"none"}]
         /\ masterStatus' \in {"READY", "OFFLINE", "INIT"}
<1>1. slot \in Numbers /\ cfg.dev[slot] \in Devices
  BY DEF Poll, Polled
<1>2. masterStatus' \in {"READY", "OFFLINE", "INIT"}
  BY DEF Poll, Status
<1>3. CASE /\ slotOnline' = [slotOnline EXCEPT ![slot] = TRUE]
           /\ slotErrors' = [slotErrors EXCEPT ![slot] = 0]
           /\ readings' = [readings EXCEPT ![slot] = cfg.dev[slot]]
  BY <1>1, <1>2, <1>3, ConstantTypes DEF BusTypeOK
<1>4. CASE /\ slotErrors' = [slotErrors EXCEPT ![slot] = Upto(@ + 1)]
           /\ slotOnline' = [slotOnline EXCEPT ![slot] = @ /\ slotErrors[slot] + 1 < Threshold]
           /\ UNCHANGED readings
  <2>1. slotErrors[slot] \in 0..Threshold
    BY <1>1 DEF BusTypeOK
  <2>2. Upto(slotErrors[slot] + 1) \in 0..Threshold
    BY <2>1, ConstantTypes DEF Upto
  <2>3. slotErrors' \in [Numbers -> 0..Threshold]
    BY <1>1, <1>4, <2>2 DEF BusTypeOK
  <2>4. slotOnline' \in [Numbers -> BOOLEAN]
    BY <1>1, <1>4 DEF BusTypeOK
  <2> QED BY <1>2, <1>4, <2>3, <2>4 DEF BusTypeOK
<1> QED BY <1>3, <1>4 DEF Poll

LEMMA BusNextType == BusTypeOK /\ [BusNext]_masterVars => BusTypeOK'
<1> SUFFICES ASSUME BusTypeOK, [BusNext]_masterVars PROVE BusTypeOK'
  OBVIOUS
<1>1. CASE Change
  <2>1. saved' \in Configs
    <3>1. saved \in Configs
      BY DEF BusTypeOK
    <3>2. CASE saved' = [saved EXCEPT !.bus = ~@]
      BY <3>1, <3>2 DEF Configs
    <3>3. CASE \E s \in Numbers : \E d \in {"a", "b", "off", "none"} \ {saved.dev[s]} :
                 saved' = [saved EXCEPT !.dev[s] = d]
      BY <3>1, <3>3 DEF Configs, Devices
    <3> QED BY <1>1, <3>2, <3>3 DEF Change
  <2>2. changes' \in 0..MaxChanges
    BY <1>1, ConstantTypes DEF Change, BusTypeOK
  <2>3. asking' = TRUE /\ UNCHANGED <<requested, cfg, taken, stack, runtime, masterStatus,
                                     pos, slot, paused, fellBack, busFaults>>
    BY <1>1 DEF Change
  <2> QED BY <2>1, <2>2, <2>3 DEF BusTypeOK, runtime
<1>2. CASE Reconfigure
  BY <1>2 DEF Reconfigure, BusTypeOK, runtime
<1>3. CASE PauseOrGoOn
  BY <1>3 DEF PauseOrGoOn, BusTypeOK, runtime, config
<1>4. CASE StartLoad
  <2>1. taken' \in Configs /\ fellBack' \in BOOLEAN /\ busFaults' \in 0..MaxBusFaults
    BY <1>4, LoadedType DEF StartLoad
  <2>2. pos' = "booting" /\ UNCHANGED <<config, requested, cfg, stack, runtime, masterStatus,
                                        slot, paused>>
    BY <1>4 DEF StartLoad
  <2> QED BY <2>1, <2>2 DEF BusTypeOK, runtime, config
<1>5. CASE StartMaster
  BY <1>5, ConstantTypes DEF StartMaster, BusFault, BusTypeOK, runtime, config
<1>6. CASE Notice
  BY <1>6 DEF Notice, BusTypeOK, runtime, config
<1>7. CASE LoadConfig
  <2>1. taken' \in Configs /\ fellBack' \in BOOLEAN /\ busFaults' \in 0..MaxBusFaults
    BY <1>7, LoadedType DEF LoadConfig
  <2>2. pos' = "apply" /\ UNCHANGED <<config, requested, cfg, stack, runtime, masterStatus,
                                      slot, paused>>
    BY <1>7 DEF LoadConfig
  <2> QED BY <2>1, <2>2 DEF BusTypeOK, runtime, config
<1>8. CASE TakeOver
  <2>1. /\ slotErrors' \in [Numbers -> 0..Threshold] /\ slotOnline' \in [Numbers -> BOOLEAN]
        /\ masterStatus' \in {"OFFLINE", "INIT", "WARNING"} /\ pos' \in {"start", "check"}
        /\ cfg' = taken /\ readings' = readings
    BY <1>8, ConstantTypes DEF TakeOver, TakenOver
  <2>2. UNCHANGED <<config, requested, taken, stack, slot, paused, fellBack, busFaults>>
    BY <1>8 DEF TakeOver
  <2> QED BY <2>1, <2>2 DEF BusTypeOK, config
<1>9. CASE StartStack
  BY <1>9, ConstantTypes DEF StartStack, BusFault, BusTypeOK, runtime, config
<1>10. CASE NothingToDo
  BY <1>10 DEF NothingToDo, BusTypeOK, runtime, config
<1>11. CASE Check
  BY <1>11, ConstantTypes DEF Check, BusTypeOK, runtime, config
<1>12. CASE Poll
  <2>1. slot' \in 0..MasterSlots
    BY <1>12, ConstantTypes DEF Poll, BusTypeOK
  <2>2. UNCHANGED <<config, requested, cfg, taken, stack, pos, paused, fellBack, busFaults>>
    BY <1>12 DEF Poll
  <2> QED BY <1>12, <2>1, <2>2, PollTypes DEF BusTypeOK, config
<1>13. CASE SkipSlot
  BY <1>13, ConstantTypes DEF SkipSlot, BusTypeOK, runtime, config
<1>14. CASE EndCycle
  BY <1>14, ConstantTypes DEF EndCycle, BusTypeOK, runtime, config
<1>15. CASE Wake
  BY <1>15 DEF Wake, BusTypeOK, runtime, config
<1>16. CASE UNCHANGED masterVars
  BY <1>16 DEF masterVars, BusTypeOK, runtime, config
<1> QED BY <1>1, <1>2, <1>3, <1>4, <1>5, <1>6, <1>7, <1>8, <1>9, <1>10, <1>11, <1>12, <1>13,
           <1>14, <1>15, <1>16 DEF BusNext, Task

\* Whatever changes, fails or is paused, every variable keeps its type
\* (modbus_master_task.c: s_cfg, s_slot_rt, the position of the task).
THEOREM MasterTypeCorrect == BusSpec => []BusTypeOK
BY BusInitType, BusNextType, PTL DEF BusSpec

\* A step that leaves configurations and position alone.
LEMMA FollowKept ==
  ASSUME FollowInv, pos' = pos, saved' = saved, asking' = asking, requested' = requested,
         fellBack' = fellBack, UNCHANGED <<cfg, taken, stack, slotOnline, readings>>
  PROVE  FollowInv'
BY DEF FollowInv

\* A step between two positions that is not a taking over.
LEMMA FollowMoved ==
  ASSUME FollowInv, pos \in InForce, pos' \in InForce,
         UNCHANGED <<saved, asking, requested, fellBack, cfg, taken, stack, slotOnline, readings>>
  PROVE  FollowInv'
BY DEF FollowInv, InForce, Coming

LEMMA FollowStep == BusTypeOK /\ FollowInv /\ [BusNext]_masterVars => FollowInv'
<1> SUFFICES ASSUME BusTypeOK, FollowInv, [BusNext]_masterVars PROVE FollowInv'
  OBVIOUS
<1>1. CASE Change
  <2>1. asking' = TRUE /\ UNCHANGED <<requested, cfg, taken, stack, slotOnline, readings,
                                     pos, fellBack>>
    BY <1>1 DEF Change, runtime
  <2> QED BY <2>1 DEF FollowInv
<1>2. CASE Reconfigure
  <2>1. requested' = TRUE /\ UNCHANGED <<cfg, taken, stack, slotOnline, readings, pos>>
    BY <1>2 DEF Reconfigure, runtime
  <2> QED BY <2>1 DEF FollowInv
<1>3. CASE PauseOrGoOn
  BY <1>3, FollowKept DEF PauseOrGoOn, runtime, config
<1>4. CASE StartLoad
  <2>1. ~fellBack' => taken' = saved
    BY <1>4, LoadedType DEF StartLoad
  <2>2. pos = "boot" /\ pos' = "booting"
        /\ UNCHANGED <<saved, asking, requested, cfg, stack, slotOnline, readings>>
    BY <1>4 DEF StartLoad, runtime, config
  <2> QED BY <2>1, <2>2 DEF FollowInv, InForce, Coming
<1>5. CASE StartMaster
  <2>1. pos = "booting" /\ pos' = "top" /\ cfg' = taken
        /\ UNCHANGED <<saved, asking, requested, taken, fellBack, slotOnline, readings>>
    BY <1>5 DEF StartMaster, runtime, config
  <2>2. stack' = "up" => taken.bus
    BY <1>5 DEF StartMaster
  <2> QED BY <2>1, <2>2 DEF FollowInv, InForce, Coming
<1>6. CASE Notice
  <2>1. pos' = "load" /\ stack' # "up" /\ pos = "top"
        /\ UNCHANGED <<cfg, slotOnline, readings>>
    BY <1>6 DEF Notice, runtime
  <2> QED BY <2>1 DEF FollowInv, InForce, Coming
<1>7. CASE LoadConfig
  <2>1. ~fellBack' => taken' = saved
    BY <1>7, LoadedType DEF LoadConfig
  <2>2. pos = "load" /\ pos' = "apply"
        /\ UNCHANGED <<saved, asking, requested, cfg, stack, slotOnline, readings>>
    BY <1>7 DEF LoadConfig, runtime, config
  <2> QED BY <2>1, <2>2 DEF FollowInv, InForce, Coming
<1>8. CASE TakeOver
  <2>1. pos = "apply" /\ cfg' = taken /\ pos' = IF taken.bus THEN "start" ELSE "check"
    BY <1>8 DEF TakeOver, TakenOver
  <2>2. \A s \in Numbers : ~slotOnline'[s]
    BY <1>8 DEF TakeOver, TakenOver
  <2>3. UNCHANGED <<saved, asking, requested, fellBack, stack>>
    BY <1>8 DEF TakeOver, config
  <2> QED BY <2>1, <2>2, <2>3 DEF FollowInv, InForce, Coming
<1>9. CASE StartStack
  <2>1. pos = "start" /\ pos' = "check"
        /\ UNCHANGED <<saved, asking, requested, fellBack, cfg, slotOnline, readings>>
    BY <1>9 DEF StartStack, runtime, config
  <2> QED BY <2>1 DEF FollowInv, InForce, Coming
<1>10. CASE NothingToDo
  BY <1>10, FollowMoved DEF NothingToDo, runtime, config, InForce
<1>11. CASE Check
  BY <1>11, FollowMoved DEF Check, runtime, config, InForce
<1>12. CASE Poll
  <2>1. UNCHANGED <<saved, asking, requested, fellBack, cfg, taken, stack, pos>>
    BY <1>12 DEF Poll, config
  <2>2. slot \in Numbers /\ pos = "poll"
    BY <1>12 DEF Poll, Polled
  <2>3. \A s \in Numbers : slotOnline'[s] => readings'[s] = cfg.dev[s]
    BY <1>12, <2>2 DEF Poll, FollowInv, BusTypeOK
  <2> QED BY <2>1, <2>2, <2>3 DEF FollowInv, InForce, Coming
<1>13. CASE SkipSlot
  BY <1>13, FollowKept DEF SkipSlot, runtime, config
<1>14. CASE EndCycle
  BY <1>14, FollowMoved DEF EndCycle, runtime, config, InForce
<1>15. CASE Wake
  BY <1>15, FollowMoved DEF Wake, runtime, config, InForce
<1>16. CASE UNCHANGED masterVars
  BY <1>16, FollowKept DEF masterVars, runtime, config
<1> QED BY <1>1, <1>2, <1>3, <1>4, <1>5, <1>6, <1>7, <1>8, <1>9, <1>10, <1>11, <1>12, <1>13,
           <1>14, <1>15, <1>16 DEF BusNext, Task

LEMMA FollowStart == BusInit => FollowInv
BY DEF BusInit, FollowInv, InForce, Coming

LEMMA FollowSays == BusTypeOK /\ FollowInv => MasterFollowsConfig
BY DEF FollowInv, MasterFollowsConfig, DeviceState, ReadingsOf, InForce, Devices

\* Between two passes, with nothing left to take over, the master polls what is configured,
\* and a device shown as present is shown with its own readings, for any number of slots
\* (modbus_master_task.c: s_reconfigure_pending, apply_config_snapshot).
THEOREM MasterFollows == BusSpec => []MasterFollowsConfig
<1>1. BusSpec => []FollowInv
  BY MasterTypeCorrect, FollowStart, FollowStep, PTL DEF BusSpec
<1> QED BY <1>1, MasterTypeCorrect, FollowSays, PTL

-----------------------------------------------------------------------------
(* The Modbus RTU slave and the owner of its map.                          *)

Appliable == Settings \cup Coils
Calls == {"apply", "refresh", "reset", "reboot", "record"}
Entries == [call : Calls, item : SlaveItems \cup SUBSET SlaveItems]
EntriesOf(s) == {s[n] : n \in 1..Len(s)}

\* What an entry of the owner's list may be about.
Sound(e) ==
    /\ e.call = "apply" => e.item \in Appliable
    /\ e.call = "refresh" => e.item \in {Settings, Coils}
    /\ e.call = "record" => e.item \in Requests

\* The owner's list is made of such entries, and the record of an event is its last.
TodoInv ==
    /\ todo \in Seq(Entries)
    /\ \A e \in EntriesOf(todo) : Sound(e)
    /\ \A n \in 1..Len(todo) : todo[n].call = "record" => n = Len(todo)

\* Relays whose image differs from the pin.
MovedInv == \A c \in Coils : slaveImage[c] # device[c] => c \in moved

\* An item nothing came over since it was written.
Clean(i) == \A by \in Spoilers : <<i, by>> \notin spoiled

\* The event at hand is about the item.
AtHand(i) == \E e \in EntriesOf(todo) : e.call = "record" /\ i \in e.item

\* What was written last is in the image until it is applied, and then in force.
WrittenInv ==
    \A i \in Appliable : Clean(i) =>
        /\ i \in Waiting \/ (AtHand(i) /\ i \in ToApply) => slaveImage[i] = written[i]
        /\ AtHand(i) /\ i \notin ToApply /\ i \notin Waiting /\ result = "OK"
           => applied[i] = written[i]
-----------------------------------------------------------------------------
(* Lists of entries.                                                       *)

LEMMA SlaveConstants ==
  MaxCommands \in Nat /\ MaxOthers \in Nat /\ MaxRefused \in Nat /\ QueueLength \in Nat
BY ModbusSlaveAssumption

LEMMA ItemFacts ==
  /\ Appliable \subseteq SlaveItems /\ Coils \subseteq Appliable /\ Settings \subseteq Appliable
  /\ \A i \in Appliable : i # "reset" /\ i # "reboot"
  /\ "reset" \in SlaveItems /\ "reboot" \in SlaveItems
  /\ \A i \in SlaveItems : 0 \in Values(i) /\ 1 \in Values(i) /\ Values(i) \subseteq 0..Bad
  /\ \A items \in Requests : items \subseteq SlaveItems
BY DEF Appliable, SlaveItems, Settings, Coils, Triggers, Values, Bad, Requests

LEMMA EntriesOfTail ==
  ASSUME NEW s \in Seq(Entries), s # <<>>
  PROVE  /\ Tail(s) \in Seq(Entries) /\ Head(s) \in EntriesOf(s)
         /\ Len(Tail(s)) = Len(s) - 1 /\ \A n \in 1..Len(Tail(s)) : Tail(s)[n] = s[n + 1]
         /\ EntriesOf(Tail(s)) \subseteq EntriesOf(s)
         /\ EntriesOf(s) = {Head(s)} \cup EntriesOf(Tail(s))
<1>1. /\ Tail(s) \in Seq(Entries) /\ Head(s) = s[1] /\ Len(s) \in Nat /\ Len(s) > 0
      /\ Len(Tail(s)) = Len(s) - 1 /\ \A n \in 1..Len(Tail(s)) : Tail(s)[n] = s[n + 1]
  OBVIOUS
<1>2. \A n \in 1..Len(s) : n = 1 \/ (n - 1 \in 1..Len(Tail(s)) /\ s[n] = Tail(s)[n - 1])
  BY <1>1
<1>3. \A n \in 1..Len(Tail(s)) : n + 1 \in 1..Len(s)
  BY <1>1
<1> QED BY <1>1, <1>2, <1>3 DEF EntriesOf

LEMMA EntriesOfJoin ==
  ASSUME NEW s \in Seq(Entries), NEW u \in Seq(Entries)
  PROVE  /\ s \o u \in Seq(Entries) /\ Len(s \o u) = Len(s) + Len(u)
         /\ EntriesOf(s \o u) = EntriesOf(s) \cup EntriesOf(u)
<1>1. /\ s \o u \in Seq(Entries) /\ Len(s \o u) = Len(s) + Len(u)
      /\ Len(s) \in Nat /\ Len(u) \in Nat
      /\ \A n \in 1..Len(s) : (s \o u)[n] = s[n]
      /\ \A n \in 1..Len(u) : (s \o u)[Len(s) + n] = u[n]
  OBVIOUS
<1>2. \A n \in 1..Len(s \o u) : n \in 1..Len(s) \/ (n - Len(s)) \in 1..Len(u)
  BY <1>1
<1>3. \A n \in 1..Len(s \o u) : (s \o u)[n] \in EntriesOf(s) \cup EntriesOf(u)
  <2> TAKE n \in 1..Len(s \o u)
  <2>1. CASE n \in 1..Len(s)
    BY <1>1, <2>1 DEF EntriesOf
  <2>2. CASE (n - Len(s)) \in 1..Len(u)
    <3>1. (s \o u)[Len(s) + (n - Len(s))] = u[n - Len(s)] /\ Len(s) + (n - Len(s)) = n
      BY <1>1, <2>2
    <3> QED BY <2>2, <3>1 DEF EntriesOf
  <2> QED BY <1>2, <2>1, <2>2
<1>4. /\ \A n \in 1..Len(s) : n \in 1..Len(s \o u)
      /\ \A n \in 1..Len(u) : Len(s) + n \in 1..Len(s \o u)
  BY <1>1
<1>5. EntriesOf(s \o u) \subseteq EntriesOf(s) \cup EntriesOf(u)
  BY <1>3 DEF EntriesOf
<1>6. EntriesOf(s) \subseteq EntriesOf(s \o u)
  <2> SUFFICES ASSUME NEW n \in 1..Len(s) PROVE s[n] \in EntriesOf(s \o u)
    BY DEF EntriesOf
  <2> QED BY <1>1, <1>4 DEF EntriesOf
<1>7. EntriesOf(u) \subseteq EntriesOf(s \o u)
  <2> SUFFICES ASSUME NEW n \in 1..Len(u) PROVE u[n] \in EntriesOf(s \o u)
    BY DEF EntriesOf
  <2>1. u[n] = (s \o u)[Len(s) + n] /\ Len(s) + n \in 1..Len(s \o u)
    BY <1>1, <1>4
  <2> QED BY <2>1 DEF EntriesOf
<1> QED BY <1>1, <1>5, <1>6, <1>7

\* What is to be done for an event, before it is recorded.
Work(items) == IF items \subseteq Coils THEN ApplyCoils ELSE HoldingWrite(items)

\* A list of calls that record nothing.
Calling(s) == s \in Seq(Entries) /\ \A e \in EntriesOf(s) : Sound(e) /\ e.call # "record"

LEMMA CallingNothing == Calling(<<>>)
BY DEF Calling, EntriesOf

LEMMA CallingJoin ==
  ASSUME NEW s, NEW u, Calling(s), Calling(u)
  PROVE  Calling(s \o u)
BY EntriesOfJoin DEF Calling

LEMMA CallingOne ==
  ASSUME NEW e \in Entries, Sound(e), e.call # "record"
  PROVE  Calling(<<e>>) /\ EntriesOf(<<e>>) = {e}
BY DEF Calling, EntriesOf

LEMMA CallingTwo ==
  ASSUME NEW e \in Entries, NEW g \in Entries, Sound(e), Sound(g), e.call # "record",
         g.call # "record"
  PROVE  Calling(<<e, g>>) /\ EntriesOf(<<e, g>>) = {e, g}
BY DEF Calling, EntriesOf

LEMMA DoFacts ==
  /\ \A i \in Appliable : Do("apply", i) \in Entries /\ Sound(Do("apply", i))
  /\ Refresh(Settings) \in Entries /\ Sound(Refresh(Settings))
  /\ Refresh(Coils) \in Entries /\ Sound(Refresh(Coils))
  /\ \A i \in Triggers : Do(i, i) \in Entries /\ Sound(Do(i, i))
  /\ \A i : Do("apply", i).call = "apply" /\ Do("apply", i).item = i
  /\ \A i \in Triggers : Do(i, i).call = i
  /\ \A items : Refresh(items).call = "refresh" /\ Refresh(items).item = items
BY ItemFacts DEF Do, Refresh, Entries, Calls, Sound, Triggers, Appliable, SlaveItems

\* Every item of an event that can be applied is.
LEMMA WorkFacts ==
  ASSUME NEW items \in Requests
  PROVE  /\ Calling(Work(items))
         /\ \A i \in items \cap Appliable : Do("apply", i) \in EntriesOf(Work(items))
<1>1. CASE items \subseteq Coils
  <2>1. "coil0" \in Appliable /\ "coil1" \in Appliable
    BY DEF Appliable, Coils
  <2>2. Calling(ApplyCoils) /\ EntriesOf(ApplyCoils) = {Do("apply", "coil0"), Do("apply", "coil1")}
    BY <2>1, CallingTwo, DoFacts DEF ApplyCoils
  <2> QED BY <1>1, <2>2 DEF Work, Coils
<1>2. CASE ~(items \subseteq Coils)
  <2> DEFINE wiring == IF "wiring" \in items
                       THEN <<Do("apply", "wiring"), Refresh(Settings)>> ELSE <<>>
             window == IF "window" \in items
                       THEN <<Do("apply", "window"), Refresh(Settings)>> ELSE <<>>
             reset == IF "reset" \in items THEN <<Do("reset", "reset")>> ELSE <<>>
             reboot == IF "reboot" \in items THEN <<Do("reboot", "reboot")>> ELSE <<>>
  <2>1. Work(items) = ((wiring \o window) \o reset) \o reboot
    BY <1>2 DEF Work, HoldingWrite
  <2>2. Calling(wiring) /\ ("wiring" \in items => Do("apply", "wiring") \in EntriesOf(wiring))
    <3>1. "wiring" \in Appliable
      BY DEF Appliable, Settings
    <3>2. /\ Calling(<<Do("apply", "wiring"), Refresh(Settings)>>)
          /\ EntriesOf(<<Do("apply", "wiring"), Refresh(Settings)>>) =
                {Do("apply", "wiring"), Refresh(Settings)}
      BY <3>1, CallingTwo, DoFacts
    <3> QED BY <3>2, CallingNothing
  <2>3. Calling(window) /\ ("window" \in items => Do("apply", "window") \in EntriesOf(window))
    <3>1. "window" \in Appliable
      BY DEF Appliable, Settings
    <3>2. /\ Calling(<<Do("apply", "window"), Refresh(Settings)>>)
          /\ EntriesOf(<<Do("apply", "window"), Refresh(Settings)>>) =
                {Do("apply", "window"), Refresh(Settings)}
      BY <3>1, CallingTwo, DoFacts
    <3> QED BY <3>2, CallingNothing
  <2>4. Calling(reset) /\ Calling(reboot)
    <3>1. Calling(<<Do("reset", "reset")>>) /\ Calling(<<Do("reboot", "reboot")>>)
      BY CallingOne, DoFacts DEF Triggers
    <3> QED BY <3>1, CallingNothing
  <2> HIDE DEF wiring, window, reset, reboot
  <2>5. Calling(wiring \o window) /\ Calling((wiring \o window) \o reset)
        /\ Calling(((wiring \o window) \o reset) \o reboot)
    BY <2>2, <2>3, <2>4, CallingJoin
  <2>6. EntriesOf(Work(items)) = EntriesOf(wiring) \cup EntriesOf(window) \cup EntriesOf(reset)
                                 \cup EntriesOf(reboot)
    <3>1. EntriesOf(wiring \o window) = EntriesOf(wiring) \cup EntriesOf(window)
      BY <2>2, <2>3, EntriesOfJoin DEF Calling
    <3>2. EntriesOf((wiring \o window) \o reset) =
             EntriesOf(wiring \o window) \cup EntriesOf(reset)
      BY <2>4, <2>5, EntriesOfJoin DEF Calling
    <3>3. EntriesOf(((wiring \o window) \o reset) \o reboot) =
             EntriesOf((wiring \o window) \o reset) \cup EntriesOf(reboot)
      BY <2>4, <2>5, EntriesOfJoin DEF Calling
    <3> QED BY <2>1, <3>1, <3>2, <3>3
  <2>7. items \cap Appliable \subseteq {"wiring", "window"}
    BY <1>2 DEF Requests, Appliable, Settings, Coils, SlaveItems, Triggers
  <2> QED BY <2>1, <2>2, <2>3, <2>5, <2>6, <2>7
<1> QED BY <1>1, <1>2

\* The list of an event.
LEMMA EventList ==
  ASSUME NEW items \in Requests, todo' = Work(items) \o <<Do("record", items)>>
  PROVE  /\ TodoInv'
         /\ EntriesOf(todo') = EntriesOf(Work(items)) \cup {Do("record", items)}
<1> DEFINE record == Do("record", items)
<1>1. record \in Entries /\ record.call = "record" /\ record.item = items /\ Sound(record)
  BY ItemFacts DEF Do, Entries, Calls, Sound
<1>2. Work(items) \in Seq(Entries) /\ \A e \in EntriesOf(Work(items)) :
                                         Sound(e) /\ e.call # "record"
  BY WorkFacts DEF Calling
<1>3. <<record>> \in Seq(Entries) /\ EntriesOf(<<record>>) = {record}
  BY <1>1 DEF EntriesOf
<1>4. todo' \in Seq(Entries) /\ EntriesOf(todo') = EntriesOf(Work(items)) \cup {record}
  BY <1>2, <1>3, EntriesOfJoin
<1>5. \A n \in 1..Len(todo') : todo'[n].call = "record" => n = Len(todo')
  <2>1. Len(todo') = Len(Work(items)) + 1 /\ Len(Work(items)) \in Nat
    BY <1>2, <1>3
  <2>2. \A n \in 1..Len(Work(items)) : todo'[n] = Work(items)[n]
    BY <1>2, <1>3
  <2>3. \A n \in 1..Len(Work(items)) : todo'[n].call # "record"
    BY <1>2, <2>2 DEF EntriesOf
  <2> QED BY <2>1, <2>3
<1>6. \A e \in EntriesOf(todo') : Sound(e)
  BY <1>1, <1>2, <1>4
<1> HIDE DEF record
<1> QED BY <1>4, <1>5, <1>6 DEF TodoInv, record
-----------------------------------------------------------------------------
(* The owner's list.                                                       *)

LEMMA Taken ==
  ASSUME TodoInv, todo # <<>>, todo' = Tail(todo)
  PROVE  /\ TodoInv'
         /\ Head(todo) \in Entries /\ Head(todo) \in EntriesOf(todo) /\ Sound(Head(todo))
         /\ EntriesOf(todo) = {Head(todo)} \cup EntriesOf(todo')
         /\ Head(todo).call = "record" => EntriesOf(todo') = {}
<1>0. \A n \in 1..Len(todo) : todo[n].call = "record" => n = Len(todo)
  BY DEF TodoInv
<1>1. todo \in Seq(Entries) /\ Len(todo) \in Nat /\ Head(todo) = todo[1] /\ Len(todo) > 0
  BY DEF TodoInv
<1>2. /\ Tail(todo) \in Seq(Entries) /\ Head(todo) \in EntriesOf(todo)
      /\ Len(todo') = Len(todo) - 1 /\ \A n \in 1..Len(todo') : todo'[n] = todo[n + 1]
      /\ EntriesOf(todo') \subseteq EntriesOf(todo)
      /\ EntriesOf(todo) = {Head(todo)} \cup EntriesOf(todo')
  BY <1>1, EntriesOfTail
<1>3. \A n \in 1..Len(todo') : todo'[n].call = "record" => n = Len(todo')
  <2> TAKE n \in 1..Len(todo')
  <2>1. n + 1 \in 1..Len(todo) /\ todo'[n] = todo[n + 1]
    BY <1>1, <1>2
  <2>2. todo'[n].call = "record" => n + 1 = Len(todo)
    BY <1>0, <2>1, Zenon
  <2>3. ASSUME NEW all \in Nat, NEW rest, rest = all - 1, n \in 1..rest
        PROVE  n + 1 = all => n = rest
    BY <2>3
  <2>4. n + 1 = Len(todo) => n = Len(todo')
    BY <1>1, <1>2, <2>3, Zenon
  <2> QED BY <2>2, <2>4, Zenon
<1>4. Head(todo).call = "record" => EntriesOf(todo') = {}
  <2>1. 1 \in 1..Len(todo)
    BY <1>1
  <2>2. Head(todo).call = "record" => 1 = Len(todo)
    BY <1>0, <1>1, <2>1, Zenon
  <2> QED BY <1>2, <2>2 DEF EntriesOf
<1>5. Sound(Head(todo)) /\ \A e \in EntriesOf(todo') : Sound(e)
  BY <1>2 DEF TodoInv
<1>6. Head(todo) \in Entries
  BY <1>1
<1> QED BY <1>2, <1>3, <1>4, <1>5, <1>6 DEF TodoInv

LEMMA EmptyList ==
  ASSUME todo' = <<>>
  PROVE  TodoInv' /\ EntriesOf(todo') = {}
BY DEF TodoInv, EntriesOf

LEMMA RefreshList ==
  ASSUME todo' = <<Refresh(Settings), Refresh(Coils)>>
  PROVE  /\ TodoInv'
         /\ \A e \in EntriesOf(todo') : e.call = "refresh"
<1>1. Calling(todo') /\ EntriesOf(todo') = {Refresh(Settings), Refresh(Coils)}
  BY CallingTwo, DoFacts
<1>2. \A n \in 1..Len(todo') : todo'[n] \in EntriesOf(todo')
  BY DEF EntriesOf
<1> QED BY <1>1, <1>2, DoFacts DEF Calling, TodoInv

LEMMA ToApplyMeans == \A i : i \in ToApply <=> \E e \in EntriesOf(todo) : e.call = "apply" /\ e.item = i
BY DEF ToApply, EntriesOf

LEMMA AppliedNext ==
  \A i : i \in ToApply' <=> \E e \in EntriesOf(todo') : e.call = "apply" /\ e.item = i
<1>1. \A i : i \in ToApply <=> \E e \in EntriesOf(todo) : e.call = "apply" /\ e.item = i
  BY ToApplyMeans
<1>2. (\A i : i \in ToApply <=> \E e \in EntriesOf(todo) : e.call = "apply" /\ e.item = i)'
  BY <1>1, PTL
<1> QED BY <1>2 DEF EntriesOf

\* A step along the list is one call of the owner's.
LEMMA StepFacts ==
  ASSUME TodoInv, NEW call \in Calls, Step(call)
  PROVE  /\ TodoInv' /\ todo # <<>> /\ Head(todo).call = call /\ Sound(Head(todo))
         /\ Head(todo) \in EntriesOf(todo)
         /\ \A i : AtHand(i)' => AtHand(i)
         /\ ToApply' \subseteq ToApply
         /\ call = "apply" => Item \in Appliable /\ ToApply = {Item} \cup ToApply'
         /\ call # "apply" => ToApply' = ToApply
         /\ call = "refresh" => Item \in {Settings, Coils}
         /\ call = "record" => Item \in Requests /\ EntriesOf(todo') = {}
                               /\ EntriesOf(todo) = {Head(todo)}
<1>1. todo # <<>> /\ Head(todo).call = call /\ todo' = Tail(todo)
  BY DEF Step
<1>2. /\ TodoInv' /\ Sound(Head(todo)) /\ Head(todo) \in EntriesOf(todo)
      /\ EntriesOf(todo) = {Head(todo)} \cup EntriesOf(todo')
      /\ call = "record" => EntriesOf(todo') = {}
  BY <1>1, Taken
<1>3. \A i : AtHand(i)' => AtHand(i)
  BY <1>2 DEF AtHand, EntriesOf
<1>4. /\ ToApply' \subseteq ToApply
      /\ call = "apply" => ToApply = {Item} \cup ToApply'
      /\ call # "apply" => ToApply' = ToApply
  <2>1. ToApply' \subseteq ToApply
    BY <1>2, ToApplyMeans, AppliedNext
  <2>2. \A i \in ToApply : i \in ToApply' \/ (Head(todo).call = "apply" /\ i = Head(todo).item)
    BY <1>2, ToApplyMeans, AppliedNext
  <2>3. Head(todo).call = "apply" => Head(todo).item \in ToApply
    BY <1>2, ToApplyMeans
  <2> QED BY <1>1, <2>1, <2>2, <2>3 DEF Item
<1>5. /\ call = "apply" => Item \in Appliable
      /\ call = "refresh" => Item \in {Settings, Coils}
      /\ call = "record" => Item \in Requests
  BY <1>1, <1>2 DEF Sound, Item
<1> QED BY <1>1, <1>2, <1>3, <1>4, <1>5
-----------------------------------------------------------------------------
(* The types.                                                              *)

\* A register image.
Image(f) == f \in [SlaveItems -> 0..Bad] /\ \A i \in SlaveItems : f[i] \in Values(i)

LEMMA ImageWrite ==
  ASSUME NEW f, Image(f), NEW i \in SlaveItems, NEW v \in Values(i)
  PROVE  Image([f EXCEPT ![i] = v])
BY ItemFacts DEF Image

LEMMA ImageOfRequest ==
  ASSUME NEW f, Image(f), NEW items \in SUBSET SlaveItems, NEW value \in [items -> 0..Bad],
         \A i \in items : value[i] \in Values(i)
  PROVE  Image([i \in SlaveItems |-> IF i \in items THEN value[i] ELSE f[i]])
BY ItemFacts DEF Image

LEMMA ImageFilled ==
  ASSUME device \in [Settings \cup Coils -> 0..1]
  PROVE  Image(Filled) /\ \A i \in Appliable : Filled[i] = device[i]
<1>1. \A i \in SlaveItems \ Triggers : device[i] \in {0, 1}
  BY DEF SlaveItems
<1> QED BY <1>1, ItemFacts DEF Image, Filled, Appliable, Triggers, Bad

LEMMA TypesMean ==
  SlaveTypeOK <=>
    /\ Image(slaveImage) /\ Image(written) /\ Image(applied)
    /\ device \in [Appliable -> 0..1]
    /\ telling \in Requests \cup {{}} /\ queue \in Seq(Requests)
    /\ Len(queue) <= QueueLength
    /\ result \in {"OK", "FAILED"} /\ commandStatus \in {"NONE", "SUCCESS", "FAILED"}
    /\ spoiled \subseteq SlaveItems \X Spoilers /\ moved \subseteq Coils
BY DEF SlaveTypeOK, Image, Appliable

LEMMA TypesMeanNext ==
  SlaveTypeOK' <=>
    /\ Image(slaveImage') /\ Image(written') /\ Image(applied')
    /\ device' \in [Appliable -> 0..1]
    /\ telling' \in Requests \cup {{}} /\ queue' \in Seq(Requests)
    /\ Len(queue') <= QueueLength
    /\ result' \in {"OK", "FAILED"} /\ commandStatus' \in {"NONE", "SUCCESS", "FAILED"}
    /\ spoiled' \subseteq SlaveItems \X Spoilers /\ moved' \subseteq Coils
BY DEF SlaveTypeOK, Image, Appliable, SlaveItems, Values, Requests

\* What the owner reads of the image while it applies.
LEMMA Accepted ==
  ASSUME Image(slaveImage), NEW i \in Appliable
  PROVE  slaveImage[i] \in Values(i) /\ (slaveImage[i] # Bad => slaveImage[i] \in 0..1)
BY ItemFacts DEF Image, Values, Bad

SlaveInv == SlaveTypeOK /\ TodoInv

\* What a master's request does.
Writing(items, value) ==
    /\ \A i \in items : value[i] \in Values(i)
    /\ slaveImage' = [i \in SlaveItems |-> IF i \in items THEN value[i] ELSE slaveImage[i]]
    /\ written' = [i \in SlaveItems |-> IF i \in items THEN value[i] ELSE written[i]]
    /\ spoiled' = spoiled \ (items \X Spoilers)
    /\ telling' = items
    /\ moved' = moved \cup (items \cap Coils)

LEMMA SlaveInitial ==
  ASSUME SlaveInit
  PROVE  SlaveInv /\ MovedInv /\ WrittenInv
<1>1. device \in [Settings \cup Coils -> 0..1]
  BY DEF SlaveInit
<1>2. Image(slaveImage) /\ \A i \in Appliable : slaveImage[i] = device[i]
  BY <1>1, ImageFilled DEF SlaveInit
<1>3. SlaveTypeOK
  BY <1>1, <1>2, TypesMean, SlaveConstants DEF SlaveInit, Appliable
<1>4. TodoInv
  BY DEF SlaveInit, TodoInv, EntriesOf
<1>5. MovedInv
  BY <1>2 DEF MovedInv, Appliable
<1>6. WrittenInv
  BY DEF SlaveInit, WrittenInv
<1> QED BY <1>3, <1>4, <1>5, <1>6 DEF SlaveInv

LEMMA SlaveStep ==
  ASSUME SlaveInv, [SlaveNext]_slaveVars
  PROVE  SlaveInv'
<1> USE TypesMean, TypesMeanNext DEF SlaveInv
<1>1. /\ Image(slaveImage) /\ Image(written) /\ Image(applied)
      /\ device \in [Appliable -> 0..1] /\ TodoInv /\ SlaveTypeOK
      /\ queue \in Seq(Requests) /\ Len(queue) <= QueueLength
      /\ telling \in Requests \cup {{}}
  OBVIOUS
<1> HIDE DEF SlaveInv
<1>2. ASSUME todo' = todo
      PROVE  TodoInv'
  BY <1>1, <1>2 DEF TodoInv, EntriesOf
<1>3. ASSUME NEW call \in Calls, Step(call)
      PROVE  TodoInv'
  BY <1>1, <1>3, StepFacts
<1>4. CASE MasterWrites
  <2> PICK items \in Requests : \E v \in [items -> 0..Bad] : Writing(items, v)
    BY <1>4 DEF MasterWrites, Writing
  <2> PICK value \in [items -> 0..Bad] : Writing(items, value)
    OBVIOUS
  <2>1. items \in SUBSET SlaveItems
    BY ItemFacts
  <2>2. Image(slaveImage') /\ Image(written')
    <3>1. \A i \in items : value[i] \in Values(i)
      BY DEF Writing
    <3>2. ASSUME NEW f, Image(f)
          PROVE  Image([i \in SlaveItems |-> IF i \in items THEN value[i] ELSE f[i]])
      BY <2>1, <3>1, <3>2, ImageOfRequest
    <3>3. Image([i \in SlaveItems |-> IF i \in items THEN value[i] ELSE slaveImage[i]])
      BY <1>1, <3>2, Zenon
    <3>4. Image([i \in SlaveItems |-> IF i \in items THEN value[i] ELSE written[i]])
      BY <1>1, <3>2, Zenon
    <3> QED BY <3>3, <3>4, Zenon DEF Writing
  <2>3. SlaveTypeOK'
    BY <1>1, <1>4, <2>2 DEF MasterWrites, Writing
  <2> QED BY <1>2, <1>4, <2>3 DEF MasterWrites, SlaveInv
<1>5. CASE Notify
  <2>1. queue' \in Seq(Requests) /\ Len(queue') <= QueueLength
    BY <1>1, <1>5, SlaveConstants DEF Notify
  <2>2. spoiled' \subseteq SlaveItems \X Spoilers
    <3>1. telling \subseteq SlaveItems
      BY <1>1, ItemFacts
    <3> QED BY <1>1, <1>5, <3>1 DEF Notify, Spoilers
  <2>3. SlaveTypeOK'
    BY <1>1, <1>5, <2>1, <2>2 DEF Notify, counters
  <2> QED BY <1>2, <1>5, <2>3 DEF Notify, SlaveInv
<1>6. ASSUME NEW i \in Settings \cup Coils, OtherChanges(i)
      PROVE  SlaveInv'
  <2>1. device' \in [Appliable -> 0..1]
    BY <1>1, <1>6 DEF OtherChanges, Appliable
  <2>2. SlaveTypeOK'
    BY <1>1, <1>6, <2>1 DEF OtherChanges
  <2> QED BY <1>2, <1>6, <2>2 DEF OtherChanges, SlaveInv
<1>7. CASE TakeEvent
  <2>1. Head(queue) \in Requests /\ queue' \in Seq(Requests) /\ Len(queue') <= QueueLength
    BY <1>1, <1>7, SlaveConstants DEF TakeEvent
  <2>2. todo' = Work(Head(queue)) \o <<Do("record", Head(queue))>>
    BY <1>7 DEF TakeEvent, Work
  <2>3. TodoInv'
    BY <2>1, <2>2, EventList
  <2>4. SlaveTypeOK'
    BY <1>1, <1>7, <2>1 DEF TakeEvent, counters
  <2> QED BY <2>3, <2>4 DEF SlaveInv
<1>8. CASE RefreshDue
  <2>1. SlaveTypeOK'
    BY <1>1, <1>8 DEF RefreshDue, counters
  <2> QED BY <1>8, <2>1, RefreshList DEF RefreshDue, SlaveInv
<1>9. CASE Apply
  <2>1. Item \in Appliable /\ TodoInv'
    BY <1>1, <1>9, StepFacts DEF Apply, Calls
  <2>2. slaveImage[Item] # Bad => slaveImage[Item] \in 0..1
    BY <1>1, <2>1, Accepted
  <2>3. device' \in [Appliable -> 0..1]
    BY <1>1, <1>9, <2>1, <2>2 DEF Apply
  <2>4. Image(applied')
    BY <1>1, <1>9, <2>1, Accepted, ImageWrite, ItemFacts DEF Apply
  <2>5. SlaveTypeOK'
    BY <1>1, <1>9, <2>3, <2>4 DEF Apply
  <2> QED BY <2>1, <2>5 DEF SlaveInv
<1>10. CASE ResetCommand
  <2>1. "reset" \in SlaveItems /\ slaveImage.reset \in Values("reset") /\ 0 \in Values("reset")
    BY <1>1, ItemFacts DEF Image
  <2>2. Image(slaveImage') /\ Image(applied')
    BY <1>1, <1>10, <2>1, ImageWrite DEF ResetCommand
  <2>3. SlaveTypeOK'
    BY <1>1, <1>10, <2>2 DEF ResetCommand
  <2> QED BY <1>3, <1>10, <2>3 DEF ResetCommand, Calls, SlaveInv
<1>11. CASE RefuseReboot
  <2>1. "reboot" \in SlaveItems /\ slaveImage.reboot \in Values("reboot") /\ 0 \in Values("reboot")
    BY <1>1, ItemFacts DEF Image
  <2>2. Image(slaveImage') /\ Image(applied')
    BY <1>1, <1>11, <2>1, ImageWrite DEF RefuseReboot
  <2>3. SlaveTypeOK'
    BY <1>1, <1>11, <2>2 DEF RefuseReboot, counters
  <2> QED BY <1>3, <1>11, <2>3 DEF RefuseReboot, Calls, SlaveInv
<1>12. CASE Reboot
  <2>1. Image(Filled)
    BY <1>1, ImageFilled DEF Appliable
  <2>2. SlaveTypeOK'
    BY <1>1, <1>12, <2>1, SlaveConstants DEF Reboot, counters
  <2> QED BY <1>12, <2>2, EmptyList DEF Reboot, SlaveInv
<1>13. CASE RefreshImage
  <2>1. Item \in {Settings, Coils} /\ TodoInv'
    BY <1>1, <1>13, StepFacts DEF RefreshImage, Calls
  <2>2. Item \subseteq Appliable /\ Item \subseteq SlaveItems
    BY <2>1, ItemFacts
  <2>3. \A i \in Item : device[i] \in Values(i) /\ device[i] \in 0..Bad
    BY <1>1, <2>2, ItemFacts DEF Bad
  <2>4. Image(slaveImage')
    BY <1>1, <1>13, <2>3 DEF RefreshImage, Image
  <2>5. spoiled' \subseteq SlaveItems \X Spoilers
    BY <1>1, <1>13, <2>2 DEF RefreshImage, Spoilers
  <2>6. SlaveTypeOK'
    BY <1>1, <1>13, <2>4, <2>5 DEF RefreshImage, counters
  <2> QED BY <2>1, <2>6 DEF SlaveInv
<1>14. CASE Record
  <2>1. SlaveTypeOK'
    BY <1>1, <1>14 DEF Record, counters
  <2> QED BY <1>3, <1>14, <2>1 DEF Record, Calls, SlaveInv
<1>15. CASE UNCHANGED slaveVars
  <2>1. SlaveTypeOK'
    BY <1>1, <1>15 DEF slaveVars
  <2> QED BY <1>2, <1>15, <2>1 DEF slaveVars, SlaveInv
<1> QED BY <1>4, <1>5, <1>6, <1>7, <1>8, <1>9, <1>10, <1>11, <1>12, <1>13, <1>14, <1>15
        DEF SlaveNext, Owner

LEMMA SlaveInvariant == SlaveSpec => []SlaveInv
<1>1. SlaveInit => SlaveInv
  BY SlaveInitial
<1>2. SlaveInv /\ [SlaveNext]_slaveVars => SlaveInv'
  BY SlaveStep
<1> QED BY <1>1, <1>2, PTL DEF SlaveSpec

\* The registers, the relays, the events and the result keep their types: no value but
\* those a register may hold is ever in the image or in force (modbus_slave_task.c).
THEOREM SlaveTypeCorrect == SlaveSpec => []SlaveTypeOK
<1>1. SlaveInv => SlaveTypeOK
  BY DEF SlaveInv
<1> QED BY <1>1, SlaveInvariant, PTL
-----------------------------------------------------------------------------
(* The other relay.                                                        *)

LEMMA MovedStep ==
  ASSUME SlaveInv, MovedInv, [SlaveNext]_slaveVars
  PROVE  MovedInv' /\ \A c \in Coils : todo' # todo /\ device'[c] # device[c] => c \in moved
<1>1. /\ slaveImage \in [SlaveItems -> 0..Bad] /\ device \in [Appliable -> 0..1] /\ TodoInv
      /\ Coils \subseteq Appliable /\ Coils \subseteq SlaveItems
  BY TypesMean, ItemFacts DEF SlaveInv, Image
<1>2. ASSUME UNCHANGED <<device, moved>>, \A c \in Coils : slaveImage'[c] = slaveImage[c]
      PROVE  MovedInv' /\ \A c \in Coils : todo' # todo /\ device'[c] # device[c] => c \in moved
  BY <1>2 DEF MovedInv
<1>3. CASE MasterWrites
  <2> PICK items \in Requests : \E v \in [items -> 0..Bad] : Writing(items, v)
    BY <1>3 DEF MasterWrites, Writing
  <2> PICK value \in [items -> 0..Bad] : Writing(items, value)
    OBVIOUS
  <2>1. device' = device /\ todo' = todo
    BY <1>3 DEF MasterWrites
  <2>2. ASSUME NEW c \in Coils, slaveImage'[c] # device'[c]
        PROVE  c \in moved'
    <3>1. moved' = moved \cup (items \cap Coils)
      BY DEF Writing
    <3>2. CASE c \in items
      BY <3>1, <3>2
    <3>3. CASE c \notin items
      <4>1. slaveImage'[c] = slaveImage[c]
        BY <1>1, <3>3 DEF Writing
      <4> QED BY <2>1, <2>2, <3>1, <4>1 DEF MovedInv
    <3> QED BY <3>2, <3>3
  <2> QED BY <2>1, <2>2 DEF MovedInv
<1>4. CASE Notify
  BY <1>2, <1>4 DEF Notify
<1>5. ASSUME NEW i \in Settings \cup Coils, OtherChanges(i)
      PROVE  MovedInv' /\ todo' = todo
  <2>1. \A c \in Coils : c = i \/ device'[c] = device[c]
    BY <1>1, <1>5 DEF OtherChanges
  <2>2. slaveImage' = slaveImage /\ moved' = moved \cup ({i} \cap Coils)
    BY <1>5 DEF OtherChanges
  <2>3. MovedInv'
    BY <2>1, <2>2 DEF MovedInv
  <2> QED BY <1>5, <2>3 DEF OtherChanges
<1>6. CASE TakeEvent
  BY <1>2, <1>6 DEF TakeEvent
<1>7. CASE RefreshDue
  BY <1>2, <1>7 DEF RefreshDue
<1>8. CASE Apply
  <2>1. Item \in Appliable /\ slaveImage' = slaveImage /\ moved' = moved
    BY <1>1, <1>8, StepFacts DEF Apply, Calls
  <2>2. device' = device \/ device' = [device EXCEPT ![Item] = slaveImage[Item]]
    BY <1>8 DEF Apply
  <2>3. \A c \in Coils : device'[c] = device[c] \/ device'[c] = slaveImage[c]
    BY <1>1, <2>1, <2>2
  <2> QED BY <2>1, <2>3 DEF MovedInv
<1>9. CASE ResetCommand
  <2>1. \A c \in Coils : slaveImage'[c] = slaveImage[c]
    BY <1>1, <1>9, ItemFacts DEF ResetCommand
  <2> QED BY <1>2, <1>9, <2>1 DEF ResetCommand
<1>10. CASE RefuseReboot
  <2>1. \A c \in Coils : slaveImage'[c] = slaveImage[c]
    BY <1>1, <1>10, ItemFacts DEF RefuseReboot
  <2> QED BY <1>2, <1>10, <2>1 DEF RefuseReboot
<1>11. CASE Reboot
  <2>1. device' = device /\ \A c \in Coils : slaveImage'[c] = device[c]
    BY <1>1, <1>11, ImageFilled DEF Reboot, Appliable
  <2> QED BY <2>1 DEF MovedInv
<1>12. CASE RefreshImage
  <2>1. device' = device /\ moved' = moved \ Item
    BY <1>12 DEF RefreshImage
  <2>2. \A c \in Coils : slaveImage'[c] = IF c \in Item THEN device[c] ELSE slaveImage[c]
    BY <1>1, <1>12 DEF RefreshImage
  <2> QED BY <2>1, <2>2 DEF MovedInv
<1>13. CASE Record
  BY <1>2, <1>13 DEF Record
<1>14. CASE UNCHANGED slaveVars
  BY <1>2, <1>14 DEF slaveVars
<1> QED BY <1>3, <1>4, <1>5, <1>6, <1>7, <1>8, <1>9, <1>10, <1>11, <1>12, <1>13, <1>14
        DEF SlaveNext, Owner

\* A write of one coil switches the other relay only if that one was switched by
\* somebody else, or written too, after the image was last refreshed: until then its
\* image is its pin's level (modbus_slave_task.c: modbus_apply_coils).
THEOREM OtherRelay == SlaveSpec => OtherRelayStays
<1>1. SlaveInit => MovedInv
  BY SlaveInitial
<1>2. SlaveInv /\ MovedInv /\ [SlaveNext]_slaveVars => MovedInv'
  BY MovedStep
<1>3. SlaveInv /\ MovedInv /\ [SlaveNext]_slaveVars =>
         [\A c \in Coils : todo' # todo /\ device'[c] # device[c] => c \in moved]_slaveVars
  BY MovedStep
<1> QED BY <1>1, <1>2, <1>3, SlaveInvariant, PTL DEF SlaveSpec, OtherRelayStays
-----------------------------------------------------------------------------
(* What was written is applied.                                            *)

LEMMA WaitingNext == Waiting' = telling' \cup UNION {queue'[n] : n \in 1..Len(queue')}
BY DEF Waiting

LEMMA WaitingAppend ==
  ASSUME queue \in Seq(Requests), queue' = Append(queue, telling), telling' = {}
  PROVE  Waiting' = Waiting
<1>1. /\ Len(queue) \in Nat /\ Len(queue') = Len(queue) + 1
      /\ queue'[Len(queue) + 1] = telling
      /\ \A n \in 1..Len(queue) : queue'[n] = queue[n]
  OBVIOUS
<1>2. \A i \in Waiting' : i \in Waiting
  <2> TAKE i \in Waiting'
  <2>1. PICK n \in 1..Len(queue') : i \in queue'[n]
    BY WaitingNext
  <2>2. n \in 1..Len(queue) \/ n = Len(queue) + 1
    BY <1>1
  <2> QED BY <1>1, <2>1, <2>2 DEF Waiting
<1>3. \A i \in Waiting : i \in Waiting'
  <2> TAKE i \in Waiting
  <2>1. CASE i \in telling
    <3>1. Len(queue) + 1 \in 1..Len(queue')
      BY <1>1
    <3> QED BY <1>1, <2>1, <3>1, WaitingNext
  <2>2. CASE i \notin telling
    <3>1. PICK n \in 1..Len(queue) : i \in queue[n]
      BY <2>2 DEF Waiting
    <3>2. n \in 1..Len(queue')
      BY <1>1
    <3> QED BY <1>1, <3>1, <3>2, WaitingNext
  <2> QED BY <2>1, <2>2
<1> QED BY <1>2, <1>3

LEMMA WaitingTaken ==
  ASSUME queue \in Seq(Requests), queue # <<>>, queue' = Tail(queue), telling' = telling
  PROVE  Waiting' \subseteq Waiting /\ Head(queue) \subseteq Waiting
<1>1. /\ Len(queue) \in Nat /\ Len(queue) > 0 /\ Len(queue') = Len(queue) - 1
      /\ Head(queue) = queue[1] /\ \A n \in 1..Len(queue') : queue'[n] = queue[n + 1]
  OBVIOUS
<1>2. 1 \in 1..Len(queue) /\ \A n \in 1..Len(queue') : n + 1 \in 1..Len(queue)
  BY <1>1
<1>3. Head(queue) \subseteq Waiting
  BY <1>1, <1>2 DEF Waiting
<1>4. \A i \in Waiting' : i \in Waiting
  <2> TAKE i \in Waiting'
  <2>1. CASE i \in telling
    BY <2>1 DEF Waiting
  <2>2. CASE i \notin telling
    <3>1. PICK n \in 1..Len(queue') : i \in queue'[n]
      BY <2>2, WaitingNext
    <3> QED BY <1>1, <1>2, <3>1 DEF Waiting
  <2> QED BY <2>1, <2>2
<1> QED BY <1>3, <1>4

\* WrittenInv for one item.
WrittenAs(i) ==
    /\ i \in Waiting \/ (AtHand(i) /\ i \in ToApply) => slaveImage[i] = written[i]
    /\ AtHand(i) /\ i \notin ToApply /\ i \notin Waiting /\ result = "OK"
       => applied[i] = written[i]

LEMMA WrittenNext ==
  ASSUME \A i \in Appliable : Clean(i)' => WrittenAs(i)'
  PROVE  WrittenInv'
BY DEF WrittenInv, WrittenAs, Clean

LEMMA WrittenStep ==
  ASSUME SlaveInv, WrittenInv, [SlaveNext]_slaveVars
  PROVE  WrittenInv'
<1> SUFFICES ASSUME NEW i \in Appliable, Clean(i)' PROVE WrittenAs(i)'
  BY WrittenNext
<1>1. /\ slaveImage \in [SlaveItems -> 0..Bad] /\ device \in [Appliable -> 0..1] /\ TodoInv
      /\ written \in [SlaveItems -> 0..Bad] /\ applied \in [SlaveItems -> 0..Bad]
      /\ queue \in Seq(Requests) /\ telling \in Requests \cup {{}} /\ i \in SlaveItems
  BY TypesMean, ItemFacts DEF SlaveInv, Image
<1>2. Clean(i) => WrittenAs(i)
  BY DEF WrittenInv, WrittenAs
<1>3. ASSUME spoiled \subseteq spoiled'
      PROVE  Clean(i)
  BY <1>3 DEF Clean
<1>4. ASSUME UNCHANGED todo
      PROVE  (AtHand(i)' <=> AtHand(i)) /\ ToApply' = ToApply
  BY <1>4 DEF AtHand, ToApply, EntriesOf
<1>5. ASSUME UNCHANGED <<telling, queue>>
      PROVE  Waiting' = Waiting
  BY <1>5 DEF Waiting
<1>6. WrittenAs(i)' <=>
         /\ i \in Waiting' \/ (AtHand(i)' /\ i \in ToApply') => slaveImage'[i] = written'[i]
         /\ AtHand(i)' /\ i \notin ToApply' /\ i \notin Waiting' /\ result' = "OK"
            => applied'[i] = written'[i]
  BY DEF WrittenAs
<1>7. CASE MasterWrites
  <2> PICK items \in Requests : \E v \in [items -> 0..Bad] : Writing(items, v)
    BY <1>7 DEF MasterWrites, Writing
  <2> PICK value \in [items -> 0..Bad] : Writing(items, value)
    OBVIOUS
  <2>1. /\ telling = {} /\ queue' = queue /\ todo' = todo /\ result' = result
        /\ applied' = applied /\ telling' = items
        /\ slaveImage'[i] = IF i \in items THEN value[i] ELSE slaveImage[i]
        /\ written'[i] = IF i \in items THEN value[i] ELSE written[i]
    BY <1>1, <1>7 DEF MasterWrites, Writing
  <2>2. Waiting' = Waiting \cup items
    BY <2>1 DEF Waiting
  <2>3. CASE i \in items
    BY <1>6, <2>1, <2>2, <2>3
  <2>4. CASE i \notin items
    <3>1. Clean(i)
      BY <2>4 DEF Clean, Writing
    <3> QED BY <1>2, <1>4, <1>6, <2>1, <2>2, <2>4, <3>1 DEF WrittenAs
  <2> QED BY <2>3, <2>4
<1>8. CASE Notify
  <2>1. UNCHANGED <<slaveImage, todo, result, written, applied>> /\ spoiled \subseteq spoiled'
    BY <1>8 DEF Notify, counters
  <2>2. (AtHand(i)' <=> AtHand(i)) /\ ToApply' = ToApply
    BY <1>4, <2>1
  <2>3. i \in Waiting' <=> i \in Waiting
    <3>1. CASE queue' = Append(queue, telling)
      BY <1>1, <1>8, <3>1, WaitingAppend DEF Notify
    <3>2. CASE UNCHANGED queue /\ spoiled' = spoiled \cup (telling \X {"lost"})
      <4>1. i \notin telling
        BY <3>2 DEF Clean, Spoilers
      <4> QED BY <1>8, <3>2, <4>1 DEF Waiting, Notify
    <3> QED BY <1>8, <3>1, <3>2 DEF Notify
  <2> QED BY <1>2, <1>3, <1>6, <2>1, <2>2, <2>3 DEF WrittenAs
<1>9. ASSUME NEW j \in Settings \cup Coils, OtherChanges(j)
      PROVE  WrittenAs(i)'
  <2>1. UNCHANGED <<slaveImage, telling, queue, todo, result, written, spoiled, applied>>
    BY <1>9 DEF OtherChanges
  <2> QED BY <1>2, <1>3, <1>4, <1>5, <1>6, <2>1 DEF WrittenAs
<1>10. CASE TakeEvent
  <2>1. /\ UNCHANGED <<slaveImage, telling, written, spoiled>> /\ queue # <<>>
        /\ queue' = Tail(queue)
        /\ todo' = Work(Head(queue)) \o <<Do("record", Head(queue))>>
    BY <1>10 DEF TakeEvent, Work
  <2>2. Waiting' \subseteq Waiting /\ Head(queue) \subseteq Waiting /\ Head(queue) \in Requests
    BY <1>1, <2>1, WaitingTaken
  <2>3. /\ EntriesOf(todo') = EntriesOf(Work(Head(queue))) \cup {Do("record", Head(queue))}
        /\ \A e \in EntriesOf(Work(Head(queue))) : e.call # "record"
        /\ \A j \in Head(queue) \cap Appliable : Do("apply", j) \in EntriesOf(Work(Head(queue)))
    BY <2>1, <2>2, EventList, WorkFacts DEF Calling
  <2>4. AtHand(i)' => i \in Head(queue)
    <3>1. AtHand(i)' => \E e \in EntriesOf(todo') : e.call = "record" /\ i \in e.item
      BY DEF AtHand, EntriesOf
    <3> QED BY <2>3, <3>1 DEF Do
  <2>5. i \in Head(queue) => i \in ToApply'
    <3>1. Do("apply", i).call = "apply" /\ Do("apply", i).item = i
      BY DEF Do
    <3> QED BY <2>3, <3>1, AppliedNext
  <2>6. i \in Waiting => slaveImage'[i] = written'[i]
    BY <1>2, <1>3, <2>1 DEF WrittenAs
  <2> QED BY <1>6, <2>2, <2>4, <2>5, <2>6
<1>11. CASE RefreshDue
  <2>1. UNCHANGED <<slaveImage, telling, queue, written, spoiled>>
    BY <1>11 DEF RefreshDue
  <2>2. \A e \in EntriesOf(todo') : e.call = "refresh"
    BY <1>11, RefreshList DEF RefreshDue
  <2>3. ~AtHand(i)'
    <3>1. AtHand(i)' => \E e \in EntriesOf(todo') : e.call = "record"
      BY DEF AtHand, EntriesOf
    <3> QED BY <2>2, <3>1
  <2> QED BY <1>2, <1>3, <1>5, <1>6, <2>1, <2>3 DEF WrittenAs
<1>12. CASE Apply
  <2>1. /\ UNCHANGED <<slaveImage, telling, queue, written, spoiled>>
        /\ \/ result' = "FAILED"
           \/ result' = result /\ applied' = [applied EXCEPT ![Item] = slaveImage[Item]]
    BY <1>12 DEF Apply
  <2>2. Item \in SlaveItems /\ (AtHand(i)' => AtHand(i)) /\ ToApply = {Item} \cup ToApply'
    BY <1>1, <1>12, StepFacts, ItemFacts DEF Apply, Calls
  <2>3. WrittenAs(i) /\ Waiting' = Waiting
    BY <1>2, <1>3, <1>5, <2>1
  <2>4. i \in Waiting' \/ (AtHand(i)' /\ i \in ToApply') => slaveImage'[i] = written'[i]
    BY <2>1, <2>2, <2>3 DEF WrittenAs
  <2>5. ASSUME AtHand(i)', i \notin ToApply', i \notin Waiting', result' = "OK"
        PROVE  applied'[i] = written'[i]
    <3>1. result = "OK" /\ applied' = [applied EXCEPT ![Item] = slaveImage[Item]]
      BY <2>1, <2>5
    <3>2. CASE i = Item
      <4>1. applied'[i] = slaveImage[i]
        BY <1>1, <3>1, <3>2
      <4> QED BY <2>1, <2>2, <2>3, <2>5, <3>2, <4>1 DEF WrittenAs
    <3>3. CASE i # Item
      <4>1. applied'[i] = applied[i]
        BY <1>1, <3>1, <3>3
      <4> QED BY <2>1, <2>2, <2>3, <2>5, <3>1, <3>3, <4>1 DEF WrittenAs
    <3> QED BY <3>2, <3>3
  <2> QED BY <1>6, <2>4, <2>5
<1>13. CASE ResetCommand
  <2>1. /\ UNCHANGED <<telling, queue, written, spoiled>>
        /\ slaveImage'[i] = slaveImage[i] /\ applied'[i] = applied[i]
        /\ result' = "OK" => result = "OK"
    BY <1>1, <1>13, ItemFacts DEF ResetCommand
  <2>2. (AtHand(i)' => AtHand(i)) /\ ToApply = ToApply'
    BY <1>1, <1>13, StepFacts DEF ResetCommand, Calls
  <2> QED BY <1>2, <1>3, <1>5, <1>6, <2>1, <2>2 DEF WrittenAs
<1>14. CASE RefuseReboot
  <2>1. /\ UNCHANGED <<telling, queue, written, spoiled>> /\ slaveImage'[i] = slaveImage[i]
        /\ result' # "OK"
    BY <1>1, <1>14, ItemFacts DEF RefuseReboot
  <2>2. (AtHand(i)' => AtHand(i)) /\ ToApply = ToApply'
    BY <1>1, <1>14, StepFacts DEF RefuseReboot, Calls
  <2> QED BY <1>2, <1>3, <1>5, <1>6, <2>1, <2>2 DEF WrittenAs
<1>15. CASE Reboot
  <2>1. telling' = {} /\ queue' = <<>> /\ todo' = <<>>
    BY <1>15 DEF Reboot
  <2>2. Waiting' = {} /\ ~AtHand(i)'
    BY <2>1 DEF Waiting, AtHand, EntriesOf
  <2> QED BY <1>6, <2>2
<1>16. CASE RefreshImage
  <2>1. /\ UNCHANGED <<telling, queue, written, applied, result>>
        /\ slaveImage'[i] = IF i \in Item THEN device[i] ELSE slaveImage[i]
        /\ spoiled \subseteq spoiled'
        /\ i \in Item \cap Waiting /\ slaveImage[i] # device[i] => <<i, "timed">> \in spoiled'
        /\ i \in Item \cap ToApply /\ slaveImage[i] # device[i] => <<i, "own">> \in spoiled'
    BY <1>1, <1>16 DEF RefreshImage
  <2>2. (AtHand(i)' => AtHand(i)) /\ ToApply = ToApply'
    BY <1>1, <1>16, StepFacts DEF RefreshImage, Calls
  <2>3. i \in Waiting \cup ToApply => slaveImage'[i] = slaveImage[i]
    BY <2>1 DEF Clean, Spoilers
  <2> QED BY <1>2, <1>3, <1>5, <1>6, <2>1, <2>2, <2>3 DEF WrittenAs
<1>17. CASE Record
  <2>1. UNCHANGED <<slaveImage, telling, queue, written, spoiled>>
    BY <1>17 DEF Record
  <2>2. EntriesOf(todo') = {}
    BY <1>1, <1>17, StepFacts DEF Record, Calls
  <2>3. ~AtHand(i)'
    <3>1. AtHand(i)' => \E e \in EntriesOf(todo') : e.call = "record"
      BY DEF AtHand, EntriesOf
    <3> QED BY <2>2, <3>1
  <2> QED BY <1>2, <1>3, <1>5, <1>6, <2>1, <2>3 DEF WrittenAs
<1>18. CASE UNCHANGED slaveVars
  <2>1. UNCHANGED <<slaveImage, telling, queue, todo, result, written, spoiled, applied>>
    BY <1>18 DEF slaveVars
  <2> QED BY <1>2, <1>3, <1>4, <1>5, <1>6, <2>1 DEF WrittenAs
<1> QED BY <1>7, <1>8, <1>9, <1>10, <1>11, <1>12, <1>13, <1>14, <1>15, <1>16, <1>17, <1>18
        DEF SlaveNext, Owner

LEMMA RecordedStep ==
  ASSUME SlaveInv, WrittenInv, [SlaveNext]_slaveVars, NEW i \in Settings \cup Coils,
         Recorded(i), <<i, "own">> \notin spoiled
  PROVE  applied[i] = written[i]
<1>1. Record
  <2>1. todo' # todo /\ todo # <<>> /\ Head(todo).call = "record"
    BY DEF Recorded
  <2> QED BY <2>1 DEF SlaveNext, Owner, MasterWrites, Notify, OtherChanges, TakeEvent, RefreshDue,
                      Apply, ResetCommand, RefuseReboot, Reboot, RefreshImage, Step, slaveVars
<1>2. EntriesOf(todo) = {Head(todo)} /\ Head(todo).call = "record"
  BY <1>1, StepFacts DEF Record, Calls, SlaveInv
<1>3. i \notin ToApply
  BY <1>2, ToApplyMeans
<1>4. i \in Item /\ i \notin Waiting /\ Clean(i)
  BY DEF Recorded, Clean, Spoilers
<1>5. AtHand(i)
  BY <1>2, <1>4 DEF AtHand, Item
<1>6. result = "OK"
  BY <1>1 DEF Recorded, Record
<1> QED BY <1>3, <1>4, <1>5, <1>6 DEF WrittenInv, Appliable

\* A command recorded as done has done what the master last wrote, unless a refresh
\* wrote over it before it was applied, or its event found the queue full
\* (modbus_slave_task.c: process_holding_write, modbus_record_command).
THEOREM RecordedIsApplied == SlaveSpec => AppliedAsWritten
<1>1. SlaveInit => WrittenInv
  BY SlaveInitial
<1>2. SlaveInv /\ WrittenInv /\ [SlaveNext]_slaveVars => WrittenInv'
  BY WrittenStep
<1>3. SlaveInv /\ WrittenInv /\ [SlaveNext]_slaveVars =>
         [\A i \in Settings \cup Coils :
             Recorded(i) /\ <<i, "own">> \notin spoiled => applied[i] = written[i]]_slaveVars
  BY RecordedStep
<1> QED BY <1>1, <1>2, <1>3, SlaveInvariant, PTL DEF SlaveSpec, AppliedAsWritten
=============================================================================
