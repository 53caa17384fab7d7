------------------------- MODULE MqttManager_proofs -------------------------
(* Proofs about MqttManager, for any operators and states of an update.    *)
EXTENDS MqttManager, TLAPS

-----------------------------------------------------------------------------
(* The events that are none of the manager's, and the steps of the manager,   *)
(* by what they leave alone.                                                  *)

\* The steps of the operators, and the update's.
Distant ==
    \/ \E o \in Operators : SaveConfig(o)
    \/ \E o \in Operators : RequestApply(o)
    \/ \E o \in Operators : DropRequest(o)
    \/ OtaCommand \/ OtaChanges

\* The steps of the manager that touch neither the client nor what is said of the inputs.
Inward == LeaveGate \/ Serve \/ ReadConfig \/ BeginPass \/ PassOffline \/ SampleOta \/ ReportOta

LEMMA DistantLeaves == Distant => UNCHANGED <<pc, stage, link, clock, io>>
  BY DEF Distant, SaveConfig, RequestApply, DropRequest, OtaCommand, OtaChanges, life

LEMMA InwardLeaves == Inward => UNCHANGED <<link, clock, io>>
  BY DEF Inward, LeaveGate, Serve, ReadConfig, BeginPass, PassOffline, SampleOta, ReportOta

\* Every step is one of these.
LEMMA Steps ==
  ASSUME [Next]_vars
  PROVE  \/ Distant \/ Inward
         \/ Stop \/ StopDone \/ StartClient \/ StartFails
         \/ PassOnline \/ TakeEdge \/ PublishIo \/ EndPass
         \/ Connect \/ Disconnect \/ HandleConnected \/ Announce \/ HandleDisconnected
         \/ RelayCommand \/ EchoIo \/ InputChanges
         \/ UNCHANGED vars
  BY DEF Next, Manager, Handler, Distant, Inward
-----------------------------------------------------------------------------
(* Type correctness.                                                       *)

\* The flags a step sets to the truth of a statement.
LEMMA FlagTypes ==
  /\ TypeOK /\ TakeEdge => excused' \in BOOLEAN
  /\ TypeOK /\ TellInputs => {excused', stale'} \subseteq BOOLEAN
  /\ TypeOK /\ EchoIo => excused' \in BOOLEAN
  /\ RelayCommand => stale' \in BOOLEAN
<1>1. \A x, y : (x = y) \in BOOLEAN
  OBVIOUS
<1>2. TypeOK => {excused, stale} \subseteq BOOLEAN
  BY DEF TypeOK
<1>3. TypeOK /\ TakeEdge => excused' \in BOOLEAN
  BY <1>2, Zenon DEF TakeEdge
<1>4. TypeOK /\ TellInputs => excused' \in BOOLEAN /\ stale' \in BOOLEAN
  BY <1>1, <1>2, Zenon DEF TellInputs
<1>5. TypeOK /\ EchoIo => excused' \in BOOLEAN
  BY <1>1, <1>2, Zenon DEF EchoIo
<1>6. RelayCommand => stale' \in BOOLEAN
  BY <1>1, Zenon DEF RelayCommand
<1> QED BY <1>3, <1>4, <1>5, <1>6

LEMMA OvertakeType ==
  ASSUME NEW told \in {"none", "right", "wrong"}
  PROVE  /\ Overtake(told) \subseteq {"none", "right", "wrong"}
         /\ told # "none" => Overtake(told) \subseteq {"right", "wrong"}
  BY DEF Overtake

LEMMA TypeInit == Init => TypeOK
  BY DEF Init, TypeOK, PCs

\* The two halves of the type invariant, which the provers follow one at a time.
Flags == {queue, connected, first, due, standBack, edge, report, stale, excused} \subseteq BOOLEAN

Kinds ==
    /\ asking \subseteq Operators /\ applied \in {"none", "old", "current"}
    /\ pc \in PCs /\ stage \in {"gate", "leaving", "loop"}
    /\ client \in {"none", "offline", "online"}
    /\ news \in {"none", "connected", "announce", "disconnected", "echo"}
    /\ (news # "none" => client # "none")
    /\ ioTold \in {"none", "right", "wrong"} /\ echo \in {"right", "wrong"}
    /\ ota \in OtaStates
    /\ lastOta \in OtaStates \cup {Never} /\ otaTold \in OtaStates \cup {Nothing}

LEMMA Halves == (TypeOK => Flags /\ Kinds) /\ (Flags' /\ Kinds' => TypeOK')
<1>1. TypeOK => Flags /\ Kinds
  BY DEF TypeOK, Flags, Kinds
<1>2. Flags' /\ Kinds' => TypeOK'
  BY DEF TypeOK, Flags, Kinds
<1> QED BY <1>1, <1>2

LEMMA KindsDistant == ASSUME Kinds, Distant PROVE Kinds'
<1>0. UNCHANGED <<pc, stage, link, clock, io>>
  BY DistantLeaves
<1> USE DEF Kinds, link, clock, io, life
<1>1. ASSUME NEW o \in Operators, SaveConfig(o) PROVE Kinds'
  BY <1>0, <1>1 DEF SaveConfig, update
<1>2. ASSUME NEW o \in Operators, RequestApply(o) PROVE Kinds'
  BY <1>0, <1>2 DEF RequestApply, update
<1>3. ASSUME NEW o \in Operators, DropRequest(o) PROVE Kinds'
  BY <1>0, <1>3 DEF DropRequest, update
<1>4. CASE OtaCommand
  BY <1>0, <1>4 DEF OtaCommand, config
<1>5. CASE OtaChanges
  BY <1>0, <1>5 DEF OtaChanges, config
<1> QED BY <1>1, <1>2, <1>3, <1>4, <1>5 DEF Distant

LEMMA FlagsDistant == ASSUME Flags, Distant PROVE Flags'
<1>0. UNCHANGED <<link, clock, io>>
  BY DistantLeaves
<1> USE DEF Flags, link, clock, io
<1>1. ASSUME NEW o \in Operators, SaveConfig(o) PROVE Flags'
  BY <1>0, <1>1 DEF SaveConfig, update
<1>2. ASSUME NEW o \in Operators, RequestApply(o) PROVE Flags'
  BY <1>0, <1>2 DEF RequestApply, update
<1>3. ASSUME NEW o \in Operators, DropRequest(o) PROVE Flags'
  BY <1>0, <1>3 DEF DropRequest, update
<1>4. CASE OtaCommand
  BY <1>0, <1>4 DEF OtaCommand, config
<1>5. CASE OtaChanges
  BY <1>0, <1>5 DEF OtaChanges, config
<1> QED BY <1>1, <1>2, <1>3, <1>4, <1>5 DEF Distant

LEMMA KindsInward == ASSUME Kinds, Inward PROVE Kinds'
<1>0. UNCHANGED <<link, clock, io>>
  BY InwardLeaves
<1> USE DEF Kinds, PCs, link, clock, io, life, config, update
<1>1. CASE LeaveGate
  BY <1>0, <1>1 DEF LeaveGate
<1>2. CASE Serve
  BY <1>0, <1>2 DEF Serve
<1>3. CASE ReadConfig
  BY <1>0, <1>3 DEF ReadConfig
<1>4. CASE BeginPass
  BY <1>0, <1>4 DEF BeginPass
<1>5. CASE PassOffline
  BY <1>0, <1>5 DEF PassOffline
<1>6. CASE SampleOta
  BY <1>0, <1>6 DEF SampleOta
<1>7. CASE ReportOta
  BY <1>0, <1>7 DEF ReportOta
<1> QED BY <1>1, <1>2, <1>3, <1>4, <1>5, <1>6, <1>7 DEF Inward

LEMMA FlagsInward == ASSUME Flags, Inward PROVE Flags'
<1>0. UNCHANGED <<link, clock, io>>
  BY InwardLeaves
<1> USE DEF Flags, link, clock, io, life, config, update
<1>1. CASE LeaveGate
  BY <1>0, <1>1 DEF LeaveGate
<1>2. CASE Serve
  BY <1>0, <1>2 DEF Serve
<1>3. CASE ReadConfig
  BY <1>0, <1>3 DEF ReadConfig
<1>4. CASE BeginPass
  BY <1>0, <1>4 DEF BeginPass
<1>5. CASE PassOffline
  BY <1>0, <1>5 DEF PassOffline
<1>6. CASE SampleOta
  BY <1>0, <1>6 DEF SampleOta
<1>7. CASE ReportOta
  BY <1>0, <1>7 DEF ReportOta
<1> QED BY <1>1, <1>2, <1>3, <1>4, <1>5, <1>6, <1>7 DEF Inward

LEMMA KindsStep == ASSUME TypeOK, Kinds, [Next]_vars PROVE Kinds'
<1> USE DEF Kinds, PCs, link, clock, io, life, config, update
<1>1. CASE Stop
  BY <1>1 DEF Stop
<1>2. CASE StopDone
  BY <1>2 DEF StopDone
<1>3. CASE StartClient
  BY <1>3 DEF StartClient, AfterApply
<1>4. CASE StartFails
  BY <1>4 DEF StartFails, AfterApply
<1>5. CASE PassOnline
  BY <1>5 DEF PassOnline
<1>6. CASE TakeEdge
  <2>1. pc' \in {"io", "ota"} /\ UNCHANGED <<config, life, link, ioTold, echo, update>>
    BY <1>6 DEF TakeEdge
  <2> QED BY <2>1
<1>7. CASE PublishIo
  BY <1>7 DEF PublishIo, TellInputs, Lines
<1>8. CASE EndPass
  BY <1>8 DEF EndPass, TellInputs, Lines
<1>9. CASE Connect
  BY <1>9 DEF Connect
<1>10. CASE Disconnect
  BY <1>10 DEF Disconnect
<1>11. CASE HandleConnected
  BY <1>11 DEF HandleConnected
<1>12. CASE Announce
  BY <1>12 DEF Announce
<1>13. CASE HandleDisconnected
  BY <1>13 DEF HandleDisconnected
<1>14. CASE RelayCommand
  BY <1>14 DEF RelayCommand, Lines
<1>15. CASE EchoIo
  <2>1. news' = "none" /\ ioTold' = echo /\ echo' = "right" /\ UNCHANGED <<config, pc, life, client, update>>
    BY <1>15 DEF EchoIo
  <2> QED BY <2>1
<1>16. CASE InputChanges
  BY <1>16, OvertakeType DEF InputChanges
<1>17. CASE UNCHANGED vars
  BY <1>17 DEF vars
<1> QED
  BY <1>1, <1>2, <1>3, <1>4, <1>5, <1>6, <1>7, <1>8, <1>9, <1>10, <1>11, <1>12, <1>13,
     <1>14, <1>15, <1>16, <1>17, Steps, KindsDistant, KindsInward

LEMMA FlagsStep == ASSUME TypeOK, Flags, [Next]_vars PROVE Flags'
<1>0. /\ TakeEdge \/ EchoIo => excused' \in BOOLEAN
      /\ TellInputs => {excused', stale'} \subseteq BOOLEAN
      /\ RelayCommand => stale' \in BOOLEAN
  BY FlagTypes
<1> USE DEF Flags, link, clock, io, life, config, update
<1>1. CASE Stop
  BY <1>1 DEF Stop
<1>2. CASE StopDone
  BY <1>2 DEF StopDone
<1>3. CASE StartClient
  BY <1>3 DEF StartClient, AfterApply
<1>4. CASE StartFails
  BY <1>4 DEF StartFails, AfterApply
<1>5. CASE PassOnline
  BY <1>5 DEF PassOnline
<1>6. CASE TakeEdge
  <2>1. edge' = FALSE /\ UNCHANGED <<config, life, link, clock, stale, update>>
    BY <1>6, Zenon DEF TakeEdge
  <2> QED BY <1>0, <1>6, <2>1
<1>7. CASE PublishIo
  BY <1>0, <1>7 DEF PublishIo
<1>8. CASE EndPass
  BY <1>0, <1>8 DEF EndPass
<1>9. CASE Connect
  BY <1>9 DEF Connect
<1>10. CASE Disconnect
  BY <1>10 DEF Disconnect
<1>11. CASE HandleConnected
  BY <1>11 DEF HandleConnected
<1>12. CASE Announce
  BY <1>12 DEF Announce
<1>13. CASE HandleDisconnected
  BY <1>13 DEF HandleDisconnected
<1>14. CASE RelayCommand
  <2>1. UNCHANGED <<config, life, connected, clock, edge, excused, update>>
    BY <1>14, Zenon DEF RelayCommand
  <2> QED BY <1>0, <1>14, <2>1
<1>15. CASE EchoIo
  <2>1. stale' = FALSE /\ UNCHANGED <<config, life, connected, clock, edge, update>>
    BY <1>15, Zenon DEF EchoIo
  <2> QED BY <1>0, <1>15, <2>1
<1>16. CASE InputChanges
  BY <1>16 DEF InputChanges
<1>17. CASE UNCHANGED vars
  BY <1>17 DEF vars
<1> QED
  BY <1>1, <1>2, <1>3, <1>4, <1>5, <1>6, <1>7, <1>8, <1>9, <1>10, <1>11, <1>12, <1>13,
     <1>14, <1>15, <1>16, <1>17, Steps, FlagsDistant, FlagsInward

LEMMA TypeStep == TypeOK /\ [Next]_vars => TypeOK'
BY Halves, KindsStep, FlagsStep

\* The types of the client's manager, for any operators and states of an update.
THEOREM MqttTypeCorrect == Spec => []TypeOK
  BY TypeInit, TypeStep, PTL DEF Spec
-----------------------------------------------------------------------------
(* The connection.                                                         *)

\* The client, and how far its handler and the manager have come: an event under way
\* is one of the connection there is, and the flag is behind it only until the event is
\* handled, or while the client is being stopped.
LinkInv ==
    /\ client = "none" => news = "none"
    /\ pc \in {"read", "start"} => client = "none" /\ ~connected
    /\ news \in {"connected", "announce", "echo"} => client = "online"
    /\ news = "disconnected" => client = "offline"
    /\ pc # "stopping" =>
         /\ news \in {"announce", "echo"} => connected
         /\ news = "none" => (connected <=> client = "online")

LEMMA LinkStep == TypeOK /\ LinkInv /\ [Next]_vars => LinkInv'
<1> SUFFICES ASSUME TypeOK, LinkInv, [Next]_vars PROVE LinkInv'
  OBVIOUS
<1>0. /\ connected \in BOOLEAN /\ client \in {"none", "offline", "online"}
      /\ news \in {"none", "connected", "announce", "disconnected", "echo"}
  BY DEF TypeOK
<1> USE DEF LinkInv, link
<1>1. ASSUME UNCHANGED link, pc' \in {"read", "start", "stopping"} => pc' = pc,
             pc = "stopping" => pc' = pc
      PROVE  LinkInv'
  BY <1>1
<1>2. CASE Distant
  BY <1>1, <1>2, DistantLeaves
<1>3. CASE LeaveGate \/ Serve \/ BeginPass \/ PassOffline \/ SampleOta \/ ReportOta
  BY <1>1, <1>3 DEF LeaveGate, Serve, BeginPass, PassOffline, SampleOta, ReportOta
<1>4. CASE ReadConfig
  BY <1>4 DEF ReadConfig
<1>5. CASE PassOnline \/ TakeEdge \/ PublishIo \/ EndPass
  BY <1>1, <1>5 DEF PassOnline, TakeEdge, PublishIo, EndPass
<1>6. CASE Stop
  BY <1>0, <1>6 DEF Stop
<1>7. CASE StopDone
  BY <1>7 DEF StopDone
<1>8. CASE StartClient
  BY <1>0, <1>8 DEF StartClient, AfterApply
<1>9. CASE StartFails
  BY <1>0, <1>9 DEF StartFails, AfterApply
<1>10. CASE Connect
  BY <1>0, <1>10 DEF Connect
<1>11. CASE Disconnect
  BY <1>0, <1>11 DEF Disconnect
<1>12. CASE HandleConnected
  BY <1>0, <1>12 DEF HandleConnected
<1>13. CASE Announce
  BY <1>0, <1>13 DEF Announce
<1>14. CASE HandleDisconnected
  BY <1>0, <1>14 DEF HandleDisconnected
<1>15. CASE RelayCommand
  BY <1>0, <1>15 DEF RelayCommand
<1>16. CASE EchoIo
  BY <1>0, <1>16 DEF EchoIo
<1>17. CASE InputChanges
  BY <1>1, <1>17 DEF InputChanges
<1>18. CASE UNCHANGED vars
  BY <1>1, <1>18 DEF vars
<1> QED
  BY <1>2, <1>3, <1>4, <1>5, <1>6, <1>7, <1>8, <1>9, <1>10, <1>11, <1>12, <1>13,
     <1>14, <1>15, <1>16, <1>17, <1>18, Steps DEF Inward

\* However clients come and go under the events of their connections, s_connected says
\* whether the client is online once the handler has nothing left to do.
THEOREM ConnectedCorrect == Spec => []ConnectedIsTrue
<1>1. Init => LinkInv
  BY DEF Init, LinkInv
<1>2. LinkInv => ConnectedIsTrue
  BY DEF LinkInv, ConnectedIsTrue
<1> QED BY <1>1, <1>2, MqttTypeCorrect, LinkStep, PTL DEF Spec
-----------------------------------------------------------------------------
(* The inputs.                                                             *)

\* The pass of the manager.
Passing == {"edge", "io", "ota", "report", "periodic"}

PassInv ==
    /\ pc \in Passing => (first => due)
    /\ pc \notin Passing => ~due /\ ~standBack
    /\ pc = "io" => ~due /\ ~standBack

\* What is wrong about the inputs will be told again, or the property excuses it.
Owed ==
    \/ edge
    \/ pc = "io"
    \/ due /\ ~standBack
    \/ excused

\* What the broker has been handed, and what an answer under way is about to hand it.
ToldInv ==
    /\ client # "none" /\ ~first => ioTold = "right" \/ Owed
    /\ news = "echo" => echo = "right" \/ stale \/ Owed

LEMMA PassStep == TypeOK /\ PassInv /\ [Next]_vars => PassInv'
<1> SUFFICES ASSUME TypeOK, PassInv, [Next]_vars PROVE PassInv'
  OBVIOUS
<1> USE DEF PassInv, Passing, clock
<1>1. CASE Distant
  BY <1>1, DistantLeaves
<1>2. CASE Inward
  <2>1. \/ pc' \in {"wait", "stop", "start", "pass"} /\ pc \notin Passing
        \/ pc' \in {"report", "periodic"} /\ pc \in Passing \ {"io"}
    BY <1>2 DEF Inward, LeaveGate, Serve, ReadConfig, BeginPass, PassOffline, SampleOta, ReportOta
  <2> QED BY <1>2, <2>1, InwardLeaves
<1>3. CASE Stop
  BY <1>3 DEF Stop
<1>4. CASE StopDone
  BY <1>4 DEF StopDone
<1>5. CASE StartClient \/ StartFails
  BY <1>5 DEF StartClient, StartFails, AfterApply
<1>6. CASE PassOnline
  BY <1>6 DEF PassOnline
<1>7. CASE TakeEdge
  BY <1>7 DEF TakeEdge
<1>8. CASE PublishIo
  BY <1>8 DEF PublishIo
<1>9. CASE EndPass
  BY <1>9 DEF EndPass
<1>10. CASE Connect \/ Disconnect \/ HandleConnected \/ Announce \/ HandleDisconnected
            \/ RelayCommand \/ EchoIo \/ InputChanges
  BY <1>10 DEF Connect, Disconnect, HandleConnected, Announce, HandleDisconnected,
               RelayCommand, EchoIo, InputChanges
<1>11. CASE UNCHANGED vars
  BY <1>11 DEF vars
<1> QED BY <1>1, <1>2, <1>3, <1>4, <1>5, <1>6, <1>7, <1>8, <1>9, <1>10, <1>11, Steps

\* What the manager tells is right, or excused until it tells it again; and an answer
\* that is still under way is stale.
LEMMA Telling ==
  ASSUME TellInputs, UNCHANGED news
  PROVE  /\ ioTold' = "right" \/ excused'
         /\ news' = "echo" => stale'
<1>1. ioTold' \in Lines /\ (ioTold' = "wrong" => excused')
  BY Zenon DEF TellInputs
<1>2. news' = "echo" => stale'
  BY Zenon DEF TellInputs
<1> QED BY <1>1, <1>2 DEF Lines

LEMMA ToldStep == TypeOK /\ LinkInv /\ PassInv /\ ToldInv /\ [Next]_vars => ToldInv'
<1> SUFFICES ASSUME TypeOK, LinkInv, PassInv, ToldInv, [Next]_vars PROVE ToldInv'
  OBVIOUS
<1> USE DEF ToldInv, Owed
<1>1. ASSUME UNCHANGED <<client, news, first, due, standBack, io>>, pc # "io"
      PROVE  ToldInv'
  BY <1>1 DEF io
<1>2. ASSUME UNCHANGED <<pc, clock, io>>, client' # "none" => client # "none",
             news' = "echo" => news = "echo"
      PROVE  ToldInv'
  BY <1>2 DEF clock, io
<1>3. CASE Distant
  BY <1>2, <1>3, DistantLeaves DEF link
<1>4. CASE Inward
  <2>1. pc # "io"
    BY <1>4 DEF Inward, LeaveGate, Serve, ReadConfig, BeginPass, PassOffline, SampleOta, ReportOta
  <2> QED BY <1>1, <1>4, <2>1, InwardLeaves DEF link, clock
<1>5. CASE Stop
  BY <1>1, <1>5 DEF Stop, clock
<1>6. CASE StopDone
  BY <1>6 DEF StopDone
<1>7. CASE StartClient
  <2>1. news' = "none" /\ first' = TRUE
    BY <1>7 DEF StartClient, AfterApply, LinkInv
  <2> QED BY <2>1
<1>8. CASE StartFails
  <2>1. news' = "none" /\ first' = TRUE
    BY <1>8 DEF StartFails, AfterApply, LinkInv
  <2> QED BY <2>1
<1>9. CASE PassOnline
  <2>1. /\ ~due /\ ~standBack /\ pc # "io"
        /\ UNCHANGED <<client, news, first, io>>
    BY <1>9 DEF PassOnline, PassInv, Passing, link
  <2> QED BY <2>1 DEF io
<1>10. CASE TakeEdge
  <2>1. /\ UNCHANGED <<client, news, first, due, standBack, ioTold, echo, stale>> /\ pc = "edge"
        /\ edge /\ ~due /\ ~standBack => pc' = "io"
    BY <1>10 DEF TakeEdge, link, clock
  <2>2. excused \/ (edge /\ standBack) => excused'
    BY <1>10, Zenon DEF TakeEdge
  <2> QED BY <2>1, <2>2
<1>11. CASE PublishIo
  <2>1. TellInputs /\ UNCHANGED news
    BY <1>11 DEF PublishIo, link
  <2> QED BY <2>1, Telling
<1>12. CASE EndPass
  <2>1. CASE due /\ ~standBack
    <3>1. TellInputs /\ UNCHANGED news
      BY <1>12, <2>1 DEF EndPass, link
    <3> QED BY <3>1, Telling
  <2>2. CASE ~(due /\ ~standBack)
    <3>1. pc = "periodic" /\ UNCHANGED <<client, news, first, io>>
      BY <1>12, <2>2 DEF EndPass, link, io
    <3> QED BY <2>2, <3>1 DEF io
  <2> QED BY <2>1, <2>2
<1>13. CASE Connect
  BY <1>2, <1>13 DEF Connect
<1>14. CASE Disconnect
  BY <1>2, <1>14 DEF Disconnect
<1>15. CASE HandleConnected
  BY <1>2, <1>15 DEF HandleConnected
<1>16. CASE Announce
  BY <1>2, <1>16 DEF Announce
<1>17. CASE HandleDisconnected
  BY <1>2, <1>17 DEF HandleDisconnected
<1>18. CASE RelayCommand
  <2>1. echo' \in Lines /\ (echo' = "wrong" => stale')
    BY <1>18, Zenon DEF RelayCommand
  <2> QED BY <1>18, <2>1 DEF RelayCommand, clock, Lines
<1>19. CASE EchoIo
  <2>1. /\ news = "echo" /\ news' = "none" /\ ioTold' = echo
        /\ UNCHANGED <<pc, client, clock, edge>>
    BY <1>19 DEF EchoIo
  <2>2. echo = "right" \/ ~stale \/ excused'
    <3>1. stale /\ echo = "wrong" => excused'
      BY <1>19, Zenon DEF EchoIo
    <3> QED BY <3>1 DEF TypeOK
  <2>3. excused => excused'
    BY <1>19, Zenon DEF EchoIo
  <2> QED BY <2>1, <2>2, <2>3 DEF clock
<1>20. CASE InputChanges
  BY <1>20 DEF InputChanges
<1>21. CASE UNCHANGED vars
  BY <1>2, <1>21 DEF vars, link
<1> QED
  BY <1>3, <1>4, <1>5, <1>6, <1>7, <1>8, <1>9, <1>10, <1>11, <1>12, <1>13, <1>14, <1>15,
     <1>16, <1>17, <1>18, <1>19, <1>20, <1>21, Steps

\* Between the passes the broker has been handed the inputs as they are, or will be again,
\* wherever in a pass the edges, the answers to commands and new clients have come; what
\* the property excuses lasts no longer than to the manager's next message.
THEOREM InputsAreTold == Spec => []IoIsTold
<1>1. Init => LinkInv /\ PassInv /\ ToldInv
  BY DEF Init, LinkInv, PassInv, Passing, ToldInv
<1>2. PassInv /\ ToldInv => IoIsTold
  BY DEF PassInv, Passing, ToldInv, Owed, IoIsTold
<1> QED BY <1>1, <1>2, MqttTypeCorrect, LinkStep, PassStep, ToldStep, PTL DEF Spec
=============================================================================
