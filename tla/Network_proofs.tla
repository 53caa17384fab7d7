--------------------------- MODULE Network_proofs ---------------------------
(* Proofs about Network, for every value of its constants.                 *)
EXTENDS Network, SequenceTheorems, TLAPS

Event == {"lost", "got ip"}
Radio == {"idle", "connecting", "ip"}

\* What the bit of the handler will say when it has caught up: the last event on its
\* way decides, and with none the bit as it stands.
Heard == IF events = <<>> THEN gotIp = TRUE ELSE events[Len(events)] = "got ip"

\* It will say that there is an address exactly while there is one.
RadioHeard == (radio = "ip") <=> Heard

NetInv == TypeOK /\ RadioHeard
-----------------------------------------------------------------------------
(* The queue of events.                                                    *)

LEMMA Appended ==
  ASSUME NEW q \in Seq(Event), NEW e \in Event
  PROVE  /\ Append(q, e) \in Seq(Event) /\ Append(q, e) # <<>>
         /\ Len(Append(q, e)) = Len(q) + 1
         /\ Append(q, e)[Len(Append(q, e))] = e
  OBVIOUS

LEMMA Popped ==
  ASSUME NEW q \in Seq(Event), q # <<>>
  PROVE  /\ Tail(q) \in Seq(Event) /\ Len(Tail(q)) = Len(q) - 1
         /\ Head(q) \in Event
         /\ Tail(q) = <<>> => Head(q) = q[Len(q)]
         /\ Tail(q) # <<>> => Tail(q)[Len(Tail(q))] = q[Len(q)]
<1>1. PICK n \in Nat \ {0} : n = Len(q)
  BY EmptySeq
<1>2. PICK k \in Nat : k = Len(Tail(q)) /\ k = n - 1
  BY <1>1
<1>3. /\ Tail(q) \in Seq(Event)
      /\ Tail(q) = <<>> <=> k = 0
      /\ \A i \in 1..k : Tail(q)[i] = q[i + 1]
      /\ Head(q) = q[1] /\ q[1] \in Event
  <2>1. Tail(q) \in Seq(Event)
    BY <1>1
  <2>2. Tail(q) = <<>> <=> k = 0
    BY <2>1, <1>2, EmptySeq
  <2>3. \A i \in 1..k : Tail(q)[i] = q[i + 1]
    BY <1>1, <1>2
  <2>4. Head(q) = q[1] /\ q[1] \in Event
    BY <1>1
  <2> QED
    BY <2>1, <2>2, <2>3, <2>4
<1> HIDE DEF Event
<1>4. k # 0 => k \in 1..k /\ k + 1 = n
  BY <1>2
<1>5. k = 0 => n = 1
  BY <1>2
<1> QED
  BY <1>1, <1>2, <1>3, <1>4, <1>5
-----------------------------------------------------------------------------
(* What the radio does.                                                    *)

\* The parts of the type invariant a step of the radio may disturb.
AirOK ==
    /\ radio \in Radio
    /\ events \in Seq(Event) /\ Len(events) <= MaxEvents

\* Dropping the station keeps the queue in step with it.
LEMMA Drops ==
  ASSUME AirOK, RadioHeard, RadioDrops, gotIp' = FALSE
  PROVE  AirOK' /\ RadioHeard'
<1>0. Len(events) \in Nat /\ MaxEvents \in Nat /\ events \in Seq(Event)
  BY PollAssumption DEF AirOK
<1>1. CASE radio = "idle"
  BY <1>1 DEF RadioDrops, AirOK, RadioHeard, Heard, Radio
<1>2. CASE radio # "idle"
  <2>1. radio' = "idle" /\ events' = Append(events, "lost") /\ Len(events) < MaxEvents
    BY <1>2 DEF RadioDrops
  <2>2. events' \in Seq(Event) /\ Len(events') = Len(events) + 1
        /\ events' # <<>> /\ events'[Len(events')] = "lost"
    BY <2>1, <1>0, Appended DEF Event
  <2>3. AirOK'
    BY <1>0, <2>1, <2>2 DEF AirOK, Radio
  <2> QED
    BY <2>1, <2>2, <2>3 DEF RadioHeard, Heard
<1> QED
  BY <1>1, <1>2

\* So does asking it to connect, which by itself gives no address.
LEMMA Connects ==
  ASSUME AirOK, RadioHeard, RadioConnects, UNCHANGED <<events, gotIp>>
  PROVE  AirOK' /\ RadioHeard'
  BY DEF RadioConnects, AirOK, RadioHeard, Heard, Radio

LEMMA Silent ==
  ASSUME AirOK, RadioHeard, UNCHANGED <<radio, events, gotIp>>
  PROVE  AirOK' /\ RadioHeard'
  BY DEF AirOK, RadioHeard, Heard
-----------------------------------------------------------------------------
(* The invariant.                                                          *)

\* The rest of the type invariant.
GroundOK ==
    /\ {link, ethIp, creds, gotIp, enabled, ap, web, station, requested} \subseteq BOOLEAN
    /\ status \in [iface : Ifaces, ap : BOOLEAN]
    /\ downFor \in 0..(Debounce + 1) /\ idleFor \in 0..(IdleTimeout + 1)
    /\ pc \in [Tasks -> PCs]

LEMMA TypeParts == TypeOK <=> GroundOK /\ AirOK
  BY DEF TypeOK, GroundOK, AirOK, Event, Radio

LEMMA Bounds == Debounce \in Nat /\ IdleTimeout \in Nat /\ MaxEvents \in Nat
  BY PollAssumption

LEMMA InitOK == Init => NetInv
<1> SUFFICES ASSUME Init PROVE NetInv
  OBVIOUS
<1>1. GroundOK
  <2>1. {link, ethIp, creds, gotIp, enabled, ap, web, station, requested} \subseteq BOOLEAN
    BY DEF Init
  <2>2. status \in [iface : Ifaces, ap : BOOLEAN]
    BY DEF Init, Ifaces
  <2>3. downFor \in 0..(Debounce + 1) /\ idleFor \in 0..(IdleTimeout + 1)
    BY Bounds DEF Init
  <2>4. pc \in [Tasks -> PCs]
    BY DEF Init, PCs
  <2> QED
    BY <2>1, <2>2, <2>3, <2>4 DEF GroundOK
<1>2. AirOK
  BY PollAssumption, EmptySeq DEF Init, AirOK, Radio
<1>3. RadioHeard
  BY DEF Init, RadioHeard, Heard
<1> QED
  BY <1>1, <1>2, <1>3, TypeParts DEF NetInv

\* The network task and the event task are tasks; so are the operators.
LEMMA TaskNames == "net" \in Tasks /\ "events" \in Tasks /\ Operators \subseteq Tasks
  BY DEF Tasks

\* Each timer stays within its bound.
LEMMA Timers ==
  ASSUME GroundOK, NEW n \in 0..(Debounce + 1)
  PROVE  /\ Later(n, Debounce) \in 0..(Debounce + 1)
         /\ DownFor \in 0..(Debounce + 1)
  BY Bounds DEF GroundOK, Later, DownFor

LEMMA TimerOK ==
  ASSUME GroundOK, PortalTimer
  PROVE  idleFor' \in 0..(IdleTimeout + 1) /\ pc' \in [Tasks -> PCs]
<1>1. idleFor' \in 0..(IdleTimeout + 1)
  BY Bounds DEF GroundOK, PortalTimer
<1>2. pc' \in [Tasks -> PCs]
  BY TaskNames DEF GroundOK, PortalTimer, Goto, PCs
<1> QED
  BY <1>1, <1>2

\* Every step preserves the types of everything but the queue and the radio ...
LEMMA GroundStep == GroundOK /\ [Next]_vars => GroundOK'
<1> SUFFICES ASSUME GroundOK, [Next]_vars PROVE GroundOK'
  OBVIOUS
<1> USE TaskNames DEF GroundOK
<1>1. CASE LinkUp
  BY <1>1 DEF LinkUp, cable, air, sta, portal, poll
<1>2. CASE EthGotIp
  BY <1>2 DEF EthGotIp, cable, air, sta, portal, poll
<1>3. CASE LinkDown
  BY <1>3 DEF LinkDown, cable, air, sta, portal, poll
<1>4. CASE StationChanges
  BY <1>4 DEF StationChanges, cable, air, sta, portal, poll
<1>5. CASE Associate
  BY <1>5 DEF Associate, cable, air, sta, portal, poll
<1>6. CASE Lose
  BY <1>6 DEF Lose, cable, air, sta, portal, poll
<1>7. CASE HandleGotIp
  BY <1>7 DEF HandleGotIp, cable, air, sta, portal, poll
<1>8. CASE HandleLost
  BY <1>8 DEF HandleLost, cable, air, sta, portal, poll, Goto, PCs
<1>9. ASSUME NEW t \in Tasks, Reconnect(t) PROVE GroundOK'
  BY <1>9 DEF Reconnect, cable, air, sta, portal, poll, Goto, PCs
<1>10. CASE UseEthernet
  <2>1. idleFor' \in 0..(IdleTimeout + 1) /\ pc' \in [Tasks -> PCs]
    BY <1>10, TimerOK DEF UseEthernet
  <2>2. downFor' \in 0..(Debounce + 1)
    BY <1>10, Bounds DEF UseEthernet
  <2>3. status' \in [iface : Ifaces, ap : BOOLEAN]
    BY <1>10 DEF UseEthernet, Ifaces
  <2> QED
    BY <1>10, <2>1, <2>2, <2>3 DEF UseEthernet, cable, sta, portal, DropStation
<1>11. CASE AwaitEthernet
  BY <1>11, Timers, TimerOK DEF AwaitEthernet, cable, air, sta, portal, poll, Goto, PCs, Ifaces
<1>12. CASE EnableStation
  BY <1>12 DEF EnableStation, cable, air, sta, portal, poll, Goto, PCs
<1>13. CASE RequestStation
  BY <1>13, TimerOK DEF RequestStation, cable, air, sta, portal, poll, Goto, PCs
<1>14. CASE UseStation
  BY <1>14, Timers, TimerOK DEF UseStation, cable, air, sta, portal, poll, Goto, PCs, Ifaces
<1>15. ASSUME NEW o \in Operators, OpenPortal(o) PROVE GroundOK'
  BY <1>15 DEF OpenPortal, cable, air, sta, portal, poll, DropStation, Goto, PCs
<1>16. ASSUME NEW o \in Operators, RaiseAp(o) PROVE GroundOK'
  BY <1>16 DEF RaiseAp, cable, air, sta, portal, poll, Goto, PCs
<1>17. ASSUME NEW o \in Operators, RaiseApFails(o) PROVE GroundOK'
  BY <1>17 DEF RaiseApFails, cable, air, sta, portal, poll, Goto, PCs
<1>18. ASSUME NEW o \in Operators, StartWebFails(o) PROVE GroundOK'
  BY <1>18 DEF StartWebFails, cable, air, sta, portal, poll, Goto, PCs
<1>19. ASSUME NEW o \in Operators, AnnouncePortal(o) PROVE GroundOK'
  BY <1>19 DEF AnnouncePortal, cable, air, sta, portal, poll, Goto, PCs
<1>20. ASSUME NEW o \in Operators, ClosePortal(o) PROVE GroundOK'
  BY <1>20 DEF ClosePortal, cable, air, sta, portal, poll, Goto, PCs
<1>21. ASSUME NEW t \in Tasks, StopWeb(t) PROVE GroundOK'
  BY <1>21 DEF StopWeb, cable, air, sta, portal, poll, Goto, PCs
<1>22. ASSUME NEW t \in Tasks, StopAp(t) PROVE GroundOK'
  BY <1>22 DEF StopAp, cable, air, sta, portal, poll, Goto, PCs
<1>23. ASSUME NEW t \in Tasks, StopApFails(t) PROVE GroundOK'
  BY <1>23 DEF StopApFails, cable, air, sta, portal, poll, Goto, PCs
<1>24. ASSUME NEW t \in Tasks, WithdrawPortal(t) PROVE GroundOK'
  BY <1>24 DEF WithdrawPortal, cable, air, sta, portal, poll, Goto, PCs
<1>25. ASSUME NEW o \in Operators, ApplyCredentials(o) PROVE GroundOK'
  BY <1>25 DEF ApplyCredentials, cable, air, sta, portal, poll, Goto, PCs
<1>26. ASSUME NEW o \in Operators, ApplyDrops(o) PROVE GroundOK'
  BY <1>26 DEF ApplyDrops, cable, air, sta, portal, poll, DropStation, Goto, PCs
<1>27. ASSUME NEW o \in Operators, ApplyEnables(o) PROVE GroundOK'
  BY <1>27 DEF ApplyEnables, cable, air, sta, portal, poll, Goto, PCs
<1>28. CASE UNCHANGED vars
  BY <1>28 DEF vars, cable, air, sta, portal, poll
<1> QED
  BY <1>1, <1>2, <1>3, <1>4, <1>5, <1>6, <1>7, <1>8, <1>9, <1>10, <1>11, <1>12,
     <1>13, <1>14, <1>15, <1>16, <1>17, <1>18, <1>19, <1>20, <1>21, <1>22, <1>23, <1>24,
     <1>25, <1>26, <1>27, <1>28 DEF Next

\* ... and every step keeps the queue in step with the radio.
LEMMA AirStep == NetInv /\ [Next]_vars => AirOK' /\ RadioHeard'
<1> SUFFICES ASSUME NetInv, [Next]_vars PROVE AirOK' /\ RadioHeard'
  OBVIOUS
<1>0. AirOK /\ RadioHeard /\ gotIp \in BOOLEAN
  BY TypeParts DEF NetInv, GroundOK
<1>q. events \in Seq(Event) /\ Len(events) \in Nat /\ MaxEvents \in Nat
  BY <1>0, Bounds DEF AirOK
<1>1. CASE LinkUp
  BY <1>0, <1>1, Silent DEF LinkUp, air, sta
<1>2. CASE EthGotIp
  BY <1>0, <1>2, Silent DEF EthGotIp, air, sta
<1>3. CASE LinkDown
  BY <1>0, <1>3, Silent DEF LinkDown, air, sta
<1>4. CASE StationChanges
  BY <1>0, <1>4, Silent DEF StationChanges, air, sta
<1>5. CASE Associate
  <2>1. radio' = "ip" /\ events' = Append(events, "got ip") /\ Len(events) < MaxEvents
    BY <1>5 DEF Associate
  <2>2. events' \in Seq(Event) /\ events' # <<>> /\ events'[Len(events')] = "got ip"
    BY <2>1, <1>q, Appended DEF Event
  <2>3. Len(events') <= MaxEvents
    <3>1. Len(events') = Len(events) + 1
      BY <1>q, <2>1, Appended DEF Event
    <3>2. Len(events) < MaxEvents
      BY <2>1
    <3> QED
      BY <1>q, <3>1, <3>2
  <2>4. AirOK'
    BY <2>1, <2>2, <2>3 DEF AirOK, Radio
  <2> QED
    BY <2>1, <2>2, <2>4 DEF RadioHeard, Heard
<1>6. CASE Lose
  <2>1. radio' = "idle" /\ events' = Append(events, "lost") /\ Len(events) < MaxEvents
    BY <1>6 DEF Lose
  <2>2. events' \in Seq(Event) /\ events' # <<>> /\ events'[Len(events')] = "lost"
    BY <2>1, <1>q, Appended DEF Event
  <2>3. Len(events') <= MaxEvents
    <3>1. Len(events') = Len(events) + 1
      BY <1>q, <2>1, Appended DEF Event
    <3>2. Len(events) < MaxEvents
      BY <2>1
    <3> QED
      BY <1>q, <3>1, <3>2
  <2>4. AirOK'
    BY <2>1, <2>2, <2>3 DEF AirOK, Radio
  <2> QED
    BY <2>1, <2>2, <2>4 DEF RadioHeard, Heard
<1>7. CASE HandleGotIp
  <2>1. /\ events # <<>> /\ Head(events) = "got ip" /\ events' = Tail(events)
        /\ gotIp' = TRUE /\ radio' = radio
    BY <1>7 DEF HandleGotIp
  <2>2. /\ events' \in Seq(Event)
        /\ events' = <<>> => events[Len(events)] = "got ip"
        /\ events' # <<>> => events'[Len(events')] = events[Len(events)]
    BY <2>1, <1>q, Popped
  <2>3. AirOK'
    <3>1. Len(events) <= MaxEvents
      BY <1>0 DEF AirOK
    <3>2. Len(events') = Len(events) - 1
      BY <2>1, <1>q, Popped
    <3>3. Len(events') <= MaxEvents
      BY <3>1, <3>2, <1>q
    <3> QED
      BY <1>0, <2>1, <2>2, <3>3 DEF AirOK
  <2>4. Heard' <=> Heard
    BY <2>1, <2>2 DEF Heard
  <2> QED
    BY <1>0, <2>1, <2>3, <2>4 DEF RadioHeard
<1>8. CASE HandleLost
  <2>1. /\ events # <<>> /\ Head(events) = "lost" /\ events' = Tail(events)
        /\ gotIp' = FALSE /\ radio' = radio
    BY <1>8 DEF HandleLost
  <2>2. /\ events' \in Seq(Event)
        /\ events' = <<>> => events[Len(events)] = "lost"
        /\ events' # <<>> => events'[Len(events')] = events[Len(events)]
    BY <2>1, <1>q, Popped
  <2>3. AirOK'
    <3>1. Len(events) <= MaxEvents
      BY <1>0 DEF AirOK
    <3>2. Len(events') = Len(events) - 1
      BY <2>1, <1>q, Popped
    <3>3. Len(events') <= MaxEvents
      BY <3>1, <3>2, <1>q
    <3> QED
      BY <1>0, <2>1, <2>2, <3>3 DEF AirOK
  <2>4. Heard' <=> Heard
    BY <2>1, <2>2 DEF Heard
  <2> QED
    BY <1>0, <2>1, <2>3, <2>4 DEF RadioHeard
<1>9. ASSUME NEW t \in Tasks, Reconnect(t) PROVE AirOK' /\ RadioHeard'
  BY <1>0, <1>9, Connects DEF Reconnect, sta
<1>10. CASE UseEthernet
  <2>1. CASE UNCHANGED <<radio, events, gotIp>>
    BY <1>0, <2>1, Silent
  <2>2. CASE DropStation
    BY <1>0, <2>2, Drops DEF DropStation
  <2> QED
    BY <1>10, <2>1, <2>2 DEF UseEthernet, sta
<1>11. CASE AwaitEthernet
  BY <1>0, <1>11, Silent DEF AwaitEthernet, air, sta
<1>12. CASE EnableStation
  BY <1>0, <1>12, Silent DEF EnableStation, air, sta
<1>13. CASE RequestStation
  BY <1>0, <1>13, Connects DEF RequestStation, sta
<1>14. CASE UseStation
  BY <1>0, <1>14, Silent DEF UseStation, air, sta
<1>15. ASSUME NEW o \in Operators, OpenPortal(o) PROVE AirOK' /\ RadioHeard'
  <2>1. CASE UNCHANGED <<radio, events, gotIp>>
    BY <1>0, <2>1, Silent
  <2>2. CASE DropStation
    BY <1>0, <2>2, Drops DEF DropStation
  <2> QED
    BY <1>15, <2>1, <2>2 DEF OpenPortal, sta
<1>16. ASSUME NEW o \in Operators, RaiseAp(o) PROVE AirOK' /\ RadioHeard'
  BY <1>0, <1>16, Silent DEF RaiseAp, air, sta
<1>17. ASSUME NEW o \in Operators, RaiseApFails(o) PROVE AirOK' /\ RadioHeard'
  BY <1>0, <1>17, Silent DEF RaiseApFails, air, sta
<1>18. ASSUME NEW o \in Operators, StartWebFails(o) PROVE AirOK' /\ RadioHeard'
  BY <1>0, <1>18, Silent DEF StartWebFails, air, sta
<1>19. ASSUME NEW o \in Operators, AnnouncePortal(o) PROVE AirOK' /\ RadioHeard'
  BY <1>0, <1>19, Silent DEF AnnouncePortal, air, sta
<1>20. ASSUME NEW o \in Operators, ClosePortal(o) PROVE AirOK' /\ RadioHeard'
  BY <1>0, <1>20, Silent DEF ClosePortal, air, sta
<1>21. ASSUME NEW t \in Tasks, StopWeb(t) PROVE AirOK' /\ RadioHeard'
  BY <1>0, <1>21, Silent DEF StopWeb, air, sta
<1>22. ASSUME NEW t \in Tasks, StopAp(t) PROVE AirOK' /\ RadioHeard'
  BY <1>0, <1>22, Silent DEF StopAp, air, sta
<1>23. ASSUME NEW t \in Tasks, StopApFails(t) PROVE AirOK' /\ RadioHeard'
  BY <1>0, <1>23, Silent DEF StopApFails, air, sta
<1>24. ASSUME NEW t \in Tasks, WithdrawPortal(t) PROVE AirOK' /\ RadioHeard'
  BY <1>0, <1>24, Silent DEF WithdrawPortal, air, sta
<1>25. ASSUME NEW o \in Operators, ApplyCredentials(o) PROVE AirOK' /\ RadioHeard'
  BY <1>0, <1>25, Silent DEF ApplyCredentials, sta
<1>26. ASSUME NEW o \in Operators, ApplyDrops(o) PROVE AirOK' /\ RadioHeard'
  <2>1. CASE UNCHANGED <<radio, events, gotIp>>
    BY <1>0, <2>1, Silent
  <2>2. CASE DropStation
    BY <1>0, <2>2, Drops DEF DropStation
  <2> QED
    BY <1>26, <2>1, <2>2 DEF ApplyDrops, sta
<1>27. ASSUME NEW o \in Operators, ApplyEnables(o) PROVE AirOK' /\ RadioHeard'
  BY <1>0, <1>27, Silent DEF ApplyEnables, air, sta
<1>28. CASE UNCHANGED vars
  BY <1>0, <1>28, Silent DEF vars, air, sta
<1> QED
  BY <1>1, <1>2, <1>3, <1>4, <1>5, <1>6, <1>7, <1>8, <1>9, <1>10, <1>11, <1>12,
     <1>13, <1>14, <1>15, <1>16, <1>17, <1>18, <1>19, <1>20, <1>21, <1>22, <1>23, <1>24,
     <1>25, <1>26, <1>27, <1>28 DEF Next

THEOREM NetInvariant == Spec => []NetInv
<1>1. NetInv /\ [Next]_vars => NetInv'
  <2>1. GroundOK' /\ AirOK' => TypeOK'
    BY DEF TypeOK, GroundOK, AirOK, Event, Radio
  <2> QED
    BY <2>1, GroundStep, AirStep, TypeParts DEF NetInv
<1> QED
  BY <1>1, InitOK, PTL DEF Spec
-----------------------------------------------------------------------------
\* The types of the network, for any operators and bounds.
THEOREM NetTypeCorrect == Spec => []TypeOK
<1>1. NetInv => TypeOK
  BY DEF NetInv
<1> QED
  BY <1>1, NetInvariant, PTL

\* However many events are on their way and however many operators interfere, the bit
\* of wifi_manager_sta_has_ip() is set for a station with an address, once the handler
\* has seen its last event ...
THEOREM BitIsSet == Spec => []BitTellsTheTruth
<1>1. NetInv => BitTellsTheTruth
  BY DEF NetInv, RadioHeard, Heard, BitTellsTheTruth
<1> QED
  BY <1>1, NetInvariant, PTL

\* ... and for no other.
THEOREM BitIsCleared == Spec => []BitIsNotStale
<1>1. TypeOK => gotIp \in BOOLEAN
  BY TypeParts DEF GroundOK
<1>2. NetInv => BitIsNotStale
  BY <1>1 DEF NetInv, RadioHeard, Heard, BitIsNotStale
<1> QED
  BY <1>2, NetInvariant, PTL
=============================================================================
