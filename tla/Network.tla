------------------------------- MODULE Network -------------------------------
(***************************************************************************)
(* The data path and the configuration portal: network_manager.c,          *)
(* wifi_manager.c, ethernet_driver.c, and applying Wi-Fi credentials       *)
(* (config_apply.c).                                                       *)
(*                                                                         *)
(* The network task polls: it publishes the interface in use, raises the   *)
(* station when Ethernet has been down for a while, drops it when Ethernet *)
(* is back, and closes a portal nobody visits.  Operators (LCD menu,       *)
(* console) open and close the portal, which is an access point with a web *)
(* server, and apply credentials.  The event task reacts to the radio.     *)
(* None of them waits for another: there is a mutex around s_status alone, *)
(* so what a poll reads and what it does about it are steps of their own.  *)
(*                                                                         *)
(* The radio and the cable are the platform's and the world's.  Time is    *)
(* counted in polls.  The state name, the addresses and the DHCP watchdog  *)
(* are for display and left out.                                           *)
(*                                                                         *)
(* A definition named after the one that follows it (HandleLostKeepsBit    *)
(* before HandleLost) is a broken form of it, put in its place to see a    *)
(* property fail.                                                          *)
(***************************************************************************)
EXTENDS Integers, Sequences

CONSTANTS
    Operators,      \* the tasks that open and close the portal and apply settings
    Debounce,       \* CONFIG_APP_NET_ETH_DOWN_DEBOUNCE_MS, in polls
    IdleTimeout,    \* CONFIG_APP_NET_AP_IDLE_TIMEOUT_MS, in polls
    MaxEvents       \* bound on the events on their way to the handler

ASSUME OperatorAssumption == {"net", "events"} \cap Operators = {}
ASSUME PollAssumption == {Debounce, IdleTimeout} \subseteq Nat /\ MaxEvents \in Nat \ {0}

VARIABLES
    link,       \* s_link_up
    ethIp,      \* ETHERNET_DRIVER_GOT_IP_BIT
    creds,      \* the station configuration of the radio names a network
    radio,      \* what the station side of the radio does
    events,     \* events on their way to wifi_manager_event_handler()
    gotIp,      \* WIFI_MANAGER_STA_GOT_IP_BIT
    enabled,    \* s_sta_enabled
    ap,         \* s_ap_active
    web,        \* s_httpd is not NULL: the portal's web server runs
    station,    \* a client is associated with the access point
    status,     \* s_status: the interface with an address, and ap_active
    requested,  \* sta_requested of the network task
    downFor,    \* polls since eth_down_since_us, 0 when it is 0
    idleFor,    \* polls since ap_idle_since_us, 0 when it is 0
    pc          \* where the network task, the event task and each operator stand

cable == <<link, ethIp>>
air == <<creds, radio, events>>
sta == <<gotIp, enabled>>
portal == <<ap, web, station>>
poll == <<requested, downFor, idleFor>>
vars == <<cable, air, sta, portal, status, poll, pc>>
-----------------------------------------------------------------------------
Ifaces == {"none", "eth", "sta"}
Tasks == {"net", "events"} \cup Operators
PCs == {"idle", "enable", "connect",
        "raise", "announce", "undo", "close", "close ap", "withdraw",
        "drop", "reenable", "reconnect"}

TypeOK ==
    /\ {link, ethIp, creds, gotIp, enabled, ap, web, station, requested} \subseteq BOOLEAN
    /\ radio \in {"idle", "connecting", "ip"}
    /\ events \in Seq({"lost", "got ip"}) /\ Len(events) <= MaxEvents
    /\ status \in [iface : Ifaces, ap : BOOLEAN]
    /\ downFor \in 0..(Debounce + 1) /\ idleFor \in 0..(IdleTimeout + 1)
    /\ pc \in [Tasks -> PCs]

\* wifi_manager_start() has run, the network task is about to poll.
Init ==
    /\ link = FALSE /\ ethIp = FALSE
    /\ creds \in BOOLEAN /\ radio = "idle" /\ events = <<>>
    /\ gotIp = FALSE /\ enabled = FALSE
    /\ ap = FALSE /\ web = FALSE /\ station = FALSE
    /\ status = [iface |-> "none", ap |-> FALSE]
    /\ requested = FALSE /\ downFor = 0 /\ idleFor = 0
    /\ pc = [t \in Tasks |-> "idle"]

Goto(t, p) == pc' = [pc EXCEPT ![t] = p]
-----------------------------------------------------------------------------
(* The cable and the air.                                                  *)

\* ETHERNET_EVENT_CONNECTED.
LinkUp ==
    /\ ~link /\ link' = TRUE
    /\ UNCHANGED <<ethIp, air, sta, portal, status, poll, pc>>

\* IP_EVENT_ETH_GOT_IP.
EthGotIp ==
    /\ link /\ ~ethIp /\ ethIp' = TRUE
    /\ UNCHANGED <<link, air, sta, portal, status, poll, pc>>

\* ETHERNET_EVENT_DISCONNECTED.
LinkDown ==
    /\ link /\ link' = FALSE
    /\ ethIp' = FALSE
    /\ UNCHANGED <<air, sta, portal, status, poll, pc>>

\* A client finds the access point or leaves it.
StationChanges ==
    /\ ap /\ station' = ~station
    /\ UNCHANGED <<cable, air, sta, ap, web, status, poll, pc>>

\* The station associates and is given an address.
Associate ==
    /\ radio = "connecting"
    /\ Len(events) < MaxEvents
    /\ radio' = "ip" /\ events' = Append(events, "got ip")
    /\ UNCHANGED <<cable, creds, sta, portal, status, poll, pc>>

\* The association fails or is lost.
Lose ==
    /\ radio # "idle"
    /\ Len(events) < MaxEvents
    /\ radio' = "idle" /\ events' = Append(events, "lost")
    /\ UNCHANGED <<cable, creds, sta, portal, status, poll, pc>>

\* esp_wifi_disconnect(): dropping a connection is reported like losing it.
RadioDrops ==
    IF radio = "idle" THEN UNCHANGED <<radio, events>>
    ELSE Len(events) < MaxEvents /\ radio' = "idle" /\ events' = Append(events, "lost")

\* esp_wifi_connect(): a connection that exists or is being made stays.
RadioConnects ==
    radio' = IF radio = "idle" /\ creds THEN "connecting" ELSE radio
-----------------------------------------------------------------------------
(* wifi_manager_event_handler().                                           *)

HandleGotIpIfEnabled ==
    /\ pc["events"] = "idle" /\ events # <<>> /\ Head(events) = "got ip"
    /\ events' = Tail(events)
    /\ gotIp' = enabled
    /\ UNCHANGED <<cable, creds, radio, enabled, portal, status, poll, pc>>
HandleGotIp ==
    /\ pc["events"] = "idle" /\ events # <<>> /\ Head(events) = "got ip"
    /\ events' = Tail(events)
    /\ gotIp' = TRUE
    /\ UNCHANGED <<cable, creds, radio, enabled, portal, status, poll, pc>>

HandleLostKeepsBit ==
    /\ pc["events"] = "idle" /\ events # <<>> /\ Head(events) = "lost"
    /\ events' = Tail(events)
    /\ Goto("events", IF enabled THEN "reconnect" ELSE "idle")
    /\ UNCHANGED <<cable, creds, radio, sta, portal, status, poll>>
HandleLost ==
    /\ pc["events"] = "idle" /\ events # <<>> /\ Head(events) = "lost"
    /\ events' = Tail(events)
    /\ gotIp' = FALSE
    /\ Goto("events", IF enabled THEN "reconnect" ELSE "idle")
    /\ UNCHANGED <<cable, creds, radio, enabled, portal, status, poll>>

\* The last call of the handler, and of apply_wifi() on behalf of an operator.
Reconnect(t) ==
    /\ pc[t] = "reconnect"
    /\ RadioConnects
    /\ Goto(t, "idle")
    /\ UNCHANGED <<cable, creds, events, sta, portal, status, poll>>
-----------------------------------------------------------------------------
(* One poll of network_manager_task().                                     *)

\* A timer that runs has been running for one more poll.
Later(n, max) == IF n = 0 \/ n > max THEN n ELSE n + 1

\* The end of a poll: a portal nobody visits is closed.
PortalTimerNeverDue ==
    /\ idleFor' = IF ap /\ ~station THEN 1 ELSE 0
    /\ Goto("net", "idle")
PortalTimer ==
    IF ap /\ ~station /\ idleFor > IdleTimeout
    THEN Goto("net", "close") /\ idleFor' = 0
    ELSE Goto("net", "idle") /\ idleFor' = IF ap /\ ~station THEN idleFor + 1 ELSE 0

\* The request the portal has torn down is forgotten.
RequestedForever == requested
Requested == requested /\ enabled

\* wifi_manager_sta_disconnect()
DropStation == enabled' = FALSE /\ gotIp' = FALSE /\ RadioDrops

\* Ethernet has an address: it is the data path.
UseEthernet ==
    /\ pc["net"] = "idle" /\ ethIp
    /\ IF Requested THEN DropStation ELSE UNCHANGED <<sta, radio, events>>
    /\ requested' = FALSE
    /\ downFor' = 0
    /\ status' = [status EXCEPT !.iface = "eth"]
    /\ PortalTimer
    /\ UNCHANGED <<cable, creds, portal>>

\* No address and no station: how long has the link been down?
DownFor ==
    IF ap THEN Later(downFor, Debounce)
    ELSE IF link THEN 0
    ELSE IF downFor = 0 THEN 1 ELSE Later(downFor, Debounce)

AwaitEthernet ==
    /\ pc["net"] = "idle" /\ ~ethIp /\ ~Requested
    /\ requested' = FALSE
    /\ status' = [status EXCEPT !.iface = "none"]
    /\ downFor' = DownFor
    /\ IF ~ap /\ ~link /\ DownFor > Debounce /\ creds
       THEN Goto("net", "enable") /\ UNCHANGED idleFor
       ELSE PortalTimer
    /\ UNCHANGED <<cable, air, sta, portal>>

\* The station has been raised: it is the data path once it has an address.
UseStation ==
    /\ pc["net"] = "idle" /\ ~ethIp /\ Requested
    /\ status' = [status EXCEPT !.iface = IF gotIp THEN "sta" ELSE "none"]
    /\ downFor' = Later(downFor, Debounce)
    /\ PortalTimer
    /\ UNCHANGED <<cable, air, sta, portal, requested>>

\* wifi_manager_sta_connect(): the flag first, then the radio, which refuses
\* without credentials.
EnableStation ==
    /\ pc["net"] = "enable"
    /\ enabled' = TRUE
    /\ Goto("net", "connect")
    /\ UNCHANGED <<cable, air, gotIp, portal, status, poll>>
RequestStation ==
    /\ pc["net"] = "connect"
    /\ RadioConnects
    /\ requested' = creds
    /\ PortalTimer
    /\ UNCHANGED <<cable, creds, events, sta, portal, status, downFor>>
-----------------------------------------------------------------------------
(* start_ap_with_portal(), for an operator.                                *)

\* wifi_manager_start_ap() tears the station down, unless the access point is up.
OpenPortal(o) ==
    /\ pc[o] = "idle"
    /\ IF ~ap /\ enabled THEN DropStation ELSE UNCHANGED <<sta, radio, events>>
    /\ Goto(o, IF ap THEN "announce" ELSE "raise")
    /\ UNCHANGED <<cable, creds, portal, status, poll>>
RaiseAp(o) ==
    /\ pc[o] = "raise"
    /\ ap' = TRUE
    /\ Goto(o, "announce")
    /\ UNCHANGED <<cable, air, sta, web, station, status, poll>>
RaiseApFails(o) ==
    /\ pc[o] = "raise"
    /\ Goto(o, "idle")
    /\ UNCHANGED <<cable, air, sta, portal, status, poll>>

StartWebFails(o) ==
    /\ pc[o] = "announce" /\ ~web
    /\ Goto(o, "undo")
    /\ UNCHANGED <<cable, air, sta, portal, status, poll>>

\* web_portal_start(), which leaves a server that runs alone, then set_ap_active(true); the
\* flush that follows belongs to EnergyPersist.
AnnouncePortal(o) ==
    /\ pc[o] = "announce"
    /\ web' = TRUE
    /\ status' = [status EXCEPT !.ap = TRUE]
    /\ Goto(o, "idle")
    /\ UNCHANGED <<cable, air, sta, ap, station, poll>>
-----------------------------------------------------------------------------
(* stop_ap_with_portal(), for an operator or the idle timer.               *)

ClosePortal(o) ==
    /\ pc[o] = "idle"
    /\ Goto(o, "close")
    /\ UNCHANGED <<cable, air, sta, portal, status, poll>>

StopWeb(t) ==
    /\ pc[t] = "close"
    /\ web' = FALSE
    /\ Goto(t, "close ap")
    /\ UNCHANGED <<cable, air, sta, ap, station, status, poll>>

\* wifi_manager_stop_ap(): the station stays down, for the network task to raise.
StopAp(t) ==
    /\ pc[t] \in {"close ap", "undo"}
    /\ ap' = FALSE /\ station' = FALSE
    /\ enabled' = (enabled /\ ~(ap /\ creds))
    /\ Goto(t, IF pc[t] = "undo" THEN "idle" ELSE "withdraw")
    /\ UNCHANGED <<cable, air, gotIp, web, status, poll>>
StopApFails(t) ==
    /\ pc[t] \in {"close ap", "undo"} /\ ap
    /\ Goto(t, "idle")
    /\ UNCHANGED <<cable, air, sta, portal, status, poll>>

WithdrawPortal(t) ==
    /\ pc[t] = "withdraw"
    /\ status' = [status EXCEPT !.ap = FALSE]
    /\ Goto(t, "idle")
    /\ UNCHANGED <<cable, air, sta, portal, poll>>
-----------------------------------------------------------------------------
(* apply_wifi(), for an operator.                                          *)

ApplyCredentials(o) ==
    /\ pc[o] = "idle"
    /\ creds' \in BOOLEAN
    /\ Goto(o, IF enabled THEN "drop" ELSE "idle")
    /\ UNCHANGED <<cable, radio, events, sta, portal, status, poll>>
ApplyDrops(o) ==
    /\ pc[o] = "drop"
    /\ DropStation
    /\ Goto(o, "reenable")
    /\ UNCHANGED <<cable, creds, portal, status, poll>>
ApplyEnables(o) ==
    /\ pc[o] = "reenable"
    /\ enabled' = TRUE
    /\ Goto(o, "reconnect")
    /\ UNCHANGED <<cable, air, gotIp, portal, status, poll>>
-----------------------------------------------------------------------------
Next ==
    \/ LinkUp
    \/ EthGotIp
    \/ LinkDown
    \/ StationChanges
    \/ Associate
    \/ Lose
    \/ HandleGotIp
    \/ HandleLost
    \/ \E t \in Tasks : Reconnect(t)
    \/ UseEthernet
    \/ AwaitEthernet
    \/ EnableStation
    \/ RequestStation
    \/ UseStation
    \/ \E o \in Operators : OpenPortal(o)
    \/ \E o \in Operators : RaiseAp(o)
    \/ \E o \in Operators : RaiseApFails(o)
    \/ \E o \in Operators : StartWebFails(o)
    \/ \E o \in Operators : AnnouncePortal(o)
    \/ \E o \in Operators : ClosePortal(o)
    \/ \E t \in Tasks : StopWeb(t)
    \/ \E t \in Tasks : StopAp(t)
    \/ \E t \in Tasks : StopApFails(t)
    \/ \E t \in Tasks : WithdrawPortal(t)
    \/ \E o \in Operators : ApplyCredentials(o)
    \/ \E o \in Operators : ApplyDrops(o)
    \/ \E o \in Operators : ApplyEnables(o)

Spec == Init /\ [][Next]_vars

(* Tasks that have begun something go on, and the bound on the events delays  *)
(* the network task without stopping it; the radio of a network in range      *)
(* associates and gets its address; the driver does not refuse for ever to    *)
(* take the access point down.                                                *)
NetStep ==
    \/ UseEthernet \/ AwaitEthernet \/ EnableStation \/ RequestStation \/ UseStation
    \/ StopWeb("net") \/ StopAp("net") \/ StopApFails("net") \/ WithdrawPortal("net")
OperatorStep(o) ==
    \/ Reconnect(o) \/ RaiseAp(o) \/ RaiseApFails(o) \/ StartWebFails(o)
    \/ AnnouncePortal(o) \/ StopWeb(o) \/ StopAp(o) \/ StopApFails(o) \/ WithdrawPortal(o)
    \/ ApplyDrops(o) \/ ApplyEnables(o)
Fairness ==
    /\ SF_vars(NetStep) /\ SF_vars(StopAp("net"))
    /\ \A o \in Operators : WF_vars(OperatorStep(o))
    /\ WF_vars(HandleGotIp \/ HandleLost \/ Reconnect("events"))
    /\ SF_vars(Associate)

FairSpec == Spec /\ Fairness
-----------------------------------------------------------------------------
(* Properties.                                                             *)

\* wifi_manager_sta_has_ip(): once the handler has caught up with the radio, however
\* requests, drops, portals and losses were mixed, its bit is set while the station
\* has an address.
BitTellsTheTruth == events = <<>> /\ radio = "ip" => gotIp

\* And only then: no late event leaves the bit of a dropped station set.
BitIsNotStale == events = <<>> /\ gotIp => radio = "ip"

\* A device without a cable whose Wi-Fi network answers gets through to it, whatever
\* the portal, the settings and earlier failovers have left behind.
Calm == ~link /\ creds /\ ~ap /\ \A o \in Operators : pc[o] = "idle"
FailsOver == <>[]Calm /\ <>[][~Lose]_vars => <>[](status.iface = "sta")

\* "if no station associates within the Kconfig window, stop the AP automatically"
\* (network_manager.c): a portal without visitors does not stay open, even if the
\* driver refuses to close it now and then.
PortalCloses == []<>(~ap \/ station \/ \E o \in Operators : pc[o] # "idle")

\* "every module just skips its work and resumes on the next loop tick after the
\* portal closes" (network_manager.h): config mode does not stay on when the access
\* point is gone.
PauseEnds == ~<>[](status.ap /\ ~ap)
=============================================================================
