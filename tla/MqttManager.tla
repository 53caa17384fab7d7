---------------------------- MODULE MqttManager ----------------------------
(***************************************************************************)
(* The MQTT client of mqtt_manager.c: how it follows the configuration,    *)
(* and what it tells the broker about the digital inputs and the update.   *)
(*                                                                         *)
(* The manager task alone creates and retires the client.  Operators save  *)
(* a configuration and leave a request in a queue of one place.  The task  *)
(* of the client (esp-mqtt) runs the event handler, which sets the flags   *)
(* the manager reads and answers relay commands itself.  The expander's    *)
(* task raises a flag at each edge of an input.                            *)
(*                                                                         *)
(* Of the configuration it matters whether the client has been made from   *)
(* the current one, of the io message whether it shows the inputs as they  *)
(* are.  What a publication of QoS 1 says is told once it has been handed  *)
(* to the client, which sends it when it is connected and forgets it when  *)
(* it is destroyed.  Allocation succeeds.  Telemetry, topics, TLS files and   *)
(* addresses are left out; so is the nudge at a change of interface, which *)
(* only ends the client's wait to reconnect.                               *)
(*                                                                         *)
(* A definition named after the one that follows it (AnnounceForgets       *)
(* before Announce) is a broken form of it, put in its place to see a      *)
(* property fail.                                                          *)
(***************************************************************************)
CONSTANTS
    Operators,      \* the tasks that save a configuration and apply it
    OtaStates       \* what ota_manager_get_state() tells, progress in steps included

VARIABLES
    asking,     \* operators that have saved and are to call mqtt_manager_apply()
    queue,      \* s_apply_queue holds a request
    pc,         \* where mqtt_manager_task() stands
    stage,      \* its loops: the boot gate, the first client on leaving it, the main loop
    applied,    \* what the last apply_mqtt_from_config() read: none, an old or the current one
    client,     \* s_client: none, started but offline, or online
    news,       \* what the task of the client is handling
    connected,  \* s_connected
    first,      \* last_publish_us is 0
    due,        \* periodic of this pass
    standBack,  \* publish_paused of this pass
    edge,       \* s_input_event_pending
    ioTold,     \* the last io message handed to the client: none, right or wrong about the inputs
    echo,       \* the inputs read for the answer to a relay command are right or wrong
    stale,      \* history: of that answer, a line could not be read, or the manager has
                \* told the inputs since
    ota,        \* the state of the update
    report,     \* s_ota_report_pending
    lastOta,    \* last_ota_state and last_ota_step
    otaTold,    \* state in the last ota message handed to the client
    excused     \* history: the last io message of the manager could not read a line, or
                \* since then an edge was cleared by a pass that stood back, or not
                \* noticed, or a stale answer was handed over

config == <<asking, queue>>
life == <<stage, applied>>
link == <<client, news, connected>>
clock == <<first, due, standBack>>
io == <<edge, ioTold, echo, stale, excused>>
update == <<ota, report, lastOta, otaTold>>
vars == <<config, pc, life, link, clock, io, update>>
-----------------------------------------------------------------------------
Nothing == "nothing"
Never == "neverSampled"
PCs == {"wait", "stop", "stopping", "read", "start", "pass",
        "edge", "io", "ota", "report", "periodic"}

\* The kinds of state, and that an event under way is one of a client that exists
\* (mqtt_event_handler() and destroy_current_client()).
TypeOK ==
    /\ asking \subseteq Operators /\ applied \in {"none", "old", "current"}
    /\ pc \in PCs /\ stage \in {"gate", "leaving", "loop"}
    /\ client \in {"none", "offline", "online"}
    /\ news \in {"none", "connected", "announce", "disconnected", "echo"}
    /\ (news # "none" => client # "none")
    /\ {queue, connected, first, due, standBack, edge, report, stale, excused} \subseteq BOOLEAN
    /\ ioTold \in {"none", "right", "wrong"} /\ echo \in {"right", "wrong"}
    /\ ota \in OtaStates
    /\ lastOta \in OtaStates \cup {Never} /\ otaTold \in OtaStates \cup {Nothing}

\* mqtt_manager_start() has run; last_ota_step is -1, which no progress is.
Init ==
    /\ asking = {} /\ queue = FALSE
    /\ pc = "wait" /\ stage = "gate" /\ applied = "none"
    /\ client = "none" /\ news = "none" /\ connected = FALSE
    /\ first = TRUE /\ due = FALSE /\ standBack = FALSE
    /\ edge = FALSE /\ ioTold = "none" /\ echo = "right"
    /\ stale = FALSE /\ excused = FALSE
    /\ ota \in OtaStates /\ report = FALSE /\ lastOta = Never /\ otaTold = Nothing
-----------------------------------------------------------------------------
(* Operators.                                                              *)

\* config_manager_update() and config_manager_save(), then config_apply().
SaveConfig(o) ==
    /\ o \notin asking
    /\ applied' = IF applied = "current" THEN "old" ELSE applied
    /\ asking' = asking \cup {o}
    /\ UNCHANGED <<queue, pc, stage, link, clock, io, update>>

\* mqtt_manager_apply()
RequestApply(o) ==
    /\ o \in asking /\ ~queue
    /\ queue' = TRUE
    /\ asking' = asking \ {o}
    /\ UNCHANGED <<pc, life, link, clock, io, update>>

\* The place has been taken for 250 ms: the request is dropped.
DropRequest(o) ==
    /\ o \in asking /\ queue
    /\ asking' = asking \ {o}
    /\ UNCHANGED <<queue, pc, life, link, clock, io, update>>
-----------------------------------------------------------------------------
(* The manager: following the configuration.                               *)

\* xQueueReceive() in either loop.
Serve ==
    /\ pc = "wait" /\ queue
    /\ queue' = FALSE
    /\ pc' = "stop"
    /\ UNCHANGED <<asking, life, link, clock, io, update>>

\* The boot gate finds an address: the first client is made, unless a request was served.
LeaveGate ==
    /\ pc = "wait" /\ stage = "gate"
    /\ IF applied = "none"
       THEN stage' = "leaving" /\ pc' = "stop"
       ELSE stage' = "loop" /\ UNCHANGED pc
    /\ UNCHANGED <<config, applied, link, clock, io, update>>

\* destroy_current_client()
Stop ==
    /\ pc = "stop"
    /\ connected' = FALSE
    /\ pc' = IF client = "none" THEN "read" ELSE "stopping"
    /\ UNCHANGED <<config, life, client, news, clock, io, update>>

\* esp_mqtt_client_stop() has waited for the task of the client, and its handler.
StopDoneKeepsFlag ==
    /\ pc = "stopping" /\ news = "none"
    /\ client' = "none"
    /\ ioTold' = "none" /\ otaTold' = Nothing
    /\ pc' = "read"
    /\ UNCHANGED <<config, life, news, connected, clock, edge, echo, stale, excused, ota,
                   report, lastOta>>
StopDone ==
    /\ pc = "stopping" /\ news = "none"
    /\ client' = "none" /\ connected' = FALSE
    /\ ioTold' = "none" /\ otaTold' = Nothing
    /\ pc' = "read"
    /\ UNCHANGED <<config, life, news, clock, edge, echo, stale, excused, ota, report,
                   lastOta>>

\* apply_mqtt_from_config() reads broker and period anew.
ReadConfig ==
    /\ pc = "read"
    /\ applied' = "current"
    /\ pc' = "start"
    /\ UNCHANGED <<config, stage, link, clock, io, update>>

\* After a request the pass goes on, unless the gate still asks for an address.
AfterApply ==
    /\ pc' = IF stage = "loop" THEN "pass" ELSE "wait"
    /\ stage' = IF stage = "leaving" THEN "loop" ELSE stage
    /\ first' = TRUE /\ due' = FALSE /\ standBack' = FALSE

StartClientDrains ==
    /\ pc = "start"
    /\ client' = "offline"
    /\ AfterApply
    /\ queue' = FALSE
    /\ UNCHANGED <<asking, applied, news, connected, io, update>>
StartClient ==
    /\ pc = "start"
    /\ client' = "offline"
    /\ AfterApply
    /\ UNCHANGED <<config, applied, news, connected, io, update>>

\* Disabled, no broker, a certificate that cannot be read, no client.
StartFails ==
    /\ pc = "start"
    /\ connected' = FALSE
    /\ AfterApply
    /\ UNCHANGED <<config, applied, client, news, io, update>>
-----------------------------------------------------------------------------
(* The task of the client.                                                 *)

Connect ==
    /\ client = "offline" /\ news = "none"
    /\ client' = "online" /\ news' = "connected"
    /\ UNCHANGED <<config, pc, life, connected, clock, io, update>>

Disconnect ==
    /\ client = "online" /\ news = "none"
    /\ client' = "offline" /\ news' = "disconnected"
    /\ UNCHANGED <<config, pc, life, connected, clock, io, update>>

HandleConnected ==
    /\ news = "connected"
    /\ connected' = TRUE
    /\ news' = "announce"
    /\ UNCHANGED <<config, pc, life, client, clock, io, update>>
AnnounceForgets ==
    /\ news = "announce"
    /\ news' = "none"
    /\ UNCHANGED <<config, pc, life, client, connected, clock, io, update>>
Announce ==
    /\ news = "announce"
    /\ report' = TRUE
    /\ news' = "none"
    /\ UNCHANGED <<config, pc, life, client, connected, clock, io, ota, lastOta, otaTold>>

HandleDisconnected ==
    /\ news = "disconnected"
    /\ connected' = FALSE
    /\ news' = "none"
    /\ UNCHANGED <<config, pc, life, client, clock, io, update>>

\* publish_io() takes no notice of a line it cannot read, and tells that it is FALSE:
\* what the lines told come out as.
Lines == {"right", "wrong"}

\* handle_relay_command(): the relay is set, publish_io() reads the lines ...
RelayCommand ==
    /\ client = "online" /\ news = "none"
    /\ news' = "echo"
    /\ echo' \in Lines /\ stale' = (echo' = "wrong")
    /\ UNCHANGED <<config, pc, life, client, connected, clock, edge, ioTold, excused, update>>
EchoTakesEdge ==
    /\ news = "echo"
    /\ news' = "none"
    /\ ioTold' = echo /\ echo' = "right"
    /\ stale' = FALSE /\ excused' = (excused \/ (stale /\ echo = "wrong"))
    /\ edge' = FALSE
    /\ UNCHANGED <<config, pc, life, client, connected, clock, update>>
\* ... and hands them to the client.
EchoIo ==
    /\ news = "echo"
    /\ news' = "none"
    /\ ioTold' = echo /\ echo' = "right"
    /\ stale' = FALSE /\ excused' = (excused \/ (stale /\ echo = "wrong"))
    /\ UNCHANGED <<config, pc, life, client, connected, clock, edge, update>>

\* handle_ota_command(): whatever becomes of the request, its state is reported.
OtaCommand ==
    /\ client = "online" /\ news = "none"
    /\ report' = TRUE
    /\ UNCHANGED <<config, pc, life, link, clock, io, ota, lastOta, otaTold>>
-----------------------------------------------------------------------------
(* What the messages are about.                                            *)

\* on_input_change(), from the expander's task: what was read is wrong, or right again.
Overtake(told) ==
    CASE told = "right" -> {"wrong"} [] told = "wrong" -> {"wrong", "right"} [] OTHER -> {told}

InputChanges ==
    /\ \/ edge' = TRUE /\ UNCHANGED excused
       \/ excused' = TRUE /\ UNCHANGED edge     \* its own reading of the lines fails
    /\ ioTold' \in Overtake(ioTold)
    /\ echo' \in (IF news = "echo" THEN Overtake(echo) ELSE {echo})
    /\ UNCHANGED <<config, pc, life, link, clock, stale, update>>

\* The update worker goes on.
OtaChanges ==
    /\ ota' \in OtaStates
    /\ UNCHANGED <<config, pc, life, link, clock, io, report, lastOta, otaTold>>
-----------------------------------------------------------------------------
(* The manager: one pass of the loop.                                      *)

BeginPass ==
    /\ pc = "wait" /\ stage = "loop" /\ ~queue
    /\ pc' = "pass"
    /\ UNCHANGED <<config, life, link, clock, io, update>>

\* Without a connection a pass leaves everything for later ones.
PassOffline ==
    /\ pc = "pass" /\ (~connected \/ client = "none")
    /\ pc' = "wait"
    /\ UNCHANGED <<config, life, link, clock, io, update>>

\* Portal and download are asked about, and whether the period has elapsed.
PassOnline ==
    /\ pc = "pass" /\ connected /\ client # "none"
    /\ standBack' \in BOOLEAN
    /\ due' \in BOOLEAN /\ (first => due')
    /\ pc' = "edge"
    /\ UNCHANGED <<config, life, link, first, io, update>>

\* The flag of an edge is cleared, then the inputs are read.
TakeEdge ==
    /\ pc = "edge"
    /\ pc' = IF edge /\ ~due /\ ~standBack THEN "io" ELSE "ota"
    /\ edge' = FALSE
    /\ excused' = (excused \/ (edge /\ standBack))
    /\ UNCHANGED <<config, life, link, clock, ioTold, echo, stale, update>>

\* publish_io()
TellInputs ==
    /\ ioTold' \in Lines /\ excused' = (ioTold' = "wrong")
    /\ stale' = (stale \/ news = "echo")

PublishIo ==
    /\ pc = "io"
    /\ TellInputs
    /\ pc' = "ota"
    /\ UNCHANGED <<config, life, link, clock, edge, echo, update>>

\* The update is reported when something new is seen or asked for ...
SampleOta ==
    /\ pc = "ota"
    /\ IF report \/ ota # lastOta
       THEN report' = FALSE /\ lastOta' = ota /\ pc' = "report"
       ELSE pc' = "periodic" /\ UNCHANGED <<report, lastOta>>
    /\ UNCHANGED <<config, life, link, clock, io, ota, otaTold>>

\* ... as it is then.
ReportOta ==
    /\ pc = "report"
    /\ otaTold' = ota
    /\ pc' = "periodic"
    /\ UNCHANGED <<config, life, link, clock, io, ota, report, lastOta>>

\* The periodic messages, with the inputs among them.
EndPass ==
    /\ pc = "periodic"
    /\ IF due /\ ~standBack
       THEN first' = FALSE /\ TellInputs
       ELSE UNCHANGED <<first, ioTold, stale, excused>>
    /\ due' = FALSE /\ standBack' = FALSE
    /\ pc' = "wait"
    /\ UNCHANGED <<config, life, link, edge, echo, update>>
-----------------------------------------------------------------------------
Manager ==
    \/ Serve
    \/ Stop
    \/ StopDone
    \/ ReadConfig
    \/ StartClient
    \/ StartFails
    \/ BeginPass
    \/ PassOffline
    \/ PassOnline
    \/ TakeEdge
    \/ PublishIo
    \/ SampleOta
    \/ ReportOta
    \/ EndPass

Handler ==
    \/ HandleConnected
    \/ Announce
    \/ HandleDisconnected
    \/ EchoIo

Next ==
    \/ \E o \in Operators : SaveConfig(o)
    \/ \E o \in Operators : RequestApply(o)
    \/ \E o \in Operators : DropRequest(o)
    \/ LeaveGate
    \/ Manager
    \/ Connect
    \/ Disconnect
    \/ Handler
    \/ RelayCommand
    \/ OtaCommand
    \/ InputChanges
    \/ OtaChanges

Spec == Init /\ [][Next]_vars

(* The manager goes on, the handler ends, an operator that has saved asks.    *)
(* Nothing is assumed of the network, the inputs and the update, but that a   *)
(* client online has an address under it, which opens the gate.  The stop of  *)
(* a client comes in between two of its events in the end.                    *)
Fairness ==
    /\ WF_vars(Manager) /\ SF_vars(StopDone)
    /\ WF_vars(client = "online" /\ LeaveGate)
    /\ WF_vars(Handler)
    /\ \A o \in Operators : WF_vars(RequestApply(o) \/ DropRequest(o))

FairSpec == Spec /\ Fairness
-----------------------------------------------------------------------------
(* Properties.                                                             *)

\* "no old-client event can overwrite these final state values" (mqtt_manager.c:664):
\* when the handler has nothing left to do, s_connected says whether the client is
\* online, and nothing else is ever seen of a client that is gone.
ConnectedIsTrue ==
    pc # "stopping" /\ news = "none" => (connected <=> client = "online")

\* "Cleared before publishing so an edge that lands during the publish is not swallowed
\* ... never a missed transition" (mqtt_manager.c): between passes the last io message
\* shows the inputs as they are, or the flag of an edge is up.  A message is wrong
\* longer than that after a line that could not be read, an edge left to the period by
\* a pass that stood back, and an answer to a relay command that overtook a later
\* reading of the manager - and then until the manager's next message, not beyond it.
IoIsTold ==
    pc = "wait" /\ client # "none" /\ ~first /\ ~edge /\ ~excused => ioTold = "right"

\* "The config is already saved; the client follows asynchronously" (mqtt_manager.c):
\* a request may be dropped because another one waits, and still the client is made anew
\* from a configuration no older than the one saved.
FollowsConfig == asking # {} ~> applied = "current"

\* "a dropped terminal state would leave a dashboard showing a download that never
\* ends" (mqtt_manager.c): when update and connection rest, the broker learns the
\* state the update has come to, after whatever disconnections and new clients - unless
\* the last message told a state later than the one sampled for it.
OtaIsTold ==
    \A s \in OtaStates :
        <>[](ota = s /\ client = "online")
          => \/ <>[](otaTold = s)
             \/ <>[](otaTold \notin {Nothing, lastOta})
=============================================================================
