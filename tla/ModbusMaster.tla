---------------------------- MODULE ModbusMaster ----------------------------
(***************************************************************************)
(* The Modbus RTU master, which polls the meters on the second RS485 bus   *)
(* (main/app/modbus_master_task.c).                                        *)
(*                                                                         *)
(* Panel, portal, console and MQTT change the configuration and then ask   *)
(* for it to be taken over; the request is a flag the task clears.  A slot *)
(* of the configuration is unused ("none"), disabled ("off") or holds a    *)
(* device, which stands for its type and address.  Of the readings the     *)
(* model keeps the device they came from.                                  *)
(*                                                                         *)
(* A definition named after the one that follows it is a broken form of it.*)
(***************************************************************************)
EXTENDS Integers

CONSTANTS
    MasterSlots,    \* MODBUS_MASTER_SLOT_COUNT
    Threshold,      \* MB_MASTER_OFFLINE_THRESHOLD
    MaxChanges,     \* bound: changes of the configuration
    MaxBusFaults    \* bound: failures of memory or of the controller

ASSUME ModbusMasterAssumption ==
    {MasterSlots, Threshold} \subseteq Nat \ {0} /\ {MaxChanges, MaxBusFaults} \subseteq Nat

VARIABLES
    saved,          \* the bus part of the configuration manager's RAM
    asking,         \* changed, and modbus_master_reconfigure() not yet called
    requested,      \* s_reconfigure_pending
    cfg,            \* s_cfg
    taken,          \* the snapshot being taken over
    stack,          \* of the controller; "half" when its start broke off
    slotOnline, slotErrors, readings,   \* s_slot_rt
    masterStatus,   \* SYS_MODULE_RS485_MASTER
    pos,            \* of the task
    slot,           \* the one the cycle has come to
    paused,         \* by the portal, by a download
    fellBack,       \* history: cfg is not from the configuration manager
    changes, busFaults

runtime == <<slotOnline, slotErrors, readings>>
config == <<saved, asking, changes>>
masterVars == <<config, requested, cfg, taken, stack, runtime, masterStatus, pos, slot,
                paused, fellBack, busFaults>>

Numbers == 0..MasterSlots - 1
Devices == {"a", "b"}
Pauses == {"portal", "download"}
Configs == [bus : BOOLEAN, dev : [Numbers -> Devices \cup {"none", "off"}]]
NoConfig == [bus |-> FALSE, dev |-> [s \in Numbers |-> "none"]]

BusTypeOK ==
    /\ {saved, cfg, taken} \subseteq Configs
    /\ {asking, requested, fellBack} \subseteq BOOLEAN /\ paused \subseteq Pauses
    /\ stack \in {"down", "half", "up"}
    /\ slotOnline \in [Numbers -> BOOLEAN] /\ slotErrors \in [Numbers -> 0..Threshold]
    /\ readings \in [Numbers -> Devices \cup {"none"}]
    /\ masterStatus \in {"INIT", "READY", "WARNING", "OFFLINE", "ERROR"}
    /\ pos \in {"boot", "booting", "top", "load", "apply", "start", "check", "poll", "sleep"}
    /\ slot \in 0..MasterSlots
    /\ changes \in 0..MaxChanges /\ busFaults \in 0..MaxBusFaults

BusInit ==
    /\ saved \in {[bus |-> b, dev |-> [s \in Numbers |-> IF s = 0 THEN "a" ELSE "off"]] :
                  b \in BOOLEAN}
    /\ asking = FALSE /\ requested = FALSE /\ changes = 0 /\ busFaults = 0
    /\ cfg = NoConfig /\ taken = NoConfig /\ stack = "down"
    /\ slotOnline = [s \in Numbers |-> FALSE] /\ slotErrors = [s \in Numbers |-> 0]
    /\ readings = [s \in Numbers |-> "none"]
    /\ masterStatus = "INIT" /\ pos = "boot" /\ slot = 0
    /\ paused = {} /\ fellBack = FALSE

BusFault == busFaults < MaxBusFaults /\ busFaults' = busFaults + 1
-----------------------------------------------------------------------------
(* Everybody else, once the device has started.                            *)

\* config_manager_update()
Change ==
    /\ pos \notin {"boot", "booting"}
    /\ changes < MaxChanges /\ changes' = changes + 1
    /\ \/ saved' = [saved EXCEPT !.bus = ~@]
       \/ \E s \in Numbers : \E d \in {"a", "b", "off", "none"} \ {saved.dev[s]} :
            saved' = [saved EXCEPT !.dev[s] = d]
    /\ asking' = TRUE
    /\ UNCHANGED <<requested, cfg, taken, stack, runtime, masterStatus, pos, slot,
                   paused, fellBack, busFaults>>

\* apply_modbus_master(), modbus_master_reconfigure()
Reconfigure ==
    /\ asking /\ asking' = FALSE
    /\ requested' = TRUE
    /\ UNCHANGED <<saved, changes, cfg, taken, stack, runtime, masterStatus, pos, slot,
                   paused, fellBack, busFaults>>

\* network_manager_is_config_mode(), ota_manager_is_downloading()
PauseOrGoOn ==
    /\ pos \notin {"boot", "booting"}
    /\ \E p \in Pauses : paused' = IF p \in paused THEN paused \ {p} ELSE paused \cup {p}
    /\ UNCHANGED <<config, requested, cfg, taken, stack, runtime, masterStatus, pos,
                   slot, fellBack, busFaults>>
-----------------------------------------------------------------------------
(* Taking over a configuration.                                            *)

Used(c) == {s \in Numbers : c.dev[s] # "none"}
Polled(c) == {s \in Numbers : c.dev[s] \in Devices}

\* load_runtime_config(): without memory for the snapshot, the legacy domain, which has one
\* slot at most.
Loaded ==
    \/ taken' = saved /\ fellBack' = FALSE /\ UNCHANGED busFaults
    \/ /\ BusFault /\ fellBack' = TRUE
       /\ \E b \in BOOLEAN, d \in {"none", "a"} :
            /\ d = "a" => b                          \* enabled as the bus is
            /\ taken' = [bus |-> b, dev |-> [NoConfig.dev EXCEPT ![0] = d]]

\* apply_config_snapshot()
TakenOver(c) ==
    /\ cfg' = c /\ slotErrors' = [s \in Numbers |-> 0] /\ UNCHANGED readings
    /\ slotOnline' = [s \in Numbers |-> FALSE]
    /\ masterStatus' = IF ~c.bus THEN "OFFLINE" ELSE IF Used(c) # {} THEN "INIT" ELSE "WARNING"

\* modbus_master_task_start(); nothing else runs yet that changes the configuration.
StartLoad ==
    /\ pos = "boot" /\ pos' = "booting"
    /\ Loaded
    /\ UNCHANGED <<config, requested, cfg, stack, runtime, masterStatus, slot, paused>>

\* A failed start leaves the task idle until the next request.
StartMaster ==
    /\ pos = "booting" /\ pos' = "top"
    /\ cfg' = taken
    /\ \/ /\ taken.bus /\ stack' = "up" /\ UNCHANGED busFaults
          /\ masterStatus' = IF Used(taken) # {} THEN "INIT" ELSE "WARNING"
       \/ taken.bus /\ BusFault /\ stack' = "half" /\ masterStatus' = "ERROR"
       \/ ~taken.bus /\ stack' = "down" /\ masterStatus' = "INIT" /\ UNCHANGED busFaults
    /\ UNCHANGED <<config, requested, taken, runtime, slot, paused, fellBack>>

\* The request is cleared before the configuration is read.
Notice ==
    /\ pos = "top" /\ requested
    /\ requested' = FALSE
    /\ stack' = IF stack = "up" THEN "down" ELSE stack      \* master_stack_stop()
    /\ pos' = "load"
    /\ UNCHANGED <<config, cfg, taken, runtime, masterStatus, slot, paused, fellBack,
                   busFaults>>

LoadConfig ==
    /\ pos = "load" /\ pos' = "apply"
    /\ Loaded
    /\ UNCHANGED <<config, requested, cfg, stack, runtime, masterStatus, slot, paused>>

TakeOverAndClear ==
    /\ pos = "apply" /\ pos' = IF taken.bus THEN "start" ELSE "check"
    /\ TakenOver(taken) /\ requested' = FALSE
    /\ UNCHANGED <<config, taken, stack, slot, paused, fellBack, busFaults>>

TakeOver ==
    /\ pos = "apply" /\ pos' = IF taken.bus THEN "start" ELSE "check"
    /\ TakenOver(taken)
    /\ UNCHANGED <<config, requested, taken, stack, slot, paused, fellBack, busFaults>>

\* master_stack_start(); one that breaks off is not torn down, as s_stack_up is still false.
StartStack ==
    /\ pos = "start" /\ pos' = "check"
    /\ \/ stack' = "up" /\ UNCHANGED <<masterStatus, busFaults>>
       \/ BusFault /\ stack' = "half" /\ masterStatus' = "ERROR"
    /\ UNCHANGED <<config, requested, cfg, taken, runtime, slot, paused, fellBack>>

NothingToDo ==
    /\ pos = "top" /\ ~requested /\ pos' = "check"
    /\ UNCHANGED <<config, requested, cfg, taken, stack, runtime, masterStatus, slot,
                   paused, fellBack, busFaults>>
-----------------------------------------------------------------------------
(* Polling.                                                                *)

\* A cycle begins unless the portal or a download has the device.
Check ==
    /\ pos = "check"
    /\ pos' = IF paused = {} /\ stack = "up" /\ cfg.bus THEN "poll" ELSE "sleep"
    /\ slot' = 0
    /\ UNCHANGED <<config, requested, cfg, taken, stack, runtime, masterStatus, paused,
                   fellBack, busFaults>>

\* commit_slot(): the slot, then the status of the module.
Status ==
    IF \E s \in Polled(cfg) : slotOnline'[s] THEN "READY"
    ELSE IF \E s \in Polled(cfg) : slotErrors'[s] >= Threshold THEN "OFFLINE" ELSE "INIT"

Upto(n) == IF n < Threshold THEN n ELSE Threshold

\* poll_slot(): a meter that answers one request has answered.
Poll ==
    /\ pos = "poll" /\ slot < MasterSlots /\ ~requested
    /\ slot \in Polled(cfg)
    /\ \/ /\ slotOnline' = [slotOnline EXCEPT ![slot] = TRUE]
          /\ slotErrors' = [slotErrors EXCEPT ![slot] = 0]
          /\ readings' = [readings EXCEPT ![slot] = cfg.dev[slot]]
       \/ /\ slotErrors' = [slotErrors EXCEPT ![slot] = Upto(@ + 1)]
          /\ slotOnline' = [slotOnline EXCEPT ![slot] = @ /\ slotErrors[slot] + 1 < Threshold]
          /\ UNCHANGED readings
    /\ masterStatus' = Status /\ slot' = slot + 1
    /\ UNCHANGED <<config, requested, cfg, taken, stack, pos, paused, fellBack,
                   busFaults>>

SkipSlot ==
    /\ pos = "poll" /\ slot < MasterSlots /\ ~requested
    /\ slot \notin Polled(cfg) /\ slot' = slot + 1
    /\ UNCHANGED <<config, requested, cfg, taken, stack, runtime, masterStatus, pos,
                   paused, fellBack, busFaults>>

\* A request ends the cycle.
EndCycle ==
    /\ pos = "poll" /\ (slot = MasterSlots \/ requested)
    /\ pos' = "sleep" /\ slot' = 0
    /\ UNCHANGED <<config, requested, cfg, taken, stack, runtime, masterStatus, paused,
                   fellBack, busFaults>>

\* delay_interruptible(): 50 ms, the period, or 30 s when all are offline.
Wake ==
    /\ pos = "sleep" /\ pos' = "top"
    /\ UNCHANGED <<config, requested, cfg, taken, stack, runtime, masterStatus, slot,
                   paused, fellBack, busFaults>>

Task == Notice \/ LoadConfig \/ TakeOver \/ StartStack \/ NothingToDo \/ Check \/ Poll
        \/ SkipSlot \/ EndCycle \/ Wake

BusNext == Change \/ Reconfigure \/ PauseOrGoOn \/ StartLoad \/ StartMaster \/ Task

BusSpec == BusInit /\ [][BusNext]_masterVars
-----------------------------------------------------------------------------
\* modbus_master_get_slot_status() asks for the portal only.
DeviceState(s) ==
    IF ~cfg.bus \/ cfg.dev[s] \notin Devices \/ "portal" \in paused THEN "INACTIVE"
    ELSE IF slotOnline[s] THEN "ON" ELSE "OFF"

\* modbus_master_get_readings_slot()
ReadingsOf(s) == IF cfg.dev[s] = "none" THEN "none" ELSE readings[s]

\* Between two passes, with nothing left to take over, the master polls what is configured,
\* a change made while an earlier one is taken over included; and a device reported as ON
\* is shown with its own readings, not with those of the one that had its slot before
\* (modbus_master_task.c: s_reconfigure_pending, apply_config_snapshot).
MasterFollowsConfig ==
    /\ pos \in {"top", "check", "poll", "sleep"} /\ ~asking /\ ~requested /\ ~fellBack
       => cfg = saved /\ (stack = "up" => saved.bus)
    /\ \A s \in Numbers : DeviceState(s) = "ON" => ReadingsOf(s) = cfg.dev[s]
=============================================================================
