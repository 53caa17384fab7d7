---------------------------- MODULE ModbusSlave ----------------------------
(***************************************************************************)
(* The Modbus RTU slave (main/app/modbus_slave_task.c).                    *)
(*                                                                         *)
(* The registers a master sees are an image in RAM.  The esp-modbus        *)
(* controller writes a master's values into it and then queues an event;   *)
(* the owner task takes the event, applies what it finds in the image by   *)
(* then, and every MB_REGISTER_REFRESH_MS copies meter and relays back over*)
(* it.  No lock is shared: `todo` is what the owner has still to do of the *)
(* event or refresh at hand, one entry being one call.                     *)
(*                                                                         *)
(* "wiring" stands for itself and HR_LINE_FREQ_SEL, "reset" for the two    *)
(* reset registers; 0 and 1 are valid settings, Bad is refused.  Measured  *)
(* values, counters of events and the address of a command are left out.   *)
(*                                                                         *)
(* A definition named after the one that follows it is a broken form of it.*)
(***************************************************************************)
EXTENDS Integers, Sequences, FiniteSets

CONSTANTS
    MaxCommands,    \* bound: writes by the master
    MaxOthers,      \* bound: changes from panel, console, MQTT or alarm
    MaxRefused,     \* bound: calls that fail
    QueueLength     \* of the controller's events

ASSUME ModbusSlaveAssumption == {MaxCommands, MaxOthers, MaxRefused, QueueLength} \subseteq Nat

VARIABLES
    slaveImage,     \* s_holding_regs, s_coils
    device,         \* the meter's settings and the cached relay levels
    telling,        \* items written whose event is not yet queued
    queue,          \* events: the items a master wrote
    todo,           \* what the owner does
    result,         \* of the command at hand
    commandStatus,  \* IR_COMMAND_STATUS
    written,        \* history: what the master wrote last
    spoiled,        \* history: items written, and changed or lost before they were applied
    applied,        \* history: what was last taken from the image and accepted
    moved,          \* history: relays switched by others, or written, since a refresh
    commands, others, refused

slaveVars == <<slaveImage, device, telling, queue, todo, result, commandStatus, written,
               spoiled, applied, moved, commands, others, refused>>

Settings == {"wiring", "window"}
Coils == {"coil0", "coil1"}
Triggers == {"reset", "reboot"}
SlaveItems == Settings \cup Coils \cup Triggers
Bad == 2
Magic == 1                      \* MB_REBOOT_MAGIC

\* What keeps a written value from being applied: a refresh of the owner's loop, one of the
\* handler of the event, a full queue.
Spoilers == {"timed", "own", "lost"}

Values(i) == IF i \in Settings \cup {"reboot"} THEN {0, 1, Bad} ELSE {0, 1}

\* What one request of a master covers: FC05/06 one item, FC15/16 several.
Requests == {{i} : i \in SlaveItems} \cup {Settings, Coils}

SlaveTypeOK ==
    /\ {slaveImage, written, applied} \subseteq [SlaveItems -> 0..Bad]
    /\ \A i \in SlaveItems : {slaveImage[i], written[i], applied[i]} \subseteq Values(i)
    /\ device \in [Settings \cup Coils -> 0..1]
    /\ telling \in Requests \cup {{}} /\ queue \in Seq(Requests)
    /\ Len(queue) <= QueueLength
    /\ result \in {"OK", "FAILED"} /\ commandStatus \in {"NONE", "SUCCESS", "FAILED"}
    /\ spoiled \subseteq SlaveItems \X Spoilers /\ moved \subseteq Coils

\* slave_stack_start(): the image is filled before the controller runs.
FilledWithoutRelays == [i \in SlaveItems |-> IF i \in Settings THEN device[i] ELSE 0]
Filled == [i \in SlaveItems |-> IF i \in Triggers THEN 0 ELSE device[i]]

SlaveInit ==
    /\ device = [i \in Settings \cup Coils |-> 0]
    /\ slaveImage = Filled /\ written = slaveImage /\ applied = slaveImage
    /\ telling = {} /\ queue = <<>> /\ todo = <<>>
    /\ result = "OK" /\ commandStatus = "NONE"
    /\ spoiled = {} /\ moved = {}
    /\ commands = 0 /\ others = 0 /\ refused = 0

counters == <<commands, others, refused>>
Waiting == telling \cup UNION {queue[n] : n \in 1..Len(queue)}
-----------------------------------------------------------------------------
(* The master and the controller.                                          *)

MasterWrites ==
    /\ commands < MaxCommands /\ telling = {}
    /\ commands' = commands + 1
    /\ \E items \in Requests : \E value \in [items -> 0..Bad] :
        /\ \A i \in items : value[i] \in Values(i)
        /\ slaveImage' = [i \in SlaveItems |-> IF i \in items THEN value[i] ELSE slaveImage[i]]
        /\ written' = [i \in SlaveItems |-> IF i \in items THEN value[i] ELSE written[i]]
        /\ spoiled' = spoiled \ (items \X Spoilers)
        /\ telling' = items
        /\ moved' = moved \cup (items \cap Coils)
    /\ UNCHANGED <<device, queue, todo, result, commandStatus, applied, others, refused>>

\* The event is queued after the image was written; a full queue loses it.
Notify ==
    /\ telling # {}
    /\ \/ Len(queue) < QueueLength /\ queue' = Append(queue, telling) /\ UNCHANGED spoiled
       \/ /\ Len(queue) = QueueLength
          /\ spoiled' = spoiled \cup (telling \X {"lost"}) /\ UNCHANGED queue
    /\ telling' = {}
    /\ UNCHANGED <<slaveImage, device, todo, result, commandStatus, written, applied, moved,
                   counters>>

\* Panel, console, MQTT and the alarm manager set the same things.
OtherChanges(i) ==
    /\ others < MaxOthers /\ others' = others + 1
    /\ device' = [device EXCEPT ![i] = 1 - @]
    /\ moved' = moved \cup ({i} \cap Coils)
    /\ UNCHANGED <<slaveImage, telling, queue, todo, result, commandStatus, written,
                   spoiled, applied, commands, refused>>
-----------------------------------------------------------------------------
(* The owner task.                                                         *)

Do(call, item) == [call |-> call, item |-> item]
Refresh(items) == [call |-> "refresh", item |-> items]

\* process_holding_write(): every register of the request in the order of its address;
\* after a setting the image is refreshed.
HoldingWrite(items) ==
    (IF "wiring" \in items THEN <<Do("apply", "wiring"), Refresh(Settings)>> ELSE <<>>)
    \o (IF "window" \in items THEN <<Do("apply", "window"), Refresh(Settings)>> ELSE <<>>)
    \o (IF "reset" \in items THEN <<Do("reset", "reset")>> ELSE <<>>)
    \o (IF "reboot" \in items THEN <<Do("reboot", "reboot")>> ELSE <<>>)

\* modbus_apply_coils(): always both.
ApplyCoils == <<Do("apply", "coil0"), Do("apply", "coil1")>>

\* mbc_slave_get_param_info()
TakeEvent ==
    /\ todo = <<>> /\ queue # <<>>
    /\ queue' = Tail(queue)
    /\ todo' = (IF Head(queue) \subseteq Coils THEN ApplyCoils ELSE HoldingWrite(Head(queue)))
               \o <<Do("record", Head(queue))>>
    /\ result' = "OK"
    /\ UNCHANGED <<slaveImage, device, telling, commandStatus, written, spoiled,
                   applied, moved, counters>>

\* The timed wait has ended and a refresh is due.
RefreshDue ==
    /\ todo = <<>>
    /\ todo' = <<Refresh(Settings), Refresh(Coils)>>
    /\ UNCHANGED <<slaveImage, device, telling, queue, result, commandStatus, written,
                   spoiled, applied, moved, counters>>

Step(call) == todo # <<>> /\ Head(todo).call = call /\ todo' = Tail(todo)
Item == Head(todo).item

\* A value is handed to the meter or the expander, which may refuse it or fail; one
\* failure is the result of the whole request.
ApplyLastResult ==
    /\ Step("apply")
    /\ \/ /\ slaveImage[Item] # Bad /\ result' = "OK"
          /\ device' = [device EXCEPT ![Item] = slaveImage[Item]]
          /\ applied' = [applied EXCEPT ![Item] = slaveImage[Item]]
          /\ UNCHANGED refused
       \/ /\ slaveImage[Item] = Bad \/ refused < MaxRefused
          /\ result' = "FAILED"
          /\ refused' = IF slaveImage[Item] = Bad THEN refused ELSE refused + 1
          /\ UNCHANGED <<device, applied>>
    /\ UNCHANGED <<slaveImage, telling, queue, commandStatus, written, spoiled, moved,
                   commands, others>>

Apply ==
    /\ Step("apply")
    /\ \/ /\ slaveImage[Item] # Bad /\ UNCHANGED result
          /\ device' = [device EXCEPT ![Item] = slaveImage[Item]]
          /\ applied' = [applied EXCEPT ![Item] = slaveImage[Item]]
          /\ UNCHANGED refused
       \/ /\ slaveImage[Item] = Bad \/ refused < MaxRefused
          /\ result' = "FAILED"
          /\ refused' = IF slaveImage[Item] = Bad THEN refused ELSE refused + 1
          /\ UNCHANGED <<device, applied>>
    /\ UNCHANGED <<slaveImage, telling, queue, commandStatus, written, spoiled, moved,
                   commands, others>>

\* HR_RESET_ENERGY and HR_RESET_DEMAND clear themselves.
ResetCommand ==
    /\ Step("reset")
    /\ slaveImage' = [slaveImage EXCEPT !.reset = 0]
    /\ applied' = [applied EXCEPT !.reset = slaveImage.reset]
    /\ \/ UNCHANGED <<result, refused>>
       \/ slaveImage.reset = 1 /\ refused < MaxRefused
          /\ refused' = refused + 1 /\ result' = "FAILED"
    /\ UNCHANGED <<device, telling, queue, commandStatus, written, spoiled, moved,
                   commands, others>>

\* HR_REBOOT: the energy is flushed, then everything in RAM is gone; anything but the
\* magic number is refused.
Reboot ==
    /\ todo # <<>> /\ Head(todo).call = "reboot" /\ slaveImage.reboot = Magic
    /\ slaveImage' = Filled /\ written' = Filled /\ applied' = Filled
    /\ telling' = {} /\ queue' = <<>> /\ todo' = <<>> /\ result' = "OK" /\ commandStatus' = "NONE"
    /\ spoiled' = {} /\ moved' = {}
    /\ UNCHANGED <<device, counters>>

RefuseReboot ==
    /\ Step("reboot") /\ slaveImage.reboot # Magic
    /\ slaveImage' = [slaveImage EXCEPT !.reboot = 0]
    /\ applied' = [applied EXCEPT !.reboot = slaveImage.reboot]
    /\ result' = "FAILED"
    /\ UNCHANGED <<device, telling, queue, commandStatus, written, spoiled, moved,
                   counters>>

\* modbus_refresh_runtime_holding(), modbus_refresh_io()
ToApply == {todo[n].item : n \in {m \in 1..Len(todo) : todo[m].call = "apply"}}

RefreshImage ==
    /\ Step("refresh")
    /\ slaveImage' = [i \in SlaveItems |-> IF i \in Item THEN device[i] ELSE slaveImage[i]]
    /\ spoiled' = spoiled
         \cup {<<i, "timed">> : i \in {j \in Item \cap Waiting : slaveImage[j] # device[j]}}
         \cup {<<i, "own">> : i \in {j \in Item \cap ToApply : slaveImage[j] # device[j]}}
    /\ moved' = moved \ Item
    /\ UNCHANGED <<device, telling, queue, result, commandStatus, written, applied,
                   counters>>

\* modbus_record_command()
Record ==
    /\ Step("record")
    /\ commandStatus' = IF result = "OK" THEN "SUCCESS" ELSE "FAILED"
    /\ UNCHANGED <<slaveImage, device, telling, queue, result, written, spoiled,
                   applied, moved, counters>>

Owner == TakeEvent \/ RefreshDue \/ Apply \/ ResetCommand \/ Reboot \/ RefuseReboot
         \/ RefreshImage \/ Record

SlaveNext == MasterWrites \/ Notify \/ Owner \/ \E i \in Settings \cup Coils : OtherChanges(i)

SlaveSpec == SlaveInit /\ [][SlaveNext]_slaveVars
-----------------------------------------------------------------------------
Recorded(i) ==
    /\ todo' # todo /\ todo # <<>> /\ Head(todo).call = "record" /\ commandStatus' = "SUCCESS"
    /\ i \in Item \ Waiting /\ {<<i, "timed">>, <<i, "lost">>} \cap spoiled = {}

\* A command recorded as done has done what the master last wrote, unless a refresh
\* wrote over it before it was applied, or it found the queue full and another, older
\* command for the same item was at hand (modbus_slave_task.c: process_holding_write,
\* modbus_apply_coils, modbus_record_command).
AppliedAsWritten ==
    [][\A i \in Settings \cup Coils :
        Recorded(i) /\ <<i, "own">> \notin spoiled => applied[i] = written[i]]_slaveVars

\* "FC 16 Write Multiple Registers" changes several holding registers, and LastResult
\* says whether it did (docs/modbus_reference_manual.md).
RangeApplied ==
    [][\A i \in Settings : Recorded(i) => applied[i] = written[i]]_slaveVars

\* A write of one coil switches the other relay only if that one was switched by
\* somebody else, or written too, after the image was last refreshed
\* (modbus_slave_task.c: modbus_apply_coils, modbus_refresh_io).
OtherRelayStays ==
    [][\A c \in Coils : todo' # todo /\ device'[c] # device[c] => c \in moved]_slaveVars
=============================================================================
