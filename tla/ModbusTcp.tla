----------------------------- MODULE ModbusTcp -----------------------------
(***************************************************************************)
(* The Modbus TCP server through which a grid operator commands the plant  *)
(* (main/app/modbus_tcp_task.c): one task owns the images, serves a table  *)
(* of clients in the order of select() and saves every changed command,    *)
(* which "has to outlive both the connection and a reboot".                *)
(*                                                                         *)
(* "enable" stands for the two coils, "setpoint" for the two holding       *)
(* registers; 0 is what the image holds before anything is read into it.   *)
(* Requests that command nothing are one case; the measured values are     *)
(* left out, and so is the test for a full buffer: no frame the length     *)
(* field admits is longer than the buffer, so it never holds.              *)
(*                                                                         *)
(* A definition named after the one that follows it is a broken form of it.*)
(***************************************************************************)
EXTENDS Integers, Sequences

CONSTANTS
    MaxClients,     \* MB_TCP_MAX_CLIENTS
    MaxFrames,      \* bound: frames received at once
    MaxFailures,    \* bound: savings and boots that NVS fails
    MaxRestarts     \* bound: losses of power

ASSUME ModbusTcpAssumption ==
    MaxClients \in Nat \ {0} /\ {MaxFrames, MaxFailures, MaxRestarts} \subseteq Nat

VARIABLES
    image,          \* s_coils, s_holding_regs
    control,        \* s_control, what other tasks are told
    stored,         \* in NVS
    at,             \* of the task
    open,           \* slots of s_clients in use
    part,           \* slots whose buffer holds the beginning of a frame
    ready, knock,   \* the set select() filled, clients and listener
    turn,           \* the slot being served
    frames,         \* complete frames left in its buffer
    saving,         \* items control_save() has still to write
    commanded,      \* history: the last command that was carried out
    unsaved,        \* history: items whose last command was not saved, for an error or
                    \* because the image held it already
    unread,         \* history: items that the boot could not read, still as stored
    lost,           \* history: items commanded before a boot, and the command is gone
    failures, restarts

images == <<image, control>>
nvs == <<stored, unsaved, unread, lost, failures>>
clients == <<open, part>>
pass == <<ready, knock, turn, frames>>
tcpVars == <<images, nvs, clients, pass, at, saving, commanded, restarts>>

Slots == 1..MaxClients
SaveOrder == <<"setpoint", "enable">>
Items == {"setpoint", "enable"}

TypeOK ==
    /\ {image, control, stored, commanded} \subseteq [Items -> 0..1]
    /\ at \in {"listen", "select", "serve", "save", "answer"}
    /\ open \subseteq Slots /\ part \subseteq open /\ ready \subseteq Slots
    /\ knock \in BOOLEAN /\ turn \in 1..MaxClients + 1 /\ frames \in 0..MaxFrames
    /\ saving \in Seq(Items) /\ {unsaved, unread, lost} \subseteq SUBSET Items
    /\ failures \in 0..MaxFailures /\ restarts \in 0..MaxRestarts

NoPass == ready' = {} /\ knock' = FALSE /\ turn' = 1 /\ frames' = 0
NoClients == open' = {} /\ part' = {}

Init ==
    /\ stored = [i \in Items |-> 0] /\ image = stored /\ control = stored
    /\ commanded = stored /\ unsaved = {} /\ unread = {} /\ lost = {}
    /\ failures = 0 /\ restarts = 0
    /\ at = "listen" /\ saving = <<>>
    /\ open = {} /\ part = {} /\ ready = {} /\ knock = FALSE /\ turn = 1 /\ frames = 0

Differing == {i \in Items : stored[i] # commanded[i]}

\* What cannot be read, all of it when NVS does not open, stays 0 in the image.
ReadBack ==
  \E misread \in SUBSET Items :
    /\ image' = [i \in Items |-> IF i \in misread THEN 0 ELSE stored[i]]
    /\ unread' = {i \in misread : stored[i] # 0}
    /\ failures' = failures + (IF misread = {} THEN 0 ELSE 1) /\ failures' <= MaxFailures

LoadUnpublished ==
    /\ ReadBack
    /\ control' = [i \in Items |-> 0]

\* mb_tcp_control_load(), after a loss of power at any moment.
Load ==
    /\ ReadBack
    /\ control' = image'                       \* mb_tcp_publish_control()

Restart ==
    /\ restarts < MaxRestarts /\ restarts' = restarts + 1
    /\ Load
    /\ lost' = Differing
    /\ unsaved' = {} /\ saving' = <<>> /\ at' = "listen" /\ NoClients /\ NoPass
    /\ UNCHANGED <<stored, commanded>>
-----------------------------------------------------------------------------
(* The loop of modbus_tcp_task().                                          *)

\* mb_tcp_listen(), tried again every 5 s.
Listen ==
    /\ at = "listen" /\ at' \in {"listen", "select"}
    /\ UNCHANGED <<images, nvs, clients, pass, saving, commanded, restarts>>

\* select() fills the set; when it fails, every connection goes.
Select ==
    /\ at = "select" /\ at' = "serve"
    /\ ready' \in SUBSET open /\ knock' \in BOOLEAN
    /\ UNCHANGED <<images, nvs, clients, turn, frames, saving, commanded, restarts>>

SelectFails ==
    /\ at = "select" /\ at' = "listen" /\ NoClients
    /\ UNCHANGED <<images, nvs, pass, saving, commanded, restarts>>

Serving(s) == at = "serve" /\ turn = s /\ frames = 0
CloseWithBuffer(s) == open' = open \ {s} /\ UNCHANGED part
Close(s) == open' = open \ {s} /\ part' = part \ {s}
AndOn == turn' = turn + 1 /\ UNCHANGED <<ready, knock>>
Aside == UNCHANGED <<images, nvs, saving, commanded, restarts>>

\* Nothing to do, or, after MB_TCP_IDLE_TOUT_MS without a byte, the end.
Pass(s) ==
    /\ Serving(s) /\ (s \notin open \/ s \notin ready)
    /\ UNCHANGED clients \/ (s \in open /\ Close(s))
    /\ AndOn /\ Aside /\ UNCHANGED <<frames, at>>

\* recv() ends the connection, or the stream is not Modbus TCP.
Drop(s) ==
    /\ Serving(s) /\ s \in open \cap ready
    /\ Close(s) /\ AndOn /\ Aside /\ UNCHANGED <<frames, at>>

\* recv(): frames completed, and perhaps the beginning of one more.
Receive(s) ==
    /\ Serving(s) /\ s \in open \cap ready
    /\ frames' \in 0..MaxFrames
    /\ \E more \in BOOLEAN :
        /\ more \/ frames' > 0
        /\ part' = IF more THEN part \cup {s} ELSE part \ {s}
    /\ ready' = ready \ {s} /\ turn' = IF frames' = 0 THEN turn + 1 ELSE turn
    /\ UNCHANGED <<open, knock, at>> /\ Aside

\* mb_tcp_drain_client(): send() may fail, and the client is closed with what it sent.
Answered(s) ==
    \/ /\ frames' = frames - 1 /\ turn' = IF frames = 1 THEN turn + 1 ELSE turn
       /\ UNCHANGED clients
    \/ Close(s) /\ frames' = 0 /\ turn' = turn + 1

\* mb_tcp_handle_pdu(): reads, exceptions, and frames for another unit.
Reply(s) ==
    /\ at = "serve" /\ turn = s /\ frames > 0
    /\ Answered(s)
    /\ UNCHANGED <<at, ready, knock>> /\ Aside

\* FC05 and FC06 with a new value ...
Command(s) ==
    /\ at = "serve" /\ turn = s /\ frames > 0
    /\ \E i \in Items :
        /\ image' = [image EXCEPT ![i] = 1 - @]
        /\ commanded' = [commanded EXCEPT ![i] = image'[i]]
        /\ unread' = unread \ {i} /\ lost' = lost \ {i}
    /\ control' = image'
    /\ saving' = SaveOrder /\ at' = "save"
    /\ UNCHANGED <<stored, unsaved, failures, clients, pass, restarts>>

\* ... and with the one in the image, which is not saved whatever is stored.
Repeat(s) ==
    /\ at = "serve" /\ turn = s /\ frames > 0
    /\ \E i \in Items :
        /\ commanded' = [commanded EXCEPT ![i] = image[i]]
        /\ unread' = unread \ {i} /\ lost' = lost \ {i}
        /\ unsaved' = IF stored[i] # image[i] THEN unsaved \cup {i} ELSE unsaved
    /\ Answered(s)
    /\ UNCHANGED <<images, stored, failures, at, ready, knock, saving, restarts>>

\* mb_tcp_control_save(): NVS does not open, ...
SaveNot ==
    /\ at = "save" /\ saving = SaveOrder
    /\ failures < MaxFailures /\ failures' = failures + 1
    /\ unsaved' = unsaved \cup Differing
    /\ saving' = <<>> /\ at' = "answer"
    /\ UNCHANGED <<images, stored, unread, lost, clients, pass, commanded, restarts>>

\* ... or the items are written one by one, also those that were not read, and nobody
\* asks for the results.
SaveItem ==
    /\ at = "save" /\ saving # <<>>
    /\ saving' = Tail(saving) /\ at' = IF saving' = <<>> THEN "answer" ELSE "save"
    /\ LET i == Head(saving) IN
       \/ /\ stored' = [stored EXCEPT ![i] = image[i]]
          /\ unsaved' = unsaved \ {i} /\ UNCHANGED failures
          /\ unread' = unread \ {i} /\ lost' = lost \cup (unread \cap {i})
       \/ /\ failures < MaxFailures /\ failures' = failures + 1
          /\ unsaved' = unsaved \cup (Differing \cap {i})
          /\ UNCHANGED <<stored, unread, lost>>
    /\ UNCHANGED <<images, clients, pass, commanded, restarts>>

Answer ==
    /\ at = "answer" /\ at' = "serve"
    /\ Answered(turn)
    /\ UNCHANGED <<ready, knock>> /\ Aside

\* mb_tcp_accept(): the first free slot, or nothing when the table is full.
Accept ==
    /\ at = "serve" /\ turn > MaxClients
    /\ at' = "select" /\ NoPass
    /\ open' = IF knock /\ open # Slots
               THEN open \cup {CHOOSE s \in Slots \ open : \A r \in Slots \ open : s <= r}
               ELSE open
    /\ UNCHANGED part /\ Aside

Next ==
    \/ Restart \/ Listen \/ Select \/ SelectFails \/ SaveNot \/ SaveItem \/ Answer \/ Accept
    \/ \E s \in Slots : Pass(s) \/ Drop(s) \/ Receive(s) \/ Reply(s) \/ Command(s) \/ Repeat(s)

Spec == Init /\ [][Next]_tcpVars
-----------------------------------------------------------------------------
\* What other tasks are told is the last command carried out, and it is stored, across
\* the end of its connection and restarts (modbus_tcp_task.c: "the command has to
\* outlive both the connection and a reboot").  It is not told by a boot that could not
\* read it, but still stored, and told by the next one - unless another command was
\* saved in between, with 0 for what had not been read.  It is not stored when saving it
\* failed, or when the image, but not NVS, held it already; and lost by a boot before it
\* is stored.
CommandOutlives ==
    /\ \A i \in Items \ (unread \cup lost) : control[i] = commanded[i]
    /\ at # "save" => \A i \in Items \ (unsaved \cup lost) : stored[i] = commanded[i]
=============================================================================
