------------------------------- MODULE Relays -------------------------------
(***************************************************************************)
(* The relays, the digital inputs and the reset line of the Ethernet chip, *)
(* on one port expander (components/io_expander, components/pcf8574).      *)
(*                                                                         *)
(* The expander has no registers: a write sends all pins at once from a    *)
(* latch kept in RAM, under a mutex; it pulls its interrupt line while the *)
(* inputs differ from what they were at the last access of any kind.  Two  *)
(* tasks write the relay, others read the inputs.  One relay stands for    *)
(* both; the lazy initialisation is that of the start of the device.       *)
(*                                                                         *)
(* A definition named after the one that follows it is a broken form of it.*)
(***************************************************************************)
EXTENDS Integers

CONSTANTS
    Writers,        \* tasks that switch the relay
    MaxErrors,      \* bound: failed I2C transfers
    MaxPulses       \* bound: resets of the Ethernet chip

ASSUME RelayAssumption == {MaxErrors, MaxPulses} \subseteq Nat

VARIABLES
    stage,          \* of the start
    latch, driven,  \* output_latch, and the pins of the device
    cached,         \* s_out0_level
    writer,         \* a level a task has written and not yet cached, or "idle"
    pulse,          \* of the reset line
    pulses,
    in, seen,       \* the inputs, and at the last access
    sem,            \* s_int_sem
    lastIn,         \* s_last_in0, s_last_in1
    ioAt, first,      \* of the expander task; its reading of IN0
    missed,         \* history: its last reading failed
    ioErrors

outputs == <<latch, driven, cached, writer, pulse, pulses>>
inputs == <<in, sem, lastIn, ioAt, first, missed>>
relayVars == <<stage, outputs, inputs, seen, ioErrors>>

Pins == {"relay", "rst"}
Inputs == {0, 1}
Levels == [Inputs -> BOOLEAN]
Released == TRUE                    \* the reset line is active low

IoTypeOK ==
    /\ stage \in {"none", "created", "directed", "latched", "half", "up", "armed", "run"}
    /\ latch \in [Pins -> BOOLEAN] /\ driven \in [Pins -> BOOLEAN]
    /\ cached \in BOOLEAN /\ writer \in [Writers -> {"idle", "on", "off"}]
    /\ pulse \in {"none", "held", "done", "failed"} /\ pulses \in 0..MaxPulses
    /\ {in, seen, lastIn} \subseteq Levels
    /\ {sem, first, missed} \subseteq BOOLEAN
    /\ ioAt \in {"wait", "read0", "read1"} /\ ioErrors \in 0..MaxErrors

AllHigh == [p \in Pins |-> TRUE]
InitialLatch == [AllHigh EXCEPT !.relay = FALSE]    \* the reset line released

IoInit ==
    /\ stage = "none"
    /\ latch = AllHigh /\ driven = AllHigh /\ cached = FALSE
    /\ writer = [w \in Writers |-> "idle"]
    /\ pulse = "none" /\ pulses = 0
    /\ in \in Levels /\ seen = in /\ lastIn = [i \in Inputs |-> FALSE]
    /\ sem = FALSE /\ ioAt = "wait" /\ first = FALSE /\ missed = FALSE
    /\ ioErrors = 0
-----------------------------------------------------------------------------
(* The device.                                                             *)

\* pcf8574_transmit_latch_locked()
Transmit(ok) ==
    /\ driven' = IF ok THEN latch' ELSE driven
    /\ seen' = IF ok THEN in ELSE seen
    /\ ok \/ ioErrors < MaxErrors
    /\ ioErrors' = IF ok THEN ioErrors ELSE ioErrors + 1

\* pcf8574_read_port()
Access(ok) ==
    /\ seen' = IF ok THEN in ELSE seen
    /\ ok \/ ioErrors < MaxErrors
    /\ ioErrors' = IF ok THEN ioErrors ELSE ioErrors + 1

\* The interrupt line falls when the inputs leave what they were; the handler, once
\* installed, gives the semaphore.
InputChanges(i) ==
    /\ in' = [in EXCEPT ![i] = ~@]
    /\ sem' = (sem \/ (in = seen /\ stage \in {"armed", "run"}))
    /\ UNCHANGED <<stage, outputs, seen, lastIn, ioAt, first, missed, ioErrors>>
-----------------------------------------------------------------------------
(* io_expander_init(), io_expander_start().                                *)

Teardown == stage' = "none"

\* pcf8574_create()
Create ==
    /\ stage = "none"
    /\ latch' = AllHigh
    /\ \E ok \in BOOLEAN : Transmit(ok) /\ stage' = IF ok THEN "created" ELSE "none"
    /\ UNCHANGED <<cached, writer, pulse, pulses, inputs>>

\* pcf8574_set_direction_mask()
Direct ==
    /\ stage = "created" /\ UNCHANGED latch
    /\ \E ok \in BOOLEAN : Transmit(ok) /\ IF ok THEN stage' = "directed" ELSE Teardown
    /\ UNCHANGED <<cached, writer, pulse, pulses, inputs>>

\* pcf8574_write_port()
WritePort ==
    /\ stage = "directed"
    /\ latch' = InitialLatch
    /\ \E ok \in BOOLEAN : Transmit(ok) /\ IF ok THEN stage' = "latched" ELSE Teardown
    /\ UNCHANGED <<cached, writer, pulse, pulses, inputs>>

ReadInitial0 ==
    /\ stage = "latched"
    /\ \E ok \in BOOLEAN :
        /\ Access(ok) /\ IF ok THEN stage' = "half" ELSE Teardown
        /\ lastIn' = IF ok THEN [lastIn EXCEPT ![0] = in[0]] ELSE lastIn
    /\ UNCHANGED <<outputs, in, sem, ioAt, first, missed>>

ReadInitial1 ==
    /\ stage = "half"
    /\ \E ok \in BOOLEAN :
        /\ Access(ok) /\ IF ok THEN stage' = "up" ELSE Teardown
        /\ lastIn' = IF ok THEN [lastIn EXCEPT ![1] = in[1]] ELSE lastIn
    /\ UNCHANGED <<outputs, in, sem, ioAt, first, missed>>

\* io_expander_interrupt_init()
InterruptInit ==
    /\ stage = "up" /\ stage' = "armed"
    /\ UNCHANGED <<outputs, inputs, seen, ioErrors>>

\* The task is created and made to look once.
StartTaskUnread ==
    /\ stage = "armed" /\ stage' = "run"
    /\ UNCHANGED <<outputs, inputs, seen, ioErrors>>

StartTask ==
    /\ stage = "armed" /\ stage' = "run"
    /\ sem' = TRUE
    /\ UNCHANGED <<outputs, in, lastIn, ioAt, first, missed, seen, ioErrors>>
-----------------------------------------------------------------------------
(* The inputs.                                                             *)

TakeInterrupt ==
    /\ stage = "run" /\ ioAt = "wait" /\ sem
    /\ sem' = FALSE /\ ioAt' = "read0"
    /\ UNCHANGED <<stage, outputs, seen, in, lastIn, first, missed, ioErrors>>

\* A reading that fails is not repeated.
ReadIn0 ==
    /\ ioAt = "read0"
    /\ \E ok \in BOOLEAN :
        /\ Access(ok)
        /\ ioAt' = IF ok THEN "read1" ELSE "wait"
        /\ first' = IF ok THEN in[0] ELSE FALSE
        /\ missed' = (missed \/ ~ok)
    /\ UNCHANGED <<stage, outputs, in, sem, lastIn>>

ReadIn1 ==
    /\ ioAt = "read1"
    /\ \E ok \in BOOLEAN :
        /\ Access(ok)
        /\ lastIn' = IF ok THEN [i \in Inputs |-> IF i = 0 THEN first ELSE in[1]] ELSE lastIn
        /\ missed' = ~ok
    /\ ioAt' = "wait" /\ first' = FALSE
    /\ UNCHANGED <<stage, outputs, in, sem>>

\* io_expander_get_in0(), io_expander_read_port(): the Modbus image, the panel.
PollInputs ==
    /\ stage = "run"
    /\ \E ok \in BOOLEAN : Access(ok)
    /\ UNCHANGED <<stage, outputs, inputs>>
-----------------------------------------------------------------------------
(* The outputs.                                                            *)

\* pcf8574_write_pin(): the bit stays in the latch when the transfer fails.
LatchedFromLevels(pin, level) ==
    IF pin = "relay" THEN [InitialLatch EXCEPT !.relay = level]
    ELSE [latch EXCEPT ![pin] = level]

Latched(pin, level) == [latch EXCEPT ![pin] = level]

\* io_expander_set_out0(): the device first, ...
SetOut(w, level) ==
    /\ stage = "run" /\ writer[w] = "idle"
    /\ latch' = Latched("relay", level)
    /\ \E ok \in BOOLEAN :
        /\ Transmit(ok)
        /\ writer' = IF ok THEN [writer EXCEPT ![w] = IF level THEN "on" ELSE "off"]
                     ELSE writer
    /\ UNCHANGED <<stage, cached, pulse, pulses, inputs>>

\* ... then the level others are told.
CacheOut(w) ==
    /\ writer[w] # "idle"
    /\ cached' = (writer[w] = "on")
    /\ writer' = [writer EXCEPT ![w] = "idle"]
    /\ UNCHANGED <<stage, latch, driven, pulse, pulses, inputs, seen, ioErrors>>

\* io_expander_w5500_reset_pulse(): asserted, ...
ResetAssert ==
    /\ stage = "run" /\ pulse # "held" /\ pulses < MaxPulses
    /\ pulses' = pulses + 1
    /\ latch' = Latched("rst", ~Released)
    /\ \E ok \in BOOLEAN : Transmit(ok) /\ pulse' = IF ok THEN "held" ELSE "failed"
    /\ UNCHANGED <<stage, cached, writer, inputs>>

\* ... and released.
ResetRelease ==
    /\ pulse = "held"
    /\ latch' = Latched("rst", Released)
    /\ \E ok \in BOOLEAN : Transmit(ok) /\ pulse' = IF ok THEN "done" ELSE "failed"
    /\ UNCHANGED <<stage, cached, writer, pulses, inputs>>

IoNext ==
    \/ Create \/ Direct \/ WritePort \/ ReadInitial0 \/ ReadInitial1 \/ InterruptInit
    \/ StartTask \/ TakeInterrupt \/ ReadIn0 \/ ReadIn1 \/ PollInputs
    \/ ResetAssert \/ ResetRelease
    \/ \E i \in Inputs : InputChanges(i)
    \/ \E w \in Writers : CacheOut(w) \/ \E level \in BOOLEAN : SetOut(w, level)

IoSpec == IoInit /\ [][IoNext]_relayVars
-----------------------------------------------------------------------------
\* Once the expander task is idle, the inputs last reported are the inputs, unless its
\* last reading failed: no change falls between two readings, into the start or behind
\* somebody else's access (io_expander.c: io_expander_task, io_expander_start).
InputsReported ==
    (stage = "run" /\ ioAt = "wait" /\ ~sem /\ ~missed) => lastIn = in

\* A relay switched meanwhile neither ends the reset of the Ethernet chip nor begins one
\* (io_expander.c: io_expander_w5500_reset_pulse; pcf8574.c: pcf8574_write_pin).
ResetIsWhole ==
    /\ pulse = "held" => driven.rst = ~Released
    /\ pulse \in {"none", "done"} /\ stage = "run" => driven.rst = Released
=============================================================================
