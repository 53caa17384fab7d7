----------------------------- MODULE PanelSound -----------------------------
(***************************************************************************)
(* What the panel sounds (main/app/home_screen.c: alarm_tick, button_click;*)
(* components/hmi_bsp: the buzzer, driven with the lights in one write).   *)
(*                                                                         *)
(* Every loop of the panel task turns once in HOME_POLL_MS and calls the   *)
(* tick, but for two information screens.  A tick stands for a fraction of *)
(* the 200 ms of sound and 800 ms of silence: here they are On and Off.    *)
(*                                                                         *)
(* A definition named after the one that follows it is a broken form of it.*)
(***************************************************************************)
EXTENDS Integers

CONSTANTS
    On, Off,        \* ticks of sound and of silence
    MaxLost         \* bound: failed writes to the port expander

ASSUME PanelSoundAssumption == {On, Off} \subseteq Nat \ {0} /\ MaxLost \in Nat

VARIABLES
    alarms,         \* whether an alarm is latched
    sound, click,   \* s_buzzer_alarm, s_buzzer_button
    blinkMs, beepMs,
    beep,           \* s_alarm_beep_state
    buzzer,         \* s_buzzer_on
    driven,         \* what the port really drives
    lost,           \* failed writes
    screen,         \* "ticking", "quiet" or "click"
    back,           \* the screen a click returns to
    silence         \* history: ticks of a latched, audible alarm since its last beep

soundVars == <<alarms, sound, click, blinkMs, beepMs, beep, buzzer, driven, lost,
               screen, back, silence>>

Cycle == On + Off

SoundTypeOK ==
    /\ {alarms, sound, click, beep, buzzer, driven} \subseteq BOOLEAN
    /\ blinkMs \in 0..Cycle-1 /\ beepMs \in 0..Cycle-1
    /\ lost \in 0..MaxLost
    /\ screen \in {"ticking", "quiet", "click"} /\ back \in {"ticking", "quiet"}
    /\ silence \in 0..Cycle

SoundInit ==
    /\ alarms = FALSE /\ sound = TRUE /\ click = TRUE
    /\ blinkMs = 0 /\ beepMs = 0 /\ beep = FALSE
    /\ buzzer = FALSE /\ driven = FALSE /\ lost = 0
    /\ screen = "ticking" /\ back = "ticking" /\ silence = 0

\* hmi_bsp_buzzer_set(): the level is kept, the write of the port may fail.
Buzz(level) ==
    /\ buzzer' = level
    /\ \/ driven' = level /\ UNCHANGED lost
       \/ lost < MaxLost /\ lost' = lost + 1 /\ UNCHANGED driven

Quietly == UNCHANGED <<buzzer, driven, lost>>

\* The phase of a cycle at the next tick.
StepWithoutWrap(ms) == IF ms + 1 > Cycle - 1 THEN ms ELSE ms + 1
Step(ms) == (ms + 1) % Cycle

\* alarm_tick()
AlarmTick ==
    /\ screen = "ticking"
    /\ \/ /\ ~alarms
          /\ blinkMs' = 0 /\ beepMs' = 0 /\ beep' = FALSE /\ silence' = 0
          /\ Quietly
       \/ /\ alarms /\ ~sound
          /\ blinkMs' = Step(blinkMs) /\ silence' = 0
          /\ UNCHANGED <<beepMs, beep>> /\ Quietly
       \/ /\ alarms /\ sound
          /\ blinkMs' = Step(blinkMs) /\ beepMs' = Step(beepMs)
          /\ beep' = (beepMs' < On)
          /\ silence' = IF beep' THEN 0 ELSE silence + 1
          /\ IF beep' # beep THEN Buzz(beep') ELSE Quietly
    /\ UNCHANGED <<alarms, sound, click, screen, back>>

\* button_click(): on, a delay in which the task does nothing else, ...
Click ==
    /\ screen # "click" /\ click
    /\ Buzz(TRUE)
    /\ back' = screen /\ screen' = "click"
    /\ UNCHANGED <<alarms, sound, click, blinkMs, beepMs, beep, silence>>

\* ... and off.
ClickEnds ==
    /\ screen = "click"
    /\ Buzz(FALSE)
    /\ screen' = back
    /\ UNCHANGED <<alarms, sound, click, blinkMs, beepMs, beep, back, silence>>

\* menu_device_info() and mqtt_info_show() stay without a tick until they are left.
QuietScreen ==
    /\ screen # "click"
    /\ screen' = IF screen = "quiet" THEN "ticking" ELSE "quiet"
    /\ UNCHANGED <<alarms, sound, click, blinkMs, beepMs, beep, buzzer, driven, lost,
                   back, silence>>

\* update_leds(): the write of changed lights carries the level of the buzzer.
Lights ==
    /\ screen = "ticking" /\ driven # buzzer
    /\ driven' = buzzer
    /\ UNCHANGED <<alarms, sound, click, blinkMs, beepMs, beep, buzzer, lost, screen,
                   back, silence>>

\* An alarm latches or its latch is reset; a setting is changed.
Settings ==
    /\ \/ alarms' = ~alarms /\ UNCHANGED <<sound, click>>
       \/ sound' = ~sound /\ UNCHANGED <<alarms, click>>
       \/ click' = ~click /\ UNCHANGED <<alarms, sound>>
    /\ UNCHANGED <<blinkMs, beepMs, beep, buzzer, driven, lost, screen, back, silence>>

SoundNext == AlarmTick \/ Click \/ ClickEnds \/ QuietScreen \/ Lights \/ Settings

SoundSpec == SoundInit /\ [][SoundNext]_soundVars
-----------------------------------------------------------------------------
\* While an alarm is latched and audible, no more ticks pass between two of its
\* beeps than its silence lasts, whatever is pressed or switched meanwhile
\* (home_screen.c: alarm_tick).
BeepReturns == silence <= Off
=============================================================================
