------------------------- MODULE ConfigStore_proofs -------------------------
(* Proofs about the configuration store, and about the panel and its buzzer, *)
(* for any tasks and values and every value of the other constants.         *)
EXTENDS MCConfigStore, SequenceTheorems, TLAPS

-----------------------------------------------------------------------------
(* The panel and its buzzer.                                               *)

(* The buzzer.                                                             *)

\* The silence since the last beep is what the phase of the cycle says, or less.
Quiet(ms) == IF ms < On THEN 0 ELSE ms - On + 1
SilenceInv == silence <= Quiet(beepMs)

SoundInv == SoundTypeOK /\ SilenceInv

LEMMA SoundConstants == On \in Nat /\ On > 0 /\ Off \in Nat /\ Off > 0 /\ MaxLost \in Nat
BY PanelSoundAssumption

LEMMA PhaseIs ==
  ASSUME NEW ms \in 0..Cycle-1
  PROVE  Step(ms) = IF ms = Cycle - 1 THEN 0 ELSE ms + 1
BY SoundConstants DEF Step, Cycle

LEMMA QuietBound ==
  ASSUME NEW ms \in 0..Cycle-1
  PROVE  Quiet(ms) \in 0..Off /\ \A n \in Nat : n <= Quiet(ms) => n \in 0..Cycle
BY SoundConstants DEF Quiet, Cycle

LEMMA BuzzTypes ==
  ASSUME SoundTypeOK, NEW level \in BOOLEAN, Buzz(level)
  PROVE  buzzer' \in BOOLEAN /\ driven' \in BOOLEAN /\ lost' \in 0..MaxLost
<1>1. buzzer' \in BOOLEAN /\ driven' \in BOOLEAN
  BY Zenon DEF Buzz, SoundTypeOK
<1> QED BY <1>1, SoundConstants DEF Buzz, SoundTypeOK

LEMMA SoundInitial == SoundInit => SoundInv
<1> SUFFICES ASSUME SoundInit PROVE SoundInv
  OBVIOUS
<1>1. {alarms, sound, click, beep, buzzer, driven} \subseteq BOOLEAN
  BY Zenon DEF SoundInit
<1>2. blinkMs = 0 /\ beepMs = 0 /\ lost = 0 /\ screen = "ticking" /\ back = "ticking" /\ silence = 0
  BY DEF SoundInit
<1> QED BY <1>1, <1>2, SoundConstants DEF SoundInv, SoundTypeOK, SilenceInv, Quiet, Cycle

LEMMA TickStep ==
  ASSUME SoundInv, AlarmTick
  PROVE  SoundInv'
<1> DEFINE nextBlink == Step(blinkMs)
           nextBeep == Step(beepMs)
<1>1. /\ blinkMs \in 0..Cycle-1 /\ beepMs \in 0..Cycle-1 /\ silence \in 0..Cycle
      /\ lost \in 0..MaxLost
  BY DEF SoundInv, SoundTypeOK
<1>2. /\ nextBlink \in 0..Cycle-1 /\ nextBeep \in 0..Cycle-1
      /\ nextBeep = IF beepMs = Cycle - 1 THEN 0 ELSE beepMs + 1
  BY <1>1, PhaseIs, SoundConstants DEF Cycle
<1> HIDE DEF nextBlink, nextBeep
<1>3. blinkMs' \in 0..Cycle-1 /\ beepMs' \in 0..Cycle-1
  BY <1>1, <1>2, SoundConstants DEF AlarmTick, Cycle, nextBlink, nextBeep
<1>4. beep' \in BOOLEAN
  <2>1. (beepMs' < On) \in BOOLEAN
    OBVIOUS
  <2> QED BY <2>1, Zenon DEF AlarmTick, SoundInv, SoundTypeOK
<1>5. buzzer' \in BOOLEAN /\ driven' \in BOOLEAN /\ lost' \in 0..MaxLost
  <2>1. Quietly => buzzer' \in BOOLEAN /\ driven' \in BOOLEAN /\ lost' \in 0..MaxLost
    BY Zenon DEF Quietly, SoundInv, SoundTypeOK
  <2>2. Buzz(beep') => buzzer' \in BOOLEAN /\ driven' \in BOOLEAN /\ lost' \in 0..MaxLost
    BY <1>4, BuzzTypes DEF SoundInv
  <2> QED BY <2>1, <2>2, Zenon DEF AlarmTick
<1>6. silence' \in Nat /\ SilenceInv'
  <2>1. silence <= Quiet(beepMs)
    BY DEF SoundInv, SilenceInv
  <2>2. CASE silence' = 0
    BY <1>3, <2>2, QuietBound DEF SilenceInv
  <2>3. CASE alarms /\ sound /\ ~beep'
    <3>1. beepMs' = nextBeep /\ silence' = silence + 1 /\ ~(beepMs' < On)
      BY <2>3 DEF AlarmTick, nextBeep
    <3>2. beepMs' = beepMs + 1
      BY <1>1, <1>2, <3>1, SoundConstants
    <3> QED BY <1>1, <2>1, <3>1, <3>2, SoundConstants DEF SilenceInv, Quiet, Cycle
  <2> QED BY <2>2, <2>3 DEF AlarmTick
<1>7. silence' \in 0..Cycle
  BY <1>3, <1>6, QuietBound DEF SilenceInv
<1>8. /\ {alarms', sound', click', beep', buzzer', driven'} \subseteq BOOLEAN
      /\ screen' \in {"ticking", "quiet", "click"} /\ back' \in {"ticking", "quiet"}
  <2>1. UNCHANGED <<alarms, sound, click, screen, back>>
    BY DEF AlarmTick
  <2> QED BY <1>4, <1>5, <2>1, Zenon DEF SoundInv, SoundTypeOK
<1> QED BY <1>3, <1>5, <1>6, <1>7, <1>8 DEF SoundInv, SoundTypeOK

LEMMA SoundStep ==
  ASSUME SoundInv, [SoundNext]_soundVars
  PROVE  SoundInv'
<1>1. /\ {alarms, sound, click, beep, buzzer, driven} \subseteq BOOLEAN
      /\ screen \in {"ticking", "quiet", "click"} /\ back \in {"ticking", "quiet"}
      /\ SoundTypeOK /\ lost \in 0..MaxLost
  BY DEF SoundInv, SoundTypeOK
<1>2. ASSUME UNCHANGED <<blinkMs, beepMs, silence>>
      PROVE  SilenceInv' /\ blinkMs' \in 0..Cycle-1 /\ beepMs' \in 0..Cycle-1
             /\ silence' \in 0..Cycle
  BY <1>2 DEF SoundInv, SilenceInv, SoundTypeOK
<1>3. ASSUME UNCHANGED <<blinkMs, beepMs, silence>>, lost' \in 0..MaxLost,
             {alarms', sound', click', beep', buzzer', driven'} \subseteq BOOLEAN,
             screen' \in {"ticking", "quiet", "click"}, back' \in {"ticking", "quiet"}
      PROVE  SoundInv'
  BY <1>2, <1>3 DEF SoundInv, SoundTypeOK
<1>4. CASE AlarmTick
  BY <1>4, TickStep
<1>5. CASE Click
  <2>1. buzzer' \in BOOLEAN /\ driven' \in BOOLEAN /\ lost' \in 0..MaxLost
    BY <1>1, <1>5, BuzzTypes DEF Click
  <2>2. {alarms', sound', click', beep', buzzer', driven'} \subseteq BOOLEAN
    BY <1>1, <1>5, <2>1, Zenon DEF Click
  <2>3. back' \in {"ticking", "quiet"} /\ screen' = "click"
    BY <1>1, <1>5 DEF Click
  <2> QED BY <1>3, <1>5, <2>1, <2>2, <2>3 DEF Click
<1>6. CASE ClickEnds
  <2>1. buzzer' \in BOOLEAN /\ driven' \in BOOLEAN /\ lost' \in 0..MaxLost
    BY <1>1, <1>6, BuzzTypes DEF ClickEnds
  <2>2. {alarms', sound', click', beep', buzzer', driven'} \subseteq BOOLEAN
    BY <1>1, <1>6, <2>1, Zenon DEF ClickEnds
  <2>3. screen' \in {"ticking", "quiet"} /\ back' = back
    BY <1>1, <1>6 DEF ClickEnds
  <2> QED BY <1>1, <1>3, <1>6, <2>1, <2>2, <2>3 DEF ClickEnds
<1>7. CASE QuietScreen
  <2>1. {alarms', sound', click', beep', buzzer', driven'} \subseteq BOOLEAN
    BY <1>1, <1>7, Zenon DEF QuietScreen
  <2>2. screen' \in {"ticking", "quiet"} /\ back' = back /\ lost' = lost
    BY <1>7 DEF QuietScreen
  <2> QED BY <1>1, <1>3, <1>7, <2>1, <2>2 DEF QuietScreen
<1>8. CASE Lights
  <2>1. {alarms', sound', click', beep', buzzer', driven'} \subseteq BOOLEAN
    BY <1>1, <1>8, Zenon DEF Lights
  <2> QED BY <1>1, <1>3, <1>8, <2>1 DEF Lights
<1>9. CASE Settings
  <2>1. {alarms', sound', click', beep', buzzer', driven'} \subseteq BOOLEAN
    <3>1. (~alarms) \in BOOLEAN /\ (~sound) \in BOOLEAN /\ (~click) \in BOOLEAN
      OBVIOUS
    <3> QED BY <1>1, <1>9, <3>1, Zenon DEF Settings
  <2> QED BY <1>1, <1>3, <1>9, <2>1 DEF Settings
<1>10. CASE UNCHANGED soundVars
  <2>1. {alarms', sound', click', beep', buzzer', driven'} \subseteq BOOLEAN
    BY <1>1, <1>10, Zenon DEF soundVars
  <2> QED BY <1>1, <1>3, <1>10, <2>1 DEF soundVars
<1> QED BY <1>4, <1>5, <1>6, <1>7, <1>8, <1>9, <1>10 DEF SoundNext

LEMMA SoundInvariant == SoundSpec => []SoundInv
BY SoundInitial, SoundStep, PTL DEF SoundSpec

\* While an alarm is latched and audible, no more ticks pass between two of its beeps
\* than its silence lasts, however long sound and silence are (home_screen.c: alarm_tick).
THEOREM BeepComesBack == SoundSpec => []BeepReturns
<1>1. SoundInv => BeepReturns
  BY QuietBound, SoundConstants DEF SoundInv, SoundTypeOK, SilenceInv, BeepReturns, Cycle
<1> QED BY <1>1, SoundInvariant, PTL

\* The buzzer's state keeps its types (home_screen.c: alarm_tick, button_click).
THEOREM SoundTypeCorrect == SoundSpec => []SoundTypeOK
<1>1. SoundInv => SoundTypeOK
  BY DEF SoundInv
<1> QED BY <1>1, SoundInvariant, PTL
-----------------------------------------------------------------------------
(* The menu.                                                               *)

\* The screens of the menu, and how deep each of them lies in it.
Screens == {"ROOT", "SETTINGS", "METER", "MASTER", "SLAVE", "MQTT", "ALARM", "DETECT", "LIMITS",
            "PRESET", "OUTPUT", "ENERGY", "DISPLAY"}
Level(shown) == CASE shown = "ROOT" -> 1
                   [] shown = "SETTINGS" -> 2
                   [] shown \in {"DETECT", "LIMITS", "PRESET", "OUTPUT"} -> 4
                   [] OTHER -> 3

LEMMA ScreensAreRows == DOMAIN Rows = Screens
BY DEF Rows, Screens

LEMMA RowsLevel ==
  ASSUME NEW shown \in Screens, NEW n \in 1..Len(Rows[shown])
  PROVE Rows[shown][n] \in Screens => Level(Rows[shown][n]) = Level(shown) + 1
<1>1. CASE shown = "ROOT"
  BY <1>1 DEF Rows, Screens, Level
<1>2. CASE shown = "SETTINGS"
  BY <1>2 DEF Rows, Screens, Level
<1>3. CASE shown = "ALARM"
  BY <1>3 DEF Rows, Screens, Level
<1>4. CASE shown = "METER"
  BY <1>4 DEF Rows, Screens
<1>5. CASE shown = "MASTER"
  BY <1>5 DEF Rows, Screens
<1>6. CASE shown = "SLAVE"
  BY <1>6 DEF Rows, Screens
<1>7. CASE shown = "MQTT"
  BY <1>7 DEF Rows, Screens
<1>8. CASE shown = "DETECT"
  BY <1>8 DEF Rows, Screens
<1>9. CASE shown = "LIMITS"
  BY <1>9 DEF Rows, Screens
<1>10. CASE shown = "PRESET"
  BY <1>10 DEF Rows, Screens
<1>11. CASE shown = "OUTPUT"
  BY <1>11 DEF Rows, Screens
<1>12. CASE shown = "ENERGY"
  BY <1>12 DEF Rows, Screens
<1>13. CASE shown = "DISPLAY"
  BY <1>13 DEF Rows, Screens
<1> QED BY <1>1, <1>2, <1>3, <1>4, <1>5, <1>6, <1>7, <1>8, <1>9, <1>10, <1>11, <1>12, <1>13
        DEF Screens

LEMMA RowsLength ==
  ASSUME NEW shown \in Screens
  PROVE Len(Rows[shown]) \in Nat \ {0}
BY DEF Rows, Screens

\* The path from the root to the screen shown: it is never longer than the menu is deep.
Frames == [screen : Screens, sel : Nat]
Menus == Seq(Frames)
MenuInv ==
    /\ menu \in Menus /\ Len(menu) > 0
    /\ \A i \in 1..Len(menu) : /\ Level(menu[i].screen) = i
                             /\ menu[i].sel \in 1..Len(Rows[menu[i].screen])

LEMMA LevelBound == \A shown : Level(shown) \in 1..4
BY DEF Level

LEMMA MenuTypes ==
  ASSUME MenuInv
  PROVE  Len(menu) \in 1..4 /\ \A i \in 1..Len(menu) : menu[i].screen \in DOMAIN Rows
<1>1. Len(menu) \in Nat /\ Len(menu) > 0 /\ Len(menu) \in 1..Len(menu)
  BY DEF MenuInv, Menus
<1>2. Len(menu) \in 1..4
  <2>1. Level(menu[Len(menu)].screen) = Len(menu)
    BY <1>1 DEF MenuInv
  <2>2. Level(menu[Len(menu)].screen) \in 1..4
    BY LevelBound, Zenon
  <2> QED BY <2>1, <2>2
<1>3. \A i \in 1..Len(menu) : menu[i].screen \in Screens
  <2>1. \A i \in 1..Len(menu) : menu[i] \in Frames
    BY DEF MenuInv, Menus
  <2> QED BY <2>1 DEF Frames
<1> QED BY <1>2, <1>3, ScreensAreRows
LEMMA TopFacts ==
  ASSUME MenuInv
  PROVE  /\ Len(menu) \in Nat \ {0} /\ Top.screen \in Screens /\ Level(Top.screen) = Len(menu)
         /\ Top.sel \in 1..Len(Rows[Top.screen])
<1>1. Len(menu) \in Nat /\ Len(menu) > 0 /\ Len(menu) \in 1..Len(menu)
  BY DEF MenuInv, Menus
<1>2. menu[Len(menu)] \in Frames
  BY <1>1 DEF MenuInv, Menus
<1>3. menu[Len(menu)].screen \in Screens
  BY <1>2 DEF Frames
<1> QED BY <1>1, <1>3 DEF MenuInv, Top

LEMMA RootMenuInv == menu' = RootMenu => MenuInv'
<1> SUFFICES ASSUME menu' = RootMenu PROVE MenuInv'
  OBVIOUS
<1>1. Len(Rows["ROOT"]) = 3 /\ Level("ROOT") = 1 /\ "ROOT" \in Screens
  BY DEF Rows, Level, Screens
<1>2. [screen |-> "ROOT", sel |-> 1] \in Frames
  BY <1>1 DEF Frames
<1>3. menu' \in Menus /\ Len(menu') = 1 /\ menu'[1] = [screen |-> "ROOT", sel |-> 1]
  BY <1>2 DEF RootMenu, Menus
<1>4. menu'[1].screen = "ROOT" /\ menu'[1].sel = 1
  BY <1>3
<1> QED BY <1>1, <1>3, <1>4 DEF MenuInv

\* The keys of the menu: up and down, into a screen, back.
LEMMA SelectInv ==
  ASSUME MenuInv, NEW n \in 1..Len(Rows[Top.screen]), Select(n)
  PROVE  MenuInv'
<1>1. /\ Len(menu) \in Nat \ {0} /\ Top.screen \in Screens /\ menu \in Menus
      /\ Top = menu[Len(menu)] /\ Len(menu) \in 1..Len(menu) /\ n \in Nat
      /\ Len(Rows[Top.screen]) \in Nat
  BY TopFacts, RowsLength DEF MenuInv, Top
<1>2. menu' = [menu EXCEPT ![Len(menu)] = [menu[Len(menu)] EXCEPT !.sel = n]]
  BY DEF Select
<1>3. /\ [menu[Len(menu)] EXCEPT !.sel = n] = [screen |-> Top.screen, sel |-> n]
      /\ [screen |-> Top.screen, sel |-> n] \in Frames
  <2>1. menu[Len(menu)] \in Frames
    BY <1>1 DEF Menus
  <2> QED BY <1>1, <2>1 DEF Frames
<1>4. menu' \in Menus /\ Len(menu') = Len(menu)
  BY <1>1, <1>2, <1>3 DEF Menus
<1>5. \A i \in 1..Len(menu) : menu'[i] = IF i = Len(menu) THEN [screen |-> Top.screen, sel |-> n]
                                           ELSE menu[i]
  BY <1>1, <1>2, <1>3 DEF Menus
<1>6. \A i \in 1..Len(menu) : /\ menu'[i].screen = menu[i].screen
                             /\ menu'[i].sel = IF i = Len(menu) THEN n ELSE menu[i].sel
  BY <1>1, <1>5
<1> QED BY <1>1, <1>4, <1>6 DEF MenuInv

LEMMA OpenInv ==
  ASSUME MenuInv, Row \in DOMAIN Rows, menu' = Append(menu, [screen |-> Row, sel |-> 1])
  PROVE  MenuInv'
<1> DEFINE opened == [screen |-> Row, sel |-> 1]
<1>1. Row \in Screens /\ Level(Row) = Len(menu) + 1
  BY TopFacts, RowsLevel, ScreensAreRows DEF Row
<1>2. Len(Rows[Row]) \in Nat \ {0}
  BY <1>1, RowsLength
<1>3. opened \in Frames /\ opened.screen = Row /\ opened.sel = 1
  BY <1>1 DEF Frames
<1> HIDE DEF opened
<1>4. menu' = Append(menu, opened)
  BY DEF opened
<1>5. /\ menu' \in Menus /\ Len(menu') = Len(menu) + 1 /\ menu'[Len(menu) + 1] = opened
      /\ \A i \in 1..Len(menu) : menu'[i] = menu[i]
  BY <1>3, <1>4 DEF MenuInv, Menus
<1>6. Len(menu) \in Nat
  BY TopFacts
<1>7. \A i \in 1..Len(menu') : i \in 1..Len(menu) \/ i = Len(menu) + 1
  BY <1>5, <1>6
<1>8. 1 \in 1..Len(Rows[Row])
  BY <1>2
<1>9. \A i \in 1..Len(menu') : /\ Level(menu'[i].screen) = i
                              /\ menu'[i].sel \in 1..Len(Rows[menu'[i].screen])
  <2> TAKE i \in 1..Len(menu')
  <2>1. CASE i \in 1..Len(menu)
    BY <1>5, <2>1 DEF MenuInv
  <2>2. CASE i = Len(menu) + 1
    <3>1. menu'[i] = opened
      BY <1>5, <2>2
    <3> QED BY <1>1, <1>3, <1>8, <2>2, <3>1
  <2> QED BY <1>7, <2>1, <2>2
<1>10. Len(menu') > 0
  BY <1>5, <1>6
<1> QED BY <1>5, <1>9, <1>10 DEF MenuInv

LEMMA BackInv ==
  ASSUME MenuInv, Len(menu) > 1, menu' = SubSeq(menu, 1, Len(menu) - 1)
  PROVE  MenuInv'
<1>1. Len(menu) \in Nat /\ menu \in Menus
  BY TopFacts DEF MenuInv
<1>2. /\ menu' \in Menus /\ Len(menu') = Len(menu) - 1
      /\ \A i \in 1..(Len(menu) - 1) : menu'[i] = menu[i] /\ i \in 1..Len(menu)
  BY <1>1 DEF Menus
<1>3. \A i \in 1..Len(menu') : /\ Level(menu'[i].screen) = i
                              /\ menu'[i].sel \in 1..Len(Rows[menu'[i].screen])
  BY <1>2 DEF MenuInv
<1>4. Len(menu') > 0
  BY <1>1, <1>2
<1> QED BY <1>2, <1>3, <1>4 DEF MenuInv

LEMMA NavigateInv ==
  ASSUME MenuInv, NEW e, Navigate(e)
  PROVE  MenuInv'
<1>1. /\ Top.screen \in Screens /\ Top.sel \in 1..Len(Rows[Top.screen])
      /\ Len(Rows[Top.screen]) \in Nat \ {0}
  BY TopFacts, RowsLength
<1>2. Up \in 1..Len(Rows[Top.screen]) /\ Down \in 1..Len(Rows[Top.screen])
  BY <1>1 DEF Up, Down
<1>3. CASE Select(Up) \/ Select(Down)
  BY <1>2, <1>3, SelectInv
<1>4. CASE Stay
  BY <1>4 DEF Stay, MenuInv
<1>5. CASE Len(menu) > 1 /\ menu' = SubSeq(menu, 1, Len(menu) - 1)
  BY <1>5, BackInv
<1>6. CASE Row \in DOMAIN Rows /\ menu' = Append(menu, [screen |-> Row, sel |-> 1])
  BY <1>6, OpenInv
<1> QED BY <1>3, <1>4, <1>5, <1>6 DEF Navigate
-----------------------------------------------------------------------------
(* The parts of the panel's invariant, step by step.                       *)

\* The parts of PanelTypeOK.
KeyTypes == {held, last, prev} \subseteq Keys \cup {"NONE"} /\ fails \in 0..MaxFails

\* Where the task is; behind the wait for the keys and in a modal loop, `next` is its screen.
Loops == {"poll", "copy", "keys"}
PlaceInv ==
    /\ at \in Modals \cup Loops \cup {"release"} /\ next \in Modals
    /\ mode \in {"main", "status", "menu"} /\ sub \in 0..IoPage /\ io \in {"view", "out0", "out1"}
    /\ IF at \in Loops THEN next = "redraw" ELSE at \in {"release", next}

BoundTypes == writes \in 0..MaxWrites /\ edits \in 0..MaxEdits

Drafts == [base : PanelConfig, field : PanelFields, val : BOOLEAN, since : SUBSET PanelFields]
ConfigTypes ==
    /\ panelRam \in PanelConfig /\ nvs \in PanelConfig /\ view \in PanelConfig
    /\ mirror \in [LcdFields -> BOOLEAN]
    /\ pending \in BOOLEAN /\ unapplied \subseteq LcdFields /\ since \subseteq PanelFields
    /\ draft \in Drafts

\* Which row of the menu a screen has been opened from, and what has been made sure of then.
EditRows == {"role", "sound", "enable", "detect", "limit", "timed", "id", "baud", "ct", "active",
             "poll", "period", "preset", "frequency"}
RowInv ==
    /\ next = "slots" => Row = "active"
    /\ next \in {"edit", "commit", "save"} => Row \in EditRows
    /\ next \in {"checking", "offer", "installing"} => Row = "fw"
    /\ next \in {"portal", "stop"} => Row = "portal"
    /\ next \in {"commit", "save"} /\ Row = "sound" => draft.field = "lcd"
    /\ next = "commit" => edits < MaxEdits
    /\ next \in {"ask", "confirm", "do"} /\ Row \in {"ct", "preset"} => edits < MaxEdits

LEMMA RowKept == menu' = menu => Row' = Row
BY DEF Row, Top

\* Keys, place, bounds and the row a screen belongs to.
LEMMA PlaceStep ==
  ASSUME KeyTypes, PlaceInv, ConfigTypes, BoundTypes, RowInv, [PanelNext]_panelState
  PROVE  KeyTypes' /\ PlaceInv' /\ BoundTypes' /\ RowInv'
<1> USE RowKept, PanelAssumption DEF KeyTypes, PlaceInv, ConfigTypes, BoundTypes, RowInv,
        Drafts, Loops, Modals, IoPage, NextIo, AtKeys, EditRows, Draft, FieldOf, Flip, Sees,
        Sample, Edge, Remain, Enter, EnterAtOnce, Question, NoQuestion, Modal, MainLoop,
        InMode, Again, keys, settings, drafts, screens, Choosing, Shows, Flips, Opens,
        Editing, Acts, Committing, Finish, PanelVars
<1>1. CASE TakeRequest \/ CopyMirror \/ MainPages \/ StatusPages \/ MenuKey \/ Redraw
           \/ Release
  <2>1. CASE TakeRequest
    BY <2>1, SMTT(60) DEF TakeRequest
  <2>2. CASE CopyMirror
    BY <2>2, SMTT(60) DEF CopyMirror
  <2>3. CASE MainPages
    BY <2>3, SMTT(60) DEF MainPages
  <2>4. CASE StatusPages
    BY <2>4, SMTT(60) DEF StatusPages
  <2>5. CASE MenuKey
    BY <2>5, SMTT(60) DEF MenuKey
  <2>6. CASE Redraw
    BY <2>6, SMTT(60) DEF Redraw
  <2>7. CASE Release
    BY <2>7, SMTT(60) DEF Release
  <2> QED BY <1>1, <2>1, <2>2, <2>3, <2>4, <2>5, <2>6, <2>7
<1>2. CASE OpenScreen
  <2>1. CASE LineFreq
    BY <2>1, SMTT(60) DEF LineFreq
  <2>2. CASE OpenScreen /\ ~LineFreq
    BY <2>2, SMTT(60) DEF OpenScreen, DeviceInfo, MqttInfo, TcpServer, RtuInfo,
       AlarmOutRole, BuzzerPreferences, MqttToggle, AlarmConfig, TimedSetting, SlaveId,
       SlaveBaud, CurrentCt, RtuActive, RtuPoll, MqttPeriod
  <2> QED BY <1>2, <2>1, <2>2
<1>3. CASE AskFirst \/ ResetLatch \/ CheckFirmware \/ Ask \/ Confirm
  BY <1>3, SMTT(60) DEF AskFirst, ResetLatch, CheckFirmware, Ask, Confirm
<1>4. CASE EditSeconds \/ EditAlarmValue \/ EditU8 \/ EditBaud \/ EditRatio \/ Slots
  BY <1>4, SMTT(60) DEF EditSeconds, EditAlarmValue, EditU8, EditBaud, EditRatio, Slots
<1>5. CASE Info \/ Devices \/ Result \/ Checking \/ Offer \/ Installing \/ NotYetRestarted
           \/ Portal \/ StopPortal
  BY <1>5, SMTT(60) DEF Info, Devices, Result, Checking, Offer, Installing, NotYetRestarted,
     Portal, StopPortal
<1>6. CASE FactoryReset \/ Refused \/ CommitConfirmed \/ StartPortal \/ Install
           \/ RebootForSlave
  BY <1>6, SMTT(60) DEF FactoryReset, Refused, CommitConfirmed, StartPortal, Install,
     RebootForSlave
<1>7. CASE Commit
  BY <1>7, SMTT(60) DEF Commit
<1>8. CASE Save
  BY <1>8, SMTT(60) DEF Save
<1>9. CASE LetGo \/ OtherApply \/ Restart
  BY <1>9, SMTT(60) DEF LetGo, OtherApply, Restart
<1>10. ASSUME NEW k \in Keys, Press(k) PROVE KeyTypes' /\ PlaceInv' /\ BoundTypes' /\ RowInv'
  BY <1>10, SMTT(60) DEF Press
<1>11. ASSUME NEW f \in PanelFields, OtherUpdate(f)
       PROVE  KeyTypes' /\ PlaceInv' /\ BoundTypes' /\ RowInv'
  BY <1>11, SMTT(60) DEF OtherUpdate
<1>12. CASE UNCHANGED panelState
  BY <1>12, SMTT(60) DEF panelState
<1> QED BY <1>1, <1>2, <1>3, <1>4, <1>5, <1>6, <1>7, <1>8, <1>9, <1>10, <1>11, <1>12
        DEF PanelNext, Task, Environment

LEMMA MenuKept ==
  ASSUME MenuInv, menu' = menu
  PROVE  MenuInv'
BY DEF MenuInv

LEMMA MenuStep ==
  ASSUME MenuInv, [PanelNext]_panelState
  PROVE  MenuInv'
<1> USE MenuKept, RootMenuInv, NavigateInv DEF Sees, Sample, Edge, Remain, Enter, EnterAtOnce,
        Question, NoQuestion, Modal, MainLoop, InMode, Again, keys, settings, drafts,
        screens, Choosing, Shows, Flips, Opens, Editing, Acts, Committing, Finish, PanelVars
<1>1. CASE TakeRequest \/ CopyMirror \/ MainPages \/ StatusPages \/ MenuKey \/ Redraw
           \/ Release
  BY <1>1 DEF TakeRequest, CopyMirror, MainPages, StatusPages, MenuKey, Redraw, Release,
     Stay
<1>2. CASE OpenScreen
  BY <1>2 DEF OpenScreen, DeviceInfo, MqttInfo, TcpServer, RtuInfo, LineFreq, AlarmOutRole,
     BuzzerPreferences, MqttToggle, AlarmConfig, TimedSetting, SlaveId, SlaveBaud,
     CurrentCt, RtuActive, RtuPoll, MqttPeriod, Stay
<1>3. CASE AskFirst \/ ResetLatch \/ CheckFirmware \/ Ask \/ Confirm
  BY <1>3 DEF AskFirst, ResetLatch, CheckFirmware, Ask, Confirm, Stay
<1>4. CASE EditSeconds \/ EditAlarmValue \/ EditU8 \/ EditBaud \/ EditRatio \/ Slots
  BY <1>4 DEF EditSeconds, EditAlarmValue, EditU8, EditBaud, EditRatio, Slots, Stay
<1>5. CASE Info \/ Devices \/ Result \/ Checking \/ Offer \/ Installing \/ NotYetRestarted
           \/ Portal \/ StopPortal
  BY <1>5 DEF Info, Devices, Result, Checking, Offer, Installing, NotYetRestarted, Portal,
     StopPortal, Stay
<1>6. CASE FactoryReset \/ Refused \/ CommitConfirmed \/ StartPortal \/ Install
           \/ RebootForSlave
  BY <1>6 DEF FactoryReset, Refused, CommitConfirmed, StartPortal, Install, RebootForSlave,
     Stay
<1>7. CASE Commit
  BY <1>7 DEF Commit, Stay
<1>8. CASE Save
  BY <1>8 DEF Save, Stay
<1>9. CASE LetGo \/ OtherApply \/ Restart
  BY <1>9 DEF LetGo, OtherApply, Restart, Stay
<1>10. ASSUME NEW k \in Keys, Press(k) PROVE MenuInv'
  BY <1>10 DEF Press, Stay
<1>11. ASSUME NEW f \in PanelFields, OtherUpdate(f) PROVE MenuInv'
  BY <1>11 DEF OtherUpdate, Stay
<1>12. CASE UNCHANGED panelState
  BY <1>12 DEF panelState, Stay
<1> QED BY <1>1, <1>2, <1>3, <1>4, <1>5, <1>6, <1>7, <1>8, <1>9, <1>10, <1>11, <1>12
        DEF PanelNext, Task, Environment

AnswerTypes == {answered, blind, yes} \subseteq BOOLEAN

LEMMA AnswerStep ==
  ASSUME AnswerTypes, [PanelNext]_panelState
  PROVE  AnswerTypes'
<1> USE DEF AnswerTypes, Sees, Sample, Edge, Remain, Enter, EnterAtOnce, Question,
        NoQuestion, Modal, MainLoop, InMode, Again, keys, settings, drafts, screens,
        Choosing, Shows, Flips, Opens, Editing, Acts, Committing, Finish, PanelVars
<1>1. CASE TakeRequest \/ CopyMirror \/ MainPages \/ StatusPages \/ MenuKey \/ Redraw
           \/ Release
  BY <1>1, Zenon DEF TakeRequest, CopyMirror, MainPages, StatusPages, MenuKey, Redraw,
     Release, Asking
<1>2. CASE OpenScreen
  BY <1>2, Zenon DEF OpenScreen, DeviceInfo, MqttInfo, TcpServer, RtuInfo, LineFreq,
     AlarmOutRole, BuzzerPreferences, MqttToggle, AlarmConfig, TimedSetting, SlaveId,
     SlaveBaud, CurrentCt, RtuActive, RtuPoll, MqttPeriod, Asking
<1>3. CASE AskFirst \/ ResetLatch \/ CheckFirmware \/ Ask \/ Confirm
  BY <1>3, Zenon DEF AskFirst, ResetLatch, CheckFirmware, Ask, Confirm, Asking
<1>4. CASE EditSeconds \/ EditAlarmValue \/ EditU8 \/ EditBaud \/ EditRatio \/ Slots
  BY <1>4, Zenon DEF EditSeconds, EditAlarmValue, EditU8, EditBaud, EditRatio, Slots, Asking
<1>5. CASE Info \/ Devices \/ Result \/ Checking \/ Offer \/ Installing \/ NotYetRestarted
           \/ Portal \/ StopPortal
  BY <1>5, Zenon DEF Info, Devices, Result, Checking, Offer, Installing, NotYetRestarted,
     Portal, StopPortal, Asking
<1>6. CASE FactoryReset \/ Refused \/ CommitConfirmed \/ StartPortal \/ Install
           \/ RebootForSlave
  BY <1>6, Zenon DEF FactoryReset, Refused, CommitConfirmed, StartPortal, Install,
     RebootForSlave, Asking
<1>7. CASE Commit
  BY <1>7, Zenon DEF Commit, Asking
<1>8. CASE Save
  BY <1>8, Zenon DEF Save, Asking
<1>9. CASE LetGo \/ OtherApply \/ Restart
  BY <1>9, Zenon DEF LetGo, OtherApply, Restart, Asking
<1>10. ASSUME NEW k \in Keys, Press(k) PROVE AnswerTypes'
  BY <1>10, Zenon DEF Press, Asking
<1>11. ASSUME NEW f \in PanelFields, OtherUpdate(f) PROVE AnswerTypes'
  BY <1>11, Zenon DEF OtherUpdate, Asking
<1>12. CASE UNCHANGED panelState
  BY <1>12, Zenon DEF panelState, Asking
<1> QED BY <1>1, <1>2, <1>3, <1>4, <1>5, <1>6, <1>7, <1>8, <1>9, <1>10, <1>11, <1>12
        DEF PanelNext, Task, Environment

LEMMA DraftIs ==
  ASSUME NEW base \in PanelConfig, NEW seen \in SUBSET PanelFields, NEW field \in PanelFields,
         NEW val \in BOOLEAN, Draft(base, seen, field, val)
  PROVE  draft' \in Drafts
BY DEF Draft, Drafts

LEMMA WrittenIs ==
  ASSUME ConfigTypes
  PROVE  /\ Written \in PanelConfig
         /\ \A f \in PanelFields : Written[f] = IF f = draft.field THEN draft.val ELSE draft.base[f]
BY DEF ConfigTypes, Written, Drafts, PanelConfig

LEMMA FinishTypes ==
  ASSUME ConfigTypes, NEW ok \in BOOLEAN, Finish(ok)
  PROVE  draft' \in Drafts
<1>1. /\ draft \in Drafts /\ panelRam \in PanelConfig /\ Written \in PanelConfig
      /\ draft.base[draft.field] \in BOOLEAN
  BY WrittenIs DEF ConfigTypes, Drafts, PanelConfig
<1> QED BY <1>1 DEF Finish, Drafts

LEMMA NotIsBoolean == \A b : (~b) \in BOOLEAN
OBVIOUS

LEMMA FlipIs ==
  ASSUME ConfigTypes
  PROVE  Flip \in Drafts /\ \A b : [draft EXCEPT !.val = ~b] \in Drafts
<1>1. \A v \in BOOLEAN : [draft EXCEPT !.val = v] \in Drafts
  BY DEF ConfigTypes, Drafts
<1> QED BY <1>1, NotIsBoolean DEF Flip

LEMMA EditorTypes ==
  ASSUME ConfigTypes,
         EditSeconds \/ EditAlarmValue \/ EditU8 \/ EditBaud \/ EditRatio \/ Slots
  PROVE  draft' \in Drafts
<1>1. Flip \in Drafts /\ draft \in Drafts /\ \A b : [draft EXCEPT !.val = ~b] \in Drafts
  BY FlipIs DEF ConfigTypes
<1>2. ASSUME NEW rows, NEW done, Editing(rows, done)
      PROVE  draft' \in {draft, Flip}
  BY <1>2 DEF Editing
<1>3. CASE Slots
  BY <1>1, <1>3 DEF Slots
<1> QED BY <1>1, <1>2, <1>3 DEF EditSeconds, EditAlarmValue, EditU8, EditBaud, EditRatio

\* The configuration, the mirror and the draft.
LEMMA ConfigStep ==
  ASSUME ConfigTypes, [PanelNext]_panelState
  PROVE  ConfigTypes'
<1> USE DEF ConfigTypes, Drafts, Draft, FieldOf, Defaults, NoDraft, PanelConfig,
        PanelFields, LcdFields, MirrorOf, Written, Applied, KeepMirror, Sees, Sample, Edge,
        Remain, Enter, EnterAtOnce, Question, NoQuestion, Modal, MainLoop, InMode, Again,
        keys, settings, drafts, screens, Choosing, Shows, Flips, Opens, Editing, Acts,
        Committing, Finish, PanelVars
<1>1. CASE TakeRequest \/ CopyMirror \/ MainPages \/ StatusPages \/ MenuKey \/ Redraw
           \/ Release
  <2>1. CASE TakeRequest
    BY <2>1 DEF TakeRequest
  <2>2. CASE CopyMirror
    BY <2>2 DEF CopyMirror
  <2>3. CASE MainPages
    BY <2>3 DEF MainPages
  <2>4. CASE StatusPages
    BY <2>4 DEF StatusPages
  <2>5. CASE MenuKey
    BY <2>5 DEF MenuKey
  <2>6. CASE Redraw
    BY <2>6 DEF Redraw
  <2>7. CASE Release
    BY <2>7 DEF Release
  <2> QED BY <1>1, <2>1, <2>2, <2>3, <2>4, <2>5, <2>6, <2>7
<1>2. CASE OpenScreen
  <2>1. CASE DeviceInfo
    BY <2>1 DEF DeviceInfo
  <2>2. CASE MqttInfo
    BY <2>2 DEF MqttInfo
  <2>3. CASE TcpServer
    BY <2>3 DEF TcpServer
  <2>4. CASE RtuInfo
    BY <2>4 DEF RtuInfo
  <2>5. CASE LineFreq
    <3>1. Draft(panelRam, {}, "site", ~panelRam.site) => draft' \in Drafts
      BY DraftIs, NotIsBoolean DEF PanelFields
    <3>2. draft' \in Drafts
      BY <2>5, <3>1 DEF LineFreq
    <3> QED BY <2>5, <3>2 DEF LineFreq
  <2>6. CASE AlarmOutRole
    BY <2>6 DEF AlarmOutRole
  <2>7. CASE BuzzerPreferences
    BY <2>7 DEF BuzzerPreferences
  <2>8. CASE MqttToggle
    BY <2>8 DEF MqttToggle
  <2>9. CASE AlarmConfig
    <3>1. Flips("detect", panelRam, {}, ~panelRam.site) => draft' \in Drafts
      BY DraftIs, NotIsBoolean DEF Flips, FieldOf
    <3>2. Opens("limit", panelRam, {}, "edit") => draft' \in Drafts
      BY DraftIs DEF Opens, FieldOf, PanelFields, PanelConfig
    <3> QED BY <2>9, <3>1, <3>2 DEF AlarmConfig
  <2>10. CASE TimedSetting
    BY <2>10 DEF TimedSetting
  <2>11. CASE SlaveId
    BY <2>11 DEF SlaveId
  <2>12. CASE SlaveBaud
    BY <2>12 DEF SlaveBaud
  <2>13. CASE CurrentCt
    BY <2>13 DEF CurrentCt
  <2>14. CASE RtuActive
    BY <2>14 DEF RtuActive
  <2>15. CASE RtuPoll
    BY <2>15 DEF RtuPoll
  <2>16. CASE MqttPeriod
    BY <2>16 DEF MqttPeriod
  <2> QED BY <1>2, <2>1, <2>2, <2>3, <2>4, <2>5, <2>6, <2>7, <2>8, <2>9, <2>10, <2>11,
             <2>12, <2>13, <2>14, <2>15, <2>16 DEF OpenScreen
<1>3. CASE ResetLatch \/ CheckFirmware \/ Ask \/ Confirm
  BY <1>3 DEF ResetLatch, CheckFirmware, Ask, Confirm
<1>4. CASE AskFirst
  <2>1. Draft(panelRam, {}, "site", ~panelRam.site) => draft' \in Drafts
    BY DraftIs, NotIsBoolean DEF PanelFields
  <2>2. draft' \in Drafts
    BY <1>4, <2>1 DEF AskFirst
  <2> QED BY <1>4, <2>2 DEF AskFirst
<1>5. CASE EditSeconds \/ EditAlarmValue \/ EditU8 \/ EditBaud \/ EditRatio \/ Slots
  <2>1. draft' \in Drafts
    BY <1>5, EditorTypes
  <2> QED BY <1>5, <2>1 DEF EditSeconds, EditAlarmValue, EditU8, EditBaud, EditRatio, Slots
<1>6. CASE Info \/ Devices \/ Result \/ Checking \/ Offer \/ Installing \/ NotYetRestarted
           \/ Portal \/ StopPortal
  BY <1>6 DEF Info, Devices, Result, Checking, Offer, Installing, NotYetRestarted, Portal,
     StopPortal
<1>7. CASE FactoryReset \/ Refused \/ CommitConfirmed \/ StartPortal \/ Install
           \/ RebootForSlave
  <2>1. CASE FactoryReset
    BY <2>1 DEF FactoryReset
  <2>2. CASE Refused
    BY <2>2 DEF Refused
  <2>3. CASE CommitConfirmed
    BY <2>3 DEF CommitConfirmed
  <2>4. CASE StartPortal
    BY <2>4 DEF StartPortal
  <2>5. CASE Install
    BY <2>5 DEF Install
  <2>6. CASE RebootForSlave
    BY <2>6 DEF RebootForSlave
  <2> QED BY <1>7, <2>1, <2>2, <2>3, <2>4, <2>5, <2>6
<1>8. CASE Commit
  <2>1. draft' \in Drafts /\ panelRam' \in PanelConfig
    BY <1>8, FinishTypes, WrittenIs DEF Commit
  <2> QED BY <1>8, <2>1 DEF Commit
<1>9. CASE Save
  <2>1. draft' \in Drafts
    BY <1>9, FinishTypes DEF Save
  <2>2. mirror' \in [LcdFields -> BOOLEAN]
    <3>1. draft.val \in BOOLEAN
      BY DEF Drafts
    <3> QED BY <1>9, <3>1 DEF Save, KeepMirror, LcdFields
  <2>3. pending' \in BOOLEAN
    BY <1>9, Zenon DEF Save, Applied
  <2>4. unapplied' \subseteq LcdFields
    BY <1>9 DEF Save, Applied
  <2> QED BY <1>9, <2>1, <2>2, <2>3, <2>4 DEF Save
<1>10. CASE LetGo \/ OtherApply \/ Restart
  <2>1. CASE LetGo
    BY <2>1 DEF LetGo
  <2>2. CASE OtherApply
    BY <2>2 DEF OtherApply
  <2>3. CASE Restart
    BY <2>3 DEF Restart
  <2> QED BY <1>10, <2>1, <2>2, <2>3
<1>11. ASSUME NEW k \in Keys, Press(k) PROVE ConfigTypes'
  BY <1>11 DEF Press
<1>12. ASSUME NEW f \in PanelFields, OtherUpdate(f) PROVE ConfigTypes'
  BY <1>12 DEF OtherUpdate
<1>13. CASE UNCHANGED panelState
  BY <1>13 DEF panelState
<1> QED BY <1>1, <1>2, <1>3, <1>4, <1>5, <1>6, <1>7, <1>8, <1>9, <1>10, <1>11, <1>12, <1>13
        DEF PanelNext, Task, Environment

\* What the panel has read is what is configured, but for what others wrote since: in the
\* main loop the view, in the screens of an editing row the draft, apart from its field.
DraftScreens == {"edit", "slots", "ask", "confirm", "do", "commit", "save", "result"}
DraftAgrees == \A f \in PanelFields \ draft.since : f = draft.field \/ draft.base[f] = panelRam[f]
ShareInv ==
    /\ at \in Loops => \A f \in PanelFields \ since : view[f] = panelRam[f]
    /\ Row \in EditRows /\ next \in DraftScreens => DraftAgrees

LEMMA ModalsApart == \A place \in Modals : place \notin Loops /\ place # "release"
BY DEF Modals, Loops

\* A commit writes back what it has read: only its own field differs, and what others wrote.
LEMMA ShareStep ==
  ASSUME ConfigTypes, PlaceInv, RowInv, ShareInv, [PanelNext]_panelState
  PROVE  ShareInv'
<1> USE RowKept, WrittenIs, ModalsApart DEF ShareInv, DraftAgrees, ConfigTypes, PlaceInv,
        RowInv, Drafts, Draft, FieldOf, Flip, PanelConfig, PanelFields, Loops, DraftScreens,
        EditRows, AtKeys, Sees, Sample, Edge, Remain, Enter, EnterAtOnce, Question,
        NoQuestion, Modal, MainLoop, InMode, Again, keys, settings, drafts, screens,
        Choosing, Shows, Flips, Opens, Editing, Acts, Committing, Finish, PanelVars
<1>1. CASE TakeRequest \/ CopyMirror \/ MainPages \/ StatusPages \/ MenuKey \/ Redraw
           \/ Release
  BY <1>1 DEF TakeRequest, CopyMirror, MainPages, StatusPages, MenuKey, Redraw, Release
<1>2. CASE OpenScreen
  BY <1>2 DEF OpenScreen, DeviceInfo, MqttInfo, TcpServer, RtuInfo, LineFreq, AlarmOutRole,
     BuzzerPreferences, MqttToggle, AlarmConfig, TimedSetting, SlaveId, SlaveBaud,
     CurrentCt, RtuActive, RtuPoll, MqttPeriod
<1>3. CASE AskFirst \/ ResetLatch \/ CheckFirmware \/ Ask \/ Confirm
  BY <1>3 DEF AskFirst, ResetLatch, CheckFirmware, Ask, Confirm
<1>4. CASE EditSeconds \/ EditAlarmValue \/ EditU8 \/ EditBaud \/ EditRatio \/ Slots
  BY <1>4 DEF EditSeconds, EditAlarmValue, EditU8, EditBaud, EditRatio, Slots
<1>5. CASE Info \/ Devices \/ Result \/ Checking \/ Offer \/ Installing \/ NotYetRestarted
           \/ Portal \/ StopPortal
  BY <1>5 DEF Info, Devices, Result, Checking, Offer, Installing, NotYetRestarted, Portal,
     StopPortal
<1>6. CASE FactoryReset \/ Refused \/ CommitConfirmed \/ StartPortal \/ Install
           \/ RebootForSlave
  BY <1>6 DEF FactoryReset, Refused, CommitConfirmed, StartPortal, Install, RebootForSlave
<1>7. CASE Commit
  <2>1. /\ draft \in Drafts /\ Row \in EditRows /\ next = "commit" /\ Row' = Row
        /\ DraftAgrees
    BY <1>7 DEF Commit
  <2>2. ASSUME panelRam' = Written, UNCHANGED draft
        PROVE  DraftAgrees'
    BY <2>1, <2>2, WrittenIs
  <2>3. ASSUME UNCHANGED panelRam, Finish(FALSE)
        PROVE  DraftAgrees'
    <3>1. draft' \in {draft, [draft EXCEPT !.base = panelRam, !.since = {}],
                      [draft EXCEPT !.val = draft.base[draft.field]]}
      BY <2>3 DEF Finish
    <3> QED BY <2>1, <2>3, <3>1 DEF Drafts
  <2>4. at' \notin Loops
    BY <1>7 DEF Commit
  <2> QED BY <1>7, <2>2, <2>3, <2>4 DEF Commit
<1>8. CASE Save
  <2>1. /\ draft \in Drafts /\ Row \in EditRows /\ next = "save" /\ Row' = Row
        /\ panelRam' = panelRam
        /\ DraftAgrees
    BY <1>8 DEF Save
  <2>2. draft' \in {draft, [draft EXCEPT !.base = Written], [draft EXCEPT !.base = panelRam, !.since = {}],
                    [draft EXCEPT !.val = draft.base[draft.field]]}
    BY <1>8 DEF Save, Finish
  <2>3. DraftAgrees'
    <3>1. CASE draft' = draft
      BY <2>1, <3>1
    <3>2. CASE draft' = [draft EXCEPT !.base = Written]
      BY <2>1, <3>2, WrittenIs DEF Drafts
    <3>3. CASE draft' = [draft EXCEPT !.base = panelRam, !.since = {}]
      BY <2>1, <3>3 DEF Drafts
    <3>4. CASE draft' = [draft EXCEPT !.val = draft.base[draft.field]]
      BY <2>1, <3>4 DEF Drafts
    <3> QED BY <2>2, <3>1, <3>2, <3>3, <3>4
  <2>4. at' \notin Loops
    BY <1>8 DEF Save
  <2> QED BY <2>3, <2>4
<1>9. CASE LetGo \/ OtherApply \/ Restart
  BY <1>9 DEF LetGo, OtherApply, Restart
<1>10. ASSUME NEW k \in Keys, Press(k) PROVE ShareInv'
  BY <1>10 DEF Press
<1>11. ASSUME NEW f \in PanelFields, OtherUpdate(f) PROVE ShareInv'
  BY <1>11 DEF OtherUpdate
<1>12. CASE UNCHANGED panelState
  BY <1>12 DEF panelState
<1> QED BY <1>1, <1>2, <1>3, <1>4, <1>5, <1>6, <1>7, <1>8, <1>9, <1>10, <1>11, <1>12
        DEF PanelNext, Task, Environment

\* The mirror follows, or a request to copy it is pending.
LEMMA MirrorStep ==
  ASSUME ConfigTypes, PlaceInv, RowInv, MirrorsFollowConfig, [PanelNext]_panelState
  PROVE  MirrorsFollowConfig'
<1> USE RowKept DEF MirrorsFollowConfig, ConfigTypes, PlaceInv, RowInv, Drafts, PanelConfig,
        PanelFields, LcdFields, Loops, AtKeys, MirrorOf, Applied, KeepMirror, Sees, Sample,
        Edge, Remain, Enter, EnterAtOnce, Question, NoQuestion, Modal, MainLoop, InMode,
        Again, keys, settings, drafts, screens, Choosing, Shows, Flips, Opens, Editing,
        Acts, Committing, Finish, PanelVars
<1>1. CASE TakeRequest \/ CopyMirror \/ MainPages \/ StatusPages \/ MenuKey \/ Redraw
           \/ Release
  BY <1>1 DEF TakeRequest, CopyMirror, MainPages, StatusPages, MenuKey, Redraw, Release
<1>2. CASE OpenScreen
  BY <1>2 DEF OpenScreen, DeviceInfo, MqttInfo, TcpServer, RtuInfo, LineFreq, AlarmOutRole,
     BuzzerPreferences, MqttToggle, AlarmConfig, TimedSetting, SlaveId, SlaveBaud,
     CurrentCt, RtuActive, RtuPoll, MqttPeriod
<1>3. CASE AskFirst \/ ResetLatch \/ CheckFirmware \/ Ask \/ Confirm
  BY <1>3 DEF AskFirst, ResetLatch, CheckFirmware, Ask, Confirm
<1>4. CASE EditSeconds \/ EditAlarmValue \/ EditU8 \/ EditBaud \/ EditRatio \/ Slots
  BY <1>4 DEF EditSeconds, EditAlarmValue, EditU8, EditBaud, EditRatio, Slots
<1>5. CASE Info \/ Devices \/ Result \/ Checking \/ Offer \/ Installing \/ NotYetRestarted
           \/ Portal \/ StopPortal
  BY <1>5 DEF Info, Devices, Result, Checking, Offer, Installing, NotYetRestarted, Portal,
     StopPortal
<1>6. CASE FactoryReset \/ Refused \/ CommitConfirmed \/ StartPortal \/ Install
           \/ RebootForSlave
  BY <1>6 DEF FactoryReset, Refused, CommitConfirmed, StartPortal, Install, RebootForSlave
<1>7. CASE Commit
  BY <1>7 DEF Commit
<1>8. CASE Save
  BY <1>8 DEF Save
<1>9. CASE LetGo \/ OtherApply \/ Restart
  BY <1>9 DEF LetGo, OtherApply, Restart
<1>10. ASSUME NEW k \in Keys, Press(k) PROVE MirrorsFollowConfig'
  BY <1>10 DEF Press
<1>11. ASSUME NEW f \in PanelFields, OtherUpdate(f) PROVE MirrorsFollowConfig'
  BY <1>11 DEF OtherUpdate
<1>12. CASE UNCHANGED panelState
  BY <1>12 DEF panelState
<1> QED BY <1>1, <1>2, <1>3, <1>4, <1>5, <1>6, <1>7, <1>8, <1>9, <1>10, <1>11, <1>12
        DEF PanelNext, Task, Environment

\* A question is put with OK released: what has been confirmed has been pressed since.
AnswerInv ==
    /\ at = "confirm" => answered \/ blind \/ held # "CENTER"
    /\ next = "do" => answered \/ blind

LEMMA DecisionStep ==
  ASSUME PlaceInv, AnswerTypes, AnswerInv, [PanelNext]_panelState
  PROVE  AnswerInv'
<1> USE DEF AnswerInv, PlaceInv, AnswerTypes, Loops, AtKeys, Asking, Keys, Sees, Sample,
        Edge, Remain, Enter, EnterAtOnce, Question, NoQuestion, Modal, MainLoop, InMode,
        Again, keys, settings, drafts, screens, Choosing, Shows, Flips, Opens, Editing,
        Acts, Committing, Finish, PanelVars
<1>1. CASE TakeRequest \/ CopyMirror \/ MainPages \/ StatusPages \/ MenuKey \/ Redraw
  BY <1>1 DEF TakeRequest, CopyMirror, MainPages, StatusPages, MenuKey, Redraw
<1>2. CASE Release
  <2>1. PICK k \in {held, prev} :
          /\ \/ k = held /\ UNCHANGED blind
             \/ k # held /\ blind' = (blind \/ next = "confirm")
          /\ at' = IF k = "NONE" THEN next ELSE "release"
    BY <1>2 DEF Release
  <2>2. UNCHANGED <<answered, next, held>>
    BY <1>2 DEF Release
  <2>3. blind => blind'
    BY <2>1, Zenon
  <2>4. next' = "do" => answered' \/ blind'
    BY <2>2, <2>3
  <2>5. at' = "confirm" => answered' \/ blind' \/ held' # "CENTER"
    <3>1. CASE k = held
      BY <2>1, <2>2, <3>1
    <3>2. CASE k # held
      <4>1. next = "confirm" => blind'
        BY <2>1, <3>2, Zenon
      <4> QED BY <2>1, <4>1
    <3> QED BY <3>1, <3>2
  <2> QED BY <2>4, <2>5
<1>3. CASE OpenScreen
  BY <1>3 DEF OpenScreen, DeviceInfo, MqttInfo, TcpServer, RtuInfo, LineFreq, AlarmOutRole,
     BuzzerPreferences, MqttToggle, AlarmConfig, TimedSetting, SlaveId, SlaveBaud,
     CurrentCt, RtuActive, RtuPoll, MqttPeriod
<1>4. CASE AskFirst \/ ResetLatch \/ CheckFirmware \/ Ask \/ Confirm
  BY <1>4 DEF AskFirst, ResetLatch, CheckFirmware, Ask, Confirm
<1>5. CASE EditSeconds \/ EditAlarmValue \/ EditU8 \/ EditBaud \/ EditRatio \/ Slots
  BY <1>5 DEF EditSeconds, EditAlarmValue, EditU8, EditBaud, EditRatio, Slots
<1>6. CASE Info \/ Devices \/ Result \/ Checking \/ Offer \/ Installing \/ NotYetRestarted
           \/ Portal \/ StopPortal
  BY <1>6 DEF Info, Devices, Result, Checking, Offer, Installing, NotYetRestarted, Portal,
     StopPortal
<1>7. CASE FactoryReset \/ Refused \/ CommitConfirmed \/ StartPortal \/ Install
           \/ RebootForSlave
  BY <1>7 DEF FactoryReset, Refused, CommitConfirmed, StartPortal, Install, RebootForSlave
<1>8. CASE Commit
  BY <1>8 DEF Commit
<1>9. CASE Save
  BY <1>9 DEF Save
<1>10. CASE LetGo \/ OtherApply \/ Restart
  BY <1>10 DEF LetGo, OtherApply, Restart
<1>11. ASSUME NEW k \in Keys, Press(k) PROVE AnswerInv'
  BY <1>11 DEF Press
<1>12. ASSUME NEW f \in PanelFields, OtherUpdate(f) PROVE AnswerInv'
  BY <1>12 DEF OtherUpdate
<1>13. CASE UNCHANGED panelState
  BY <1>13 DEF panelState
<1> QED BY <1>1, <1>2, <1>3, <1>4, <1>5, <1>6, <1>7, <1>8, <1>9, <1>10, <1>11, <1>12, <1>13
        DEF PanelNext, Task, Environment
-----------------------------------------------------------------------------
(* The panel's inductive invariant.                                        *)

PanelInv ==
    /\ KeyTypes /\ PlaceInv /\ BoundTypes /\ RowInv /\ MenuInv /\ AnswerTypes /\ ConfigTypes
    /\ ShareInv /\ MirrorsFollowConfig /\ AnswerInv

LEMMA PanelInitial ==
  ASSUME PanelInit
  PROVE  PanelInv
<1> USE DEF PanelInit
<1>1. KeyTypes /\ BoundTypes
  BY PanelAssumption DEF KeyTypes, BoundTypes
<1>2. PlaceInv /\ RowInv
  BY DEF PlaceInv, RowInv, Modals, Loops, IoPage
<1>3. MenuInv
  <2>1. [screen |-> "ROOT", sel |-> 1] \in Frames /\ Level("ROOT") = 1 /\ Len(Rows["ROOT"]) = 3
    BY DEF Frames, Screens, Level, Rows
  <2>2. menu \in Menus /\ Len(menu) = 1 /\ menu[1] = [screen |-> "ROOT", sel |-> 1]
    BY <2>1 DEF RootMenu, Menus
  <2>3. menu[1].screen = "ROOT" /\ menu[1].sel = 1
    BY <2>2
  <2>4. \A i \in 1..Len(menu) : i = 1
    BY <2>2
  <2>5. \A i \in 1..Len(menu) :
          Level(menu[i].screen) = i /\ menu[i].sel \in 1..Len(Rows[menu[i].screen])
    <3> TAKE i \in 1..Len(menu)
    <3>1. i = 1 /\ menu[i].screen = "ROOT" /\ menu[i].sel = 1
      BY <2>3, <2>4
    <3>2. Level(menu[i].screen) = 1 /\ Len(Rows[menu[i].screen]) = 3
      BY <2>1, <3>1, Zenon
    <3>3. 1 \in 1..3
      OBVIOUS
    <3> QED BY <3>1, <3>2, <3>3, Zenon
  <2> QED BY <2>2, <2>5 DEF MenuInv
<1>4. AnswerTypes
  BY Zenon DEF AnswerTypes
<1>5. ConfigTypes
  <2>1. Defaults \in PanelConfig /\ NoDraft \in Drafts
    BY DEF Defaults, PanelConfig, NoDraft, Drafts, PanelFields
  <2>2. mirror \in [LcdFields -> BOOLEAN]
    BY DEF MirrorOf, LcdFields, Defaults, PanelFields
  <2>3. pending \in BOOLEAN
    BY Zenon
  <2> QED BY <2>1, <2>2, <2>3 DEF ConfigTypes
<1>6. ShareInv /\ MirrorsFollowConfig /\ AnswerInv
  BY DEF ShareInv, MirrorsFollowConfig, AnswerInv, Loops, DraftScreens, MirrorOf, LcdFields
<1> QED BY <1>1, <1>2, <1>3, <1>4, <1>5, <1>6 DEF PanelInv

LEMMA PanelStep ==
  ASSUME PanelInv, [PanelNext]_panelState
  PROVE  PanelInv'
<1>1. KeyTypes' /\ PlaceInv' /\ BoundTypes' /\ RowInv'
  BY PlaceStep DEF PanelInv
<1>2. MenuInv' /\ AnswerTypes' /\ ConfigTypes'
  BY MenuStep, AnswerStep, ConfigStep DEF PanelInv
<1>3. ShareInv' /\ MirrorsFollowConfig' /\ AnswerInv'
  BY ShareStep, MirrorStep, DecisionStep DEF PanelInv
<1> QED BY <1>1, <1>2, <1>3 DEF PanelInv

LEMMA PanelInvariant == PanelSpec => []PanelInv
BY PanelInitial, PanelStep, PTL DEF PanelSpec

LEMMA PanelTypes == PanelInv => PanelTypeOK
<1> SUFFICES ASSUME PanelInv PROVE PanelTypeOK
  OBVIOUS
<1>1. ConfigTypes /\ KeyTypes /\ PlaceInv /\ BoundTypes /\ AnswerTypes /\ MenuInv
  BY DEF PanelInv
<1>2. Len(menu) \in 1..4 /\ \A i \in 1..Len(menu) : /\ menu[i].screen \in DOMAIN Rows
                                                  /\ menu[i].sel \in 1..Len(Rows[menu[i].screen])
  BY <1>1, MenuTypes DEF MenuInv
<1>3. at \in Modals \cup {"poll", "copy", "keys", "release"}
  BY <1>1 DEF PlaceInv, Loops
<1> QED BY <1>1, <1>2, <1>3 DEF PanelTypeOK, ConfigTypes, KeyTypes, PlaceInv, BoundTypes,
                                AnswerTypes, Drafts

\* Whatever is pressed, the panel stays within its screens, its menu and its bounds: no
\* path through the menu is longer than four screens (lcd_menu.c: lcd_menu_handle_key).
THEOREM PanelTypeCorrect == PanelSpec => []PanelTypeOK
BY PanelInvariant, PanelTypes, PTL

\* What the panel shows and sounds by is what is configured, except for settings that were
\* changed and not yet applied (home_screen.c: s_cfg_pending, save_buzzer_preferences).
THEOREM MirrorsCorrect == PanelSpec => []MirrorsFollowConfig
<1>1. PanelInv => MirrorsFollowConfig
  BY DEF PanelInv
<1> QED BY <1>1, PanelInvariant, PTL

\* Nothing irreversible is done by the press that led to its question: OK went down again
\* while the question was put, or a read failed meanwhile (home_screen.c: wait_confirm_cancel).
THEOREM DecisionsAreTaken == PanelSpec => []OnePressOneDecision
<1>1. PanelInv => OnePressOneDecision
  BY DEF PanelInv, PlaceInv, Loops, AnswerInv, OnePressOneDecision
<1> QED BY <1>1, PanelInvariant, PTL

\* Only a commit counts as an edit.
LEMMA EditIsCommit ==
  ASSUME PanelInv, [PanelNext]_panelState, edits' > edits
  PROVE  Commit
<1>1. edits \in Int /\ ~(edits > edits)
  BY PanelAssumption DEF PanelInv, BoundTypes
<1>2. edits' # edits
  BY <1>1
<1> USE DEF Choosing, Shows, Flips, Opens, Editing, Modal, InMode, Acts, Committing, settings,
        PanelVars
<1>3. ~(TakeRequest \/ CopyMirror \/ MainPages \/ StatusPages \/ MenuKey \/ Redraw
         \/ Release)
  BY <1>2 DEF TakeRequest, CopyMirror, MainPages, StatusPages, MenuKey, Redraw, Release
<1>4. ~(OpenScreen)
  BY <1>2 DEF OpenScreen, DeviceInfo, MqttInfo, TcpServer, RtuInfo, LineFreq, AlarmOutRole,
     BuzzerPreferences, MqttToggle, AlarmConfig, TimedSetting, SlaveId, SlaveBaud,
     CurrentCt, RtuActive, RtuPoll, MqttPeriod
<1>5. ~(AskFirst \/ ResetLatch \/ CheckFirmware \/ Ask \/ Confirm)
  BY <1>2 DEF AskFirst, ResetLatch, CheckFirmware, Ask, Confirm
<1>6. ~(EditSeconds \/ EditAlarmValue \/ EditU8 \/ EditBaud \/ EditRatio \/ Slots)
  BY <1>2 DEF EditSeconds, EditAlarmValue, EditU8, EditBaud, EditRatio, Slots
<1>7. ~(Info \/ Devices \/ Result \/ Checking \/ Offer \/ Installing \/ NotYetRestarted
         \/ Portal \/ StopPortal)
  BY <1>2 DEF Info, Devices, Result, Checking, Offer, Installing, NotYetRestarted, Portal,
     StopPortal
<1>8. ~(FactoryReset \/ Refused \/ CommitConfirmed \/ StartPortal \/ Install
         \/ RebootForSlave)
  BY <1>2 DEF FactoryReset, Refused, CommitConfirmed, StartPortal, Install, RebootForSlave
<1>9. ~(Save)
  BY <1>2 DEF Save
<1>10. ~(LetGo \/ OtherApply \/ Restart)
  BY <1>2 DEF LetGo, OtherApply, Restart
<1>11. \A k \in Keys : ~Press(k)
  BY <1>2 DEF Press
<1>12. \A f \in PanelFields : ~OtherUpdate(f)
  BY <1>2 DEF OtherUpdate
<1>13. ~(UNCHANGED panelState)
  BY <1>2 DEF panelState
<1> QED BY <1>3, <1>4, <1>5, <1>6, <1>7, <1>8, <1>9, <1>10, <1>11, <1>12, <1>13
        DEF PanelNext, Task, Environment

\* A setting changed at the panel changes no other setting, unless another editor wrote that
\* one after the panel had read the copy it writes back (home_screen.c: update_save_apply).
THEOREM OthersWorkIsKept == PanelSpec => KeepsOthersWork
<1>1. ASSUME PanelInv, [PanelNext]_panelState, edits' > edits, NEW f \in PanelFields,
             panelRam'[f] # panelRam[f]
      PROVE  f = draft.field \/ f \in draft.since
  <2>1. Commit
    BY <1>1, EditIsCommit
  <2>2. panelRam' = Written
    BY <1>1, <2>1 DEF Commit
  <2>3. at = "commit" /\ next = "commit"
    BY <1>1, <2>1 DEF Commit, Committing, PanelInv, PlaceInv, Loops
  <2>4. DraftAgrees
    BY <1>1, <2>3 DEF PanelInv, RowInv, ShareInv, DraftScreens
  <2>5. Written[f] = IF f = draft.field THEN draft.val ELSE draft.base[f]
    BY <1>1, WrittenIs DEF PanelInv
  <2> QED BY <1>1, <2>2, <2>4, <2>5 DEF DraftAgrees
<1>2. PanelInv /\ [PanelNext]_panelState =>
         [edits' > edits =>
            \A f \in PanelFields :
                panelRam'[f] # panelRam[f] => f = draft.field \/ f \in draft.since]_panelState
  BY <1>1
<1> QED BY <1>2, PanelInvariant, PTL DEF PanelSpec, KeepsOthersWork

-----------------------------------------------------------------------------
(* The configuration store.                                                *)

\* One operation at a time, no write of a legacy blob and no erase fails, and the
\* power stays during a factory reset.  A write of the snapshot may fail.
Serial == ~Overlap /\ ~LegacyMayFail /\ ~EraseMayFail /\ ~ResetMayBeCut

USE DEF Domains, Fields, Config
-----------------------------------------------------------------------------
(* Type correctness.                                                       *)

LEMMA FactoryType == Factory \in Config
  BY ValueAssumption DEF Factory

LEMMA GetType == ASSUME TypeOK, NEW d \in Domains PROVE Get(d) \in Values
  BY ValueAssumption DEF TypeOK, Get

LEMMA StoredType == TypeOK => Stored \in Config
<1> SUFFICES ASSUME TypeOK, NEW f \in Fields PROVE Stored[f] \in Values
  BY DEF Stored, LoadedFrom
<1>1. snap # NoBlob => snap[f] \in Values
  BY DEF TypeOK
<1>2. f \in Domains /\ legacy[f] # NoBlob => legacy[f] \in Values
  BY DEF TypeOK
<1> QED BY <1>1, <1>2, ValueAssumption DEF Stored, LoadedFrom

LEMMA ReturnType ==
  ASSUME TypeOK, NEW t \in Tasks, Return(t)
  PROVE  pc' \in [Tasks -> PCs] /\ tmp' \in [Tasks -> Config] /\ asked' \in [Tasks -> Config]
  BY FactoryType DEF Return, Goto, TypeOK, PCs

LEMMA TypeStep == TypeOK /\ [Next]_vars => TypeOK'
<1> SUFFICES ASSUME TypeOK, [Next]_vars PROVE TypeOK'
  OBVIOUS
<1> USE DEF TypeOK, PCs, Saving, Resetting, MergePoints, ErasePoints, Goto
<1>1. ASSUME NEW t \in Tasks, GetConfig(t) PROVE TypeOK'
  BY <1>1 DEF GetConfig
<1>2. ASSUME NEW t \in Tasks, UpdateConfig(t) PROVE TypeOK'
  <2>1. ram' \in Config
    BY <1>2 DEF UpdateConfig
  <2> QED BY <1>2, <2>1, ReturnType DEF UpdateConfig
<1>3. ASSUME NEW t \in Tasks, BeginSave(t) PROVE TypeOK'
  BY <1>3 DEF BeginSave
<1>4. ASSUME NEW t \in Tasks, CopyConfig(t) PROVE TypeOK'
  BY <1>4 DEF CopyConfig
<1>5. ASSUME NEW t \in Tasks, MergeDomain(t) PROVE TypeOK'
  <2> PICK d \in MergePoints :
        /\ pc[t] = d
        /\ IF Get(d) # shadow[d]
           THEN /\ tmp' = [tmp EXCEPT ![t][d] = Get(d)]
                /\ Goto(t, AfterMerge(d))
           ELSE /\ tmp' = tmp
                /\ Goto(t, IF tmp[t][d] # shadow[d] THEN PushPoint(d) ELSE AfterMerge(d))
        /\ UNCHANGED <<ram, shadow, legacy, snap, asked, failed>>
    BY <1>5 DEF MergeDomain
  <2>1. AfterMerge(d) \in PCs /\ PushPoint(d) \in PCs
    BY DEF AfterMerge, PushPoint
  <2>2. pc' \in [Tasks -> PCs]
    BY <2>1
  <2>3. tmp' \in [Tasks -> Config]
    BY GetType
  <2> QED BY <2>2, <2>3
<1>6. ASSUME NEW t \in Tasks, PushDomain(t) PROVE TypeOK'
  <2> PICK d \in Domains :
        /\ \/ legacy' = [legacy EXCEPT ![d] = tmp[t][d]]
           \/ legacy' = legacy
        /\ Goto(t, AfterMerge(d))
        /\ UNCHANGED <<ram, shadow, snap, tmp, asked, failed>>
    BY <1>6 DEF PushDomain
  <2>1. AfterMerge(d) \in PCs
    BY DEF AfterMerge
  <2>2. tmp[t][d] \in Values
    OBVIOUS
  <2> QED BY <2>1, <2>2
<1>7. ASSUME NEW t \in Tasks, WriteSnapshot(t) PROVE TypeOK'
  BY <1>7 DEF WriteSnapshot
<1>8. ASSUME NEW t \in Tasks, SnapshotFails(t) PROVE TypeOK'
  BY <1>8, ReturnType DEF SnapshotFails
<1>9. ASSUME NEW t \in Tasks, PublishMerged(t) PROVE TypeOK'
  BY <1>9 DEF PublishMerged
<1>10. ASSUME NEW t \in Tasks, MoveShadow(t) PROVE TypeOK'
  <2>1. shadow' \in [Domains -> Values]
    BY <1>10 DEF MoveShadow
  <2> QED BY <1>10, <2>1, ReturnType DEF MoveShadow
<1>11. ASSUME NEW t \in Tasks, BeginReset(t) PROVE TypeOK'
  BY <1>11 DEF BeginReset
<1>12. ASSUME NEW t \in Tasks, EraseNamespace(t) PROVE TypeOK'
  <2> PICK p \in ErasePoints :
        /\ \/ IF p = "eraseSnap"
              THEN snap' = NoBlob /\ legacy' = legacy
              ELSE legacy' = [legacy EXCEPT ![Erased(p)] = NoBlob] /\ snap' = snap
           \/ UNCHANGED <<legacy, snap>>
        /\ Goto(t, AfterErase(p))
        /\ UNCHANGED <<ram, shadow, tmp, asked, failed>>
    BY <1>12 DEF EraseNamespace
  <2>1. AfterErase(p) \in PCs
    BY DEF AfterErase
  <2>2. legacy' \in [Domains -> Values \cup {NoBlob}] /\ snap' \in Config \cup {NoBlob}
    OBVIOUS
  <2> QED BY <2>1, <2>2
<1>13. ASSUME NEW t \in Tasks, Reload(t) PROVE TypeOK'
  <2>1. ram' \in Config /\ shadow' \in [Domains -> Values]
    BY <1>13, StoredType DEF Reload
  <2> QED BY <1>13, <2>1, ReturnType DEF Reload
<1>14. CASE PowerCut
  <2>1. ram' \in Config /\ shadow' \in [Domains -> Values]
    BY <1>14, StoredType DEF PowerCut
  <2> QED BY <1>14, <2>1, FactoryType DEF PowerCut
<1>15. CASE UNCHANGED vars
  BY <1>15 DEF vars
<1> QED
  BY <1>1, <1>2, <1>3, <1>4, <1>5, <1>6, <1>7, <1>8, <1>9, <1>10, <1>11, <1>12, <1>13,
     <1>14, <1>15 DEF Next

\* The types of the configuration and its store, for any tasks and values, overlapping
\* operations and failures included.
THEOREM StoreTypeCorrect == Spec => []TypeOK
<1>1. Init => TypeOK
  BY FactoryType, ValueAssumption DEF Init, TypeOK, PCs
<1> QED BY <1>1, TypeStep, PTL DEF Spec
-----------------------------------------------------------------------------
(* The inductive invariant.                                                *)

\* A save that holds its copy, and the domains it has merged into it and pushed.
Keeping == Saving \ {"copy"}
AllMerged == {"snap", "publish", "shadow"}
Done(p) ==
    {d \in Domains : \/ p \in AllMerged
                     \/ d = "sys" /\ p \in {"net", "pushNet", "ext", "pushExt"}
                     \/ d = "net" /\ p \in {"ext", "pushExt"}}

\* A value that a save before this one stored, and could not finish.
LeftOver(d, v) == \E r \in failed : v = r[d]

One == \A t, u \in Tasks : pc[t] # "idle" /\ pc[u] # "idle" => t = u

\* The copy of a save holds what was asked for, but for a left-over, and what it has
\* merged is what the blob says.
SaveOK(t) ==
    pc[t] \in Keeping =>
      /\ tmp[t]["own"] = asked[t]["own"]
      /\ \A d \in Domains \ Done(pc[t]) : tmp[t][d] = asked[t][d]
      /\ \A d \in Done(pc[t]) :
            /\ tmp[t][d] = Get(d)
            /\ tmp[t][d] = asked[t][d] \/ LeftOver(d, tmp[t][d])
      /\ pc[t] \in {"publish", "shadow"} => snap = tmp[t]

\* A reset has erased what it has passed.
EraseOK(t) ==
    /\ pc[t] \in {"eraseSys", "eraseExt", "eraseSnap", "reload"} => legacy["net"] = NoBlob
    /\ pc[t] \in {"eraseExt", "eraseSnap", "reload"} => legacy["sys"] = NoBlob
    /\ pc[t] \in {"eraseSnap", "reload"} => legacy["ext"] = NoBlob
    /\ pc[t] = "reload" => snap = NoBlob

NoReset == \A t \in Tasks : pc[t] \notin Resetting

\* A domain without a blob has its factory value in the snapshot, so that a getter and
\* a boot agree; and a blob that has moved away from the shadow was moved by the save
\* under way, or by the one that failed.
DomainOK(d) ==
    /\ Stored[d] = Get(d)
    /\ \/ Get(d) = shadow[d]
       \/ LeftOver(d, Get(d))
       \/ \E t \in Tasks : pc[t] \in Keeping /\ d \in Done(pc[t])

StoreInv ==
    /\ One
    /\ \A t \in Tasks : SaveOK(t) /\ EraseOK(t)
    /\ NoReset => \A d \in Domains : DomainOK(d)

LEMMA StoredIs ==
  /\ \A d \in Domains : Stored[d] = IF legacy[d] # NoBlob THEN legacy[d]
                                    ELSE IF snap # NoBlob THEN snap[d] ELSE Default
  /\ Stored["own"] = IF snap # NoBlob THEN snap["own"] ELSE Default
  BY DEF Stored, LoadedFrom

LEMMA GetKept == ASSUME UNCHANGED legacy PROVE \A d : Get(d)' = Get(d)
  BY DEF Get

LEMMA StoredKept == ASSUME UNCHANGED <<legacy, snap>> PROVE Stored' = Stored
  BY DEF Stored, LoadedFrom

LEMMA DomainKept ==
  ASSUME NEW d \in Domains, DomainOK(d), UNCHANGED <<shadow, legacy, snap, failed>>,
         \A u \in Tasks : pc[u] \in Keeping /\ d \in Done(pc[u])
                            => pc'[u] \in Keeping /\ d \in Done(pc'[u])
  PROVE  DomainOK(d)'
<1>1. Get(d)' = Get(d) /\ Stored' = Stored
  BY GetKept, StoredKept
<1>2. LeftOver(d, Get(d)) => LeftOver(d, Get(d))'
  BY <1>1 DEF LeftOver
<1> QED BY <1>1, <1>2 DEF DomainOK

\* While t is at work, nobody else is.
LEMMA Others ==
  ASSUME One, NEW t \in Tasks, pc[t] # "idle"
  PROVE  \A u \in Tasks \ {t} : pc[u] = "idle"
  BY DEF One

LEMMA OneKept ==
  ASSUME One, NEW t \in Tasks, pc[t] # "idle",
         \A u \in Tasks \ {t} : pc'[u] = pc[u]
  PROVE  One'
  BY DEF One

\* A task that is not saving or resetting has nothing to answer for.
LEMMA Harmless ==
  ASSUME NEW p \in {"idle", "edit", "copy", "eraseNet"}
  PROVE  /\ p \notin Keeping /\ Done(p) = {}
         /\ p \notin {"eraseSys", "eraseExt", "eraseSnap", "reload"}
  BY DEF Keeping, Saving, Done, AllMerged, MergePoints

\* Edits, and the beginnings of a save and of a reset.
LEMMA OutsideStep ==
  ASSUME StoreInv, NoReset, One',
         \A u \in Tasks : pc[u] \notin Keeping,
         \A u \in Tasks : pc'[u] \in {"idle", "edit", "copy", "eraseNet"},
         UNCHANGED <<shadow, legacy, snap, failed>>
  PROVE  StoreInv'
<1>1. \A d \in Domains : DomainOK(d)'
  BY DomainKept DEF StoreInv
<1>2. \A u \in Tasks : SaveOK(u)' /\ EraseOK(u)'
  BY Harmless DEF SaveOK, EraseOK
<1> QED BY <1>1, <1>2 DEF StoreInv

LEMMA StartStep ==
  ASSUME TypeOK, StoreInv, Serial, NEW t \in Tasks,
         GetConfig(t) \/ BeginSave(t) \/ BeginReset(t)
  PROVE  StoreInv'
<1>1. \A u \in Tasks : pc[u] = "idle"
  BY DEF GetConfig, BeginSave, BeginReset, MayStart, Serial
<1>2. /\ \A u \in Tasks \ {t} : pc'[u] = "idle"
      /\ pc'[t] \in {"edit", "copy", "eraseNet"}
      /\ UNCHANGED <<shadow, legacy, snap, failed>>
  BY <1>1 DEF GetConfig, BeginSave, BeginReset, Goto, TypeOK
<1>3. One'
  BY <1>2 DEF One
<1>4. NoReset /\ \A u \in Tasks : pc[u] \notin Keeping
  BY <1>1, Harmless DEF NoReset, Resetting, ErasePoints
<1> QED BY <1>2, <1>3, <1>4, OutsideStep

LEMMA UpdateStep ==
  ASSUME TypeOK, StoreInv, NEW t \in Tasks, UpdateConfig(t)
  PROVE  StoreInv'
<1>1. /\ pc[t] = "edit" /\ pc'[t] = "idle" /\ \A u \in Tasks \ {t} : pc'[u] = pc[u]
      /\ UNCHANGED <<shadow, legacy, snap, failed>>
  BY DEF UpdateConfig, Return, Goto, TypeOK
<1>2. \A u \in Tasks \ {t} : pc[u] = "idle"
  BY <1>1, Others DEF StoreInv
<1>3. One'
  BY <1>1, OneKept DEF StoreInv
<1>4. NoReset /\ \A u \in Tasks : pc[u] \notin Keeping
  BY <1>1, <1>2, Harmless DEF NoReset, Resetting, ErasePoints
<1> QED BY <1>1, <1>2, <1>3, <1>4, OutsideStep

LEMMA CopyStep ==
  ASSUME TypeOK, StoreInv, NEW t \in Tasks, CopyConfig(t)
  PROVE  StoreInv'
<1>1. /\ pc[t] = "copy" /\ pc'[t] = "sys" /\ \A u \in Tasks \ {t} : pc'[u] = pc[u]
      /\ tmp'[t] = ram /\ asked'[t] = ram
      /\ UNCHANGED <<shadow, legacy, snap, failed>>
  BY DEF CopyConfig, Goto, TypeOK
<1>2. \A u \in Tasks \ {t} : pc[u] = "idle"
  BY <1>1, Others DEF StoreInv
<1>3. One'
  BY <1>1, OneKept DEF StoreInv
<1>4. NoReset /\ \A u \in Tasks : pc[u] \notin Keeping
  BY <1>1, <1>2, Harmless DEF NoReset, Resetting, ErasePoints
<1>5. \A d \in Domains : DomainOK(d)'
  BY <1>1, <1>4, DomainKept DEF StoreInv
<1>6. Done("sys") = {} /\ "sys" \notin {"publish", "shadow"}
      /\ "sys" \notin {"eraseSys", "eraseExt", "eraseSnap", "reload"}
  BY DEF Done, AllMerged
<1>7. SaveOK(t)' /\ EraseOK(t)'
  BY <1>1, <1>6 DEF SaveOK, EraseOK
<1>8. \A u \in Tasks \ {t} : SaveOK(u)' /\ EraseOK(u)'
  BY <1>1, <1>2, Harmless DEF SaveOK, EraseOK
<1> QED BY <1>3, <1>5, <1>7, <1>8 DEF StoreInv

\* The steps of a save that holds its copy: what the task that saves has to show.
LEMMA SavingStep ==
  ASSUME TypeOK, StoreInv, NEW t \in Tasks,
         pc[t] \in Keeping, pc'[t] \in Keeping,
         \A u \in Tasks \ {t} : pc'[u] = pc[u],
         SaveOK(t)', \A d \in Domains : DomainOK(d)'
  PROVE  StoreInv'
<1>1. pc[t] # "idle" /\ pc'[t] \notin {"eraseSys", "eraseExt", "eraseSnap", "reload"}
  BY DEF Keeping, Saving, MergePoints
<1>2. \A u \in Tasks \ {t} : pc'[u] = "idle"
  BY <1>1, Others DEF StoreInv
<1>3. One'
  BY <1>1, OneKept DEF StoreInv
<1>4. \A u \in Tasks \ {t} : SaveOK(u)' /\ EraseOK(u)'
  BY <1>2, Harmless DEF SaveOK, EraseOK
<1>5. EraseOK(t)'
  BY <1>1 DEF EraseOK
<1> QED BY <1>3, <1>4, <1>5 DEF StoreInv

LEMMA SavingNoReset ==
  ASSUME StoreInv, NEW t \in Tasks, pc[t] \in Keeping PROVE NoReset
<1>1. pc[t] # "idle" /\ pc[t] \notin Resetting
  BY DEF Keeping, Saving, MergePoints, Resetting, ErasePoints
<1>2. \A u \in Tasks \ {t} : pc[u] = "idle"
  BY <1>1, Others DEF StoreInv
<1> QED BY <1>1, <1>2 DEF NoReset, Resetting, ErasePoints

\* While a save holds its copy, no reset is under way, and a blob that has moved is one
\* the save has merged or a left-over.
LEMMA SavingFacts ==
  ASSUME TypeOK, StoreInv, NEW t \in Tasks, pc[t] \in Keeping
  PROVE  /\ SaveOK(t)
         /\ \A d \in Domains : Stored[d] = Get(d)
         /\ \A d \in Domains \ Done(pc[t]) : Get(d) = shadow[d] \/ LeftOver(d, Get(d))
<1>1. pc[t] # "idle"
  BY DEF Keeping, Saving, MergePoints
<1>2. \A u \in Tasks \ {t} : pc[u] = "idle"
  BY <1>1, Others DEF StoreInv
<1>3. NoReset
  BY SavingNoReset
<1>4. \A u \in Tasks \ {t} : pc[u] \notin Keeping
  BY <1>2, Harmless
<1> QED BY <1>3, <1>4 DEF StoreInv, DomainOK

\* The order in which a save visits the domains.
LEMMA Visits ==
  ASSUME NEW d \in Domains
  PROVE  /\ d \in Keeping /\ PushPoint(d) \in Keeping /\ AfterMerge(d) \in Keeping
         /\ d \notin Done(d) /\ Done(PushPoint(d)) = Done(d)
         /\ Done(AfterMerge(d)) = Done(d) \cup {d}
         /\ {d, PushPoint(d), AfterMerge(d)} \cap {"publish", "shadow"} = {}
<1>1. CASE d = "sys"
  BY <1>1 DEF Keeping, Saving, MergePoints, PushPoint, AfterMerge, Done, AllMerged
<1>2. CASE d = "net"
  BY <1>2 DEF Keeping, Saving, MergePoints, PushPoint, AfterMerge, Done, AllMerged
<1>3. CASE d = "ext"
  BY <1>3 DEF Keeping, Saving, MergePoints, PushPoint, AfterMerge, Done, AllMerged
<1> QED BY <1>1, <1>2, <1>3

LEMMA MergeStep ==
  ASSUME TypeOK, StoreInv, NEW t \in Tasks, MergeDomain(t)
  PROVE  StoreInv'
<1> PICK d \in Domains :
      /\ pc[t] = d
      /\ IF Get(d) # shadow[d]
         THEN /\ tmp' = [tmp EXCEPT ![t][d] = Get(d)]
              /\ Goto(t, AfterMerge(d))
         ELSE /\ tmp' = tmp
              /\ Goto(t, IF tmp[t][d] # shadow[d] THEN PushPoint(d) ELSE AfterMerge(d))
      /\ UNCHANGED <<ram, shadow, legacy, snap, asked, failed>>
  BY DEF MergeDomain, MergePoints
<1>1. pc[t] \in Keeping /\ pc'[t] \in Keeping /\ \A u \in Tasks \ {t} : pc'[u] = pc[u]
  BY Visits DEF Goto, TypeOK
<1>2. pc'[t] \notin {"publish", "shadow"}
  BY Visits DEF Goto, TypeOK
<1>3. /\ SaveOK(t)
      /\ \A e \in Domains \ Done(d) : Get(e) = shadow[e] \/ LeftOver(e, Get(e))
  BY <1>1, SavingFacts
<1>4. /\ \A e : Get(e)' = Get(e)
      /\ \A e, v : LeftOver(e, v)' = LeftOver(e, v)
  BY GetKept DEF LeftOver
<1>5. SaveOK(t)'
  <2>1. CASE Get(d) # shadow[d]
    <3>1. /\ tmp'[t] = [tmp[t] EXCEPT ![d] = Get(d)] /\ asked'[t] = asked[t]
          /\ pc'[t] = AfterMerge(d)
      BY <2>1 DEF Goto, TypeOK
    <3>2. /\ \A e \in Domains \ {d} : tmp'[t][e] = tmp[t][e]
          /\ tmp'[t][d] = Get(d) /\ tmp'[t]["own"] = tmp[t]["own"]
      BY <3>1 DEF TypeOK
    <3>3. LeftOver(d, Get(d))
      BY <1>3, <2>1, Visits
    <3>4. pc[t] = d /\ pc[t] \in Keeping /\ Done(pc'[t]) = Done(d) \cup {d}
      BY <1>1, <3>1, Visits
    <3> HIDE DEF Domains
    <3> QED BY <1>2, <1>3, <1>4, <3>1, <3>2, <3>3, <3>4 DEF SaveOK, LeftOver
  <2>2. CASE Get(d) = shadow[d] /\ tmp[t][d] # shadow[d]
    <3>1. /\ tmp'[t] = tmp[t] /\ asked'[t] = asked[t] /\ pc'[t] = PushPoint(d)
      BY <2>2 DEF Goto, TypeOK
    <3>2. Done(pc'[t]) = Done(d)
      BY <3>1, Visits
    <3> HIDE DEF Domains
    <3> QED BY <1>1, <1>2, <1>3, <1>4, <3>1, <3>2 DEF SaveOK, LeftOver
  <2>3. CASE Get(d) = shadow[d] /\ tmp[t][d] = shadow[d]
    <3>1. /\ tmp'[t] = tmp[t] /\ asked'[t] = asked[t] /\ pc'[t] = AfterMerge(d)
      BY <2>3 DEF Goto, TypeOK
    <3>2. Done(pc'[t]) = Done(d) \cup {d} /\ d \notin Done(d)
      BY <3>1, Visits
    <3> HIDE DEF Domains
    <3> QED BY <1>1, <1>2, <1>3, <1>4, <2>3, <3>1, <3>2 DEF SaveOK, LeftOver
  <2> QED BY <2>1, <2>2, <2>3
<1>6. \A e \in Domains : DomainOK(e)'
  <2>1. Done(d) \subseteq Done(pc'[t])
    BY Visits DEF Goto, TypeOK
  <2>2. \A e \in Domains : DomainOK(e)
    BY <1>1, SavingNoReset DEF StoreInv
  <2>3. \A e \in Domains : \A u \in Tasks :
          pc[u] \in Keeping /\ e \in Done(pc[u]) => pc'[u] \in Keeping /\ e \in Done(pc'[u])
    BY <1>1, <2>1
  <2> QED BY <2>2, <2>3, DomainKept
<1> QED BY <1>1, <1>5, <1>6, SavingStep
LEMMA PushStep ==
  ASSUME TypeOK, StoreInv, Serial, NEW t \in Tasks, PushDomain(t)
  PROVE  StoreInv'
<1> PICK d \in Domains :
      /\ pc[t] = PushPoint(d)
      /\ legacy' = [legacy EXCEPT ![d] = tmp[t][d]]
      /\ Goto(t, AfterMerge(d))
      /\ UNCHANGED <<ram, shadow, snap, tmp, asked, failed>>
  BY DEF PushDomain, Serial
<1>1. /\ pc[t] \in Keeping /\ pc'[t] = AfterMerge(d) /\ pc'[t] \in Keeping
      /\ \A u \in Tasks \ {t} : pc'[u] = pc[u]
  BY Visits DEF Goto, TypeOK
<1>2. /\ pc'[t] \notin {"publish", "shadow"}
      /\ d \notin Done(pc[t]) /\ Done(pc'[t]) = Done(pc[t]) \cup {d}
  BY <1>1, Visits
<1>3. /\ SaveOK(t)
      /\ \A e \in Domains : Stored[e] = Get(e)
  BY <1>1, SavingFacts
<1>4. /\ tmp[t][d] = asked[t][d]
  BY <1>1, <1>2, <1>3 DEF SaveOK
<1>5. /\ tmp[t][d] # NoBlob
      /\ legacy'[d] = tmp[t][d] /\ \A e \in Domains \ {d} : legacy'[e] = legacy[e]
  BY ValueAssumption DEF TypeOK
<1>6. Get(d)' = tmp[t][d] /\ \A e \in Domains \ {d} : Get(e)' = Get(e)
  BY <1>5 DEF Get
<1>7. SaveOK(t)'
  <2> HIDE DEF Domains
  <2>1. ASSUME NEW e \in Done(pc'[t])
        PROVE  /\ tmp[t][e] = Get(e)'
               /\ tmp[t][e] = asked[t][e] \/ LeftOver(e, tmp[t][e])
    <3>1. CASE e = d
      BY <1>4, <1>6, <3>1
    <3>2. CASE e # d
      <4>1. e \in Done(pc[t]) /\ e \in Domains
        BY <1>2, <3>2 DEF Done
      <4> QED BY <1>1, <1>3, <1>6, <3>2, <4>1 DEF SaveOK
    <3> QED BY <3>1, <3>2
  <2> QED BY <1>1, <1>2, <1>3, <2>1 DEF SaveOK, LeftOver
<1>8. ASSUME NEW e \in Domains PROVE DomainOK(e)'
  <2>1. CASE e = d
    <3>1. Stored'[d] = Get(d)'
      BY <1>5, <1>6 DEF Stored, LoadedFrom
    <3>2. d \in Done(pc'[t])
      BY <1>2
    <3> QED BY <1>1, <2>1, <3>1, <3>2 DEF DomainOK
  <2>2. CASE e # d
    <3>1. Stored'[e] = Stored[e]
      BY <1>5, <2>2 DEF Stored, LoadedFrom
    <3>2. DomainOK(e)
      BY <1>1, SavingNoReset DEF StoreInv
    <3>3. LeftOver(e, Get(e)) => LeftOver(e, Get(e))'
      BY <1>6, <2>2 DEF LeftOver
    <3> QED BY <1>1, <1>2, <1>6, <2>2, <3>1, <3>2, <3>3 DEF DomainOK
  <2> QED BY <2>1, <2>2
<1> QED BY <1>1, <1>7, <1>8, SavingStep

LEMMA WriteStep ==
  ASSUME TypeOK, StoreInv, NEW t \in Tasks, WriteSnapshot(t)
  PROVE  StoreInv'
<1>1. /\ pc[t] = "snap" /\ pc'[t] = "publish" /\ \A u \in Tasks \ {t} : pc'[u] = pc[u]
      /\ snap' = tmp[t] /\ UNCHANGED <<shadow, legacy, tmp, asked, failed>>
  BY DEF WriteSnapshot, Goto, TypeOK
<1>2. pc[t] \in Keeping /\ pc'[t] \in Keeping /\ Done(pc[t]) = Domains /\ Done(pc'[t]) = Domains
  BY <1>1 DEF Keeping, Saving, Done, AllMerged
<1>3. SaveOK(t)
  BY <1>2, SavingFacts
<1>4. \A d : Get(d)' = Get(d)
  BY <1>1, GetKept
<1>5. SaveOK(t)'
  <2> HIDE DEF Domains
  <2> QED BY <1>1, <1>2, <1>3, <1>4 DEF SaveOK, LeftOver
<1>6. ASSUME NEW d \in Domains PROVE DomainOK(d)'
  <2>1. tmp[t] # NoBlob /\ tmp[t][d] = Get(d)
    BY <1>2, <1>3, BlobAssumption DEF SaveOK, TypeOK
  <2>2. Stored'[d] = Get(d)'
    BY <1>1, <1>4, <2>1 DEF Stored, LoadedFrom, Get
  <2> QED BY <1>2, <2>2 DEF DomainOK
<1> QED BY <1>1, <1>2, <1>5, <1>6, SavingStep

LEMMA PublishStep ==
  ASSUME TypeOK, StoreInv, NEW t \in Tasks, PublishMerged(t)
  PROVE  StoreInv'
<1>1. /\ pc[t] = "publish" /\ pc'[t] = "shadow" /\ \A u \in Tasks \ {t} : pc'[u] = pc[u]
      /\ UNCHANGED <<shadow, legacy, snap, tmp, asked, failed>>
  BY DEF PublishMerged, Goto, TypeOK
<1>2. pc[t] \in Keeping /\ pc'[t] \in Keeping /\ Done(pc[t]) = Done(pc'[t])
  BY <1>1 DEF Keeping, Saving, Done, AllMerged
<1>3. SaveOK(t)'
  <2>1. \A d : Get(d)' = Get(d)
    BY <1>1, GetKept
  <2>2. SaveOK(t)
    BY <1>2, SavingFacts
  <2> HIDE DEF Domains
  <2> QED BY <1>1, <1>2, <2>1, <2>2 DEF SaveOK, LeftOver
<1>4. \A d \in Domains : DomainOK(d)'
  BY <1>1, <1>2, SavingNoReset, DomainKept DEF StoreInv
<1> QED BY <1>1, <1>2, <1>3, <1>4, SavingStep

\* The end of an operation.
LEMMA EndStep ==
  ASSUME TypeOK, StoreInv, NEW t \in Tasks, pc[t] # "idle", Return(t),
         \A d \in Domains : DomainOK(d)'
  PROVE  StoreInv'
<1>1. pc'[t] = "idle" /\ \A u \in Tasks \ {t} : pc'[u] = pc[u]
  BY DEF Return, Goto, TypeOK
<1>2. \A u \in Tasks : pc'[u] = "idle"
  BY <1>1, Others DEF StoreInv
<1>3. One'
  BY <1>1, OneKept DEF StoreInv
<1>4. \A u \in Tasks : SaveOK(u)' /\ EraseOK(u)'
  BY <1>2, Harmless DEF SaveOK, EraseOK
<1> QED BY <1>3, <1>4 DEF StoreInv

\* The merged copy may have reached the blobs: it is the left-over of this save.
LEMMA FailStep ==
  ASSUME TypeOK, StoreInv, NEW t \in Tasks, SnapshotFails(t)
  PROVE  StoreInv'
<1>1. /\ pc[t] = "snap" /\ failed = {} /\ failed' = {asked[t]} /\ Return(t)
      /\ UNCHANGED <<shadow, legacy, snap>>
  BY DEF SnapshotFails
<1>2. pc[t] \in Keeping /\ Done(pc[t]) = Domains
  BY <1>1 DEF Keeping, Saving, Done, AllMerged
<1>3. SaveOK(t) /\ \A d \in Domains : Stored[d] = Get(d)
  BY <1>2, SavingFacts
<1>4. ASSUME NEW d \in Domains PROVE DomainOK(d)'
  <2>1. Get(d)' = Get(d) /\ Stored' = Stored
    BY <1>1, GetKept, StoredKept
  <2>2. Get(d) = asked[t][d]
    BY <1>1, <1>2, <1>3 DEF SaveOK, LeftOver
  <2>3. LeftOver(d, Get(d))'
    BY <1>1, <2>1, <2>2 DEF LeftOver
  <2> QED BY <1>3, <2>1, <2>3 DEF DomainOK
<1> QED BY <1>1, <1>4, EndStep

LEMMA ShadowStep ==
  ASSUME TypeOK, StoreInv, NEW t \in Tasks, MoveShadow(t)
  PROVE  StoreInv'
<1>1. /\ pc[t] = "shadow" /\ Return(t) /\ shadow' = [d \in Domains |-> tmp[t][d]]
      /\ UNCHANGED <<legacy, snap>>
  BY DEF MoveShadow
<1>2. pc[t] \in Keeping /\ Done(pc[t]) = Domains
  BY <1>1 DEF Keeping, Saving, Done, AllMerged
<1>3. SaveOK(t) /\ \A d \in Domains : Stored[d] = Get(d)
  BY <1>2, SavingFacts
<1>4. ASSUME NEW d \in Domains PROVE DomainOK(d)'
  <2>1. Get(d)' = Get(d) /\ Stored' = Stored
    BY <1>1, GetKept, StoredKept
  <2>2. shadow'[d] = Get(d)
    BY <1>1, <1>2, <1>3 DEF SaveOK
  <2> QED BY <1>3, <2>1, <2>2 DEF DomainOK
<1> QED BY <1>1, <1>4, EndStep

LEMMA EraseStep ==
  ASSUME TypeOK, StoreInv, Serial, NEW t \in Tasks, EraseNamespace(t)
  PROVE  StoreInv'
<1> PICK p \in ErasePoints :
      /\ pc[t] = p
      /\ IF p = "eraseSnap"
         THEN snap' = NoBlob /\ legacy' = legacy
         ELSE legacy' = [legacy EXCEPT ![Erased(p)] = NoBlob] /\ snap' = snap
      /\ Goto(t, AfterErase(p))
  BY DEF EraseNamespace, Serial
<1>1. pc'[t] = AfterErase(p) /\ \A u \in Tasks \ {t} : pc'[u] = pc[u]
  BY DEF Goto, TypeOK
<1>2. pc[t] # "idle" /\ pc'[t] \in Resetting /\ pc'[t] \notin Keeping
  BY <1>1 DEF ErasePoints, AfterErase, Resetting, Keeping, Saving, MergePoints
<1>3. \A u \in Tasks \ {t} : pc'[u] = "idle"
  BY <1>1, <1>2, Others DEF StoreInv
<1>4. One' /\ ~NoReset'
  BY <1>1, <1>2, OneKept DEF StoreInv, NoReset
<1>5. EraseOK(t)'
  BY <1>1 DEF StoreInv, EraseOK, ErasePoints, AfterErase, Erased, TypeOK
<1>6. SaveOK(t)'
  BY <1>2 DEF SaveOK
<1>7. \A u \in Tasks \ {t} : SaveOK(u)' /\ EraseOK(u)'
  BY <1>3, Harmless DEF SaveOK, EraseOK
<1> QED BY <1>4, <1>5, <1>6, <1>7 DEF StoreInv

\* After a reset nothing is stored, and what is loaded is the factory configuration.
LEMMA ReloadFacts ==
  ASSUME StoreInv, NEW t \in Tasks, pc[t] = "reload"
  PROVE  /\ Stored = Factory
         /\ \A d \in Domains : Get(d) = Default
<1>1. (\A d \in Domains : legacy[d] = NoBlob) /\ snap = NoBlob
  BY DEF StoreInv, EraseOK
<1> QED BY <1>1 DEF Stored, LoadedFrom, Factory, Get

LEMMA ReloadStep ==
  ASSUME TypeOK, StoreInv, NEW t \in Tasks, Reload(t)
  PROVE  StoreInv'
<1>1. /\ pc[t] = "reload" /\ Return(t) /\ shadow' = [d \in Domains |-> Stored[d]]
      /\ UNCHANGED <<legacy, snap>>
  BY DEF Reload
<1>2. ASSUME NEW d \in Domains PROVE DomainOK(d)'
  <2>1. Get(d)' = Get(d) /\ Stored' = Stored
    BY <1>1, GetKept, StoredKept
  <2> QED BY <1>1, <2>1, ReloadFacts DEF DomainOK, Factory
<1> QED BY <1>1, <1>2, EndStep

LEMMA CutStep ==
  ASSUME TypeOK, StoreInv, Serial, PowerCut
  PROVE  StoreInv'
<1>1. NoReset
  BY DEF PowerCut, Serial, NoReset
<1>2. /\ \A u \in Tasks : pc'[u] = "idle"
      /\ shadow' = [d \in Domains |-> Stored[d]] /\ UNCHANGED <<legacy, snap>>
  BY DEF PowerCut
<1>3. ASSUME NEW d \in Domains PROVE DomainOK(d)'
  <2>1. Get(d)' = Get(d) /\ Stored' = Stored
    BY <1>2, GetKept, StoredKept
  <2>2. Stored[d] = Get(d)
    BY <1>1 DEF StoreInv, DomainOK
  <2> QED BY <1>2, <2>1, <2>2 DEF DomainOK
<1>4. \A u \in Tasks : SaveOK(u)' /\ EraseOK(u)'
  BY <1>2, Harmless DEF SaveOK, EraseOK
<1>5. One'
  BY <1>2 DEF One
<1> QED BY <1>3, <1>4, <1>5 DEF StoreInv

LEMMA StoreInit == Init => StoreInv
<1> SUFFICES ASSUME Init PROVE StoreInv
  OBVIOUS
<1>1. \A u \in Tasks : pc[u] = "idle"
  BY DEF Init
<1>2. \A u \in Tasks : SaveOK(u) /\ EraseOK(u)
  BY <1>1, Harmless DEF SaveOK, EraseOK
<1>3. \A d \in Domains : DomainOK(d)
  BY DEF Init, DomainOK, Stored, LoadedFrom, Get
<1> QED BY <1>1, <1>2, <1>3 DEF StoreInv, One

LEMMA StoreStep ==
  ASSUME TypeOK, StoreInv, Serial, [Next]_vars PROVE StoreInv'
<1>1. CASE UNCHANGED vars
  <2>1. \A d : Get(d)' = Get(d)
    BY <1>1, GetKept DEF vars
  <2>2. Stored' = Stored
    BY <1>1, StoredKept DEF vars
  <2>3. \A u \in Tasks : SaveOK(u)' /\ EraseOK(u)'
    BY <1>1, <2>1 DEF StoreInv, SaveOK, EraseOK, LeftOver, vars
  <2>4. NoReset' => \A d \in Domains : DomainOK(d)'
    BY <1>1, DomainKept DEF StoreInv, NoReset, vars
  <2> QED BY <1>1, <2>3, <2>4 DEF StoreInv, One, vars
<1> QED
  BY <1>1, StartStep, UpdateStep, CopyStep, MergeStep, PushStep, WriteStep, FailStep,
     PublishStep, ShadowStep, EraseStep, ReloadStep, CutStep DEF Next
-----------------------------------------------------------------------------
(* What follows from it.                                                   *)

LEMMA StoreInvariant == ASSUME Serial PROVE Spec => [](TypeOK /\ StoreInv)
<1>1. TypeOK /\ StoreInv /\ [Next]_vars => (TypeOK /\ StoreInv)'
  BY StoreStep, TypeStep
<1>2. Init => TypeOK
  BY FactoryType, ValueAssumption DEF Init, TypeOK, PCs
<1> QED BY <1>1, <1>2, StoreInit, PTL DEF Spec
\* Between two operations the shadow, the getters and what a boot would load agree about
\* every legacy domain, unless the last save failed: for any tasks and values, with
\* failing snapshots and power cuts anywhere in a save.
THEOREM ShadowAgreement == ASSUME Serial PROVE Spec => []ShadowAgrees
<1>1. TypeOK /\ StoreInv => ShadowAgrees
  <2> SUFFICES ASSUME StoreInv, Idle, failed = {}, NEW d \in Domains
               PROVE  shadow[d] = Get(d) /\ shadow[d] = Stored[d]
    BY DEF ShadowAgrees
  <2>1. NoReset /\ \A t \in Tasks : pc[t] \notin Keeping
    BY Harmless DEF Idle, NoReset, Resetting, ErasePoints
  <2> QED BY <2>1 DEF StoreInv, DomainOK, LeftOver
<1> QED BY <1>1, StoreInvariant, PTL

\* At the end of a save the store is the merged copy, and that is what was asked for,
\* but for left-overs.
LEMMA ShadowIsStored ==
  ASSUME TypeOK, StoreInv, NEW t \in Tasks, pc[t] = "shadow"
  PROVE  \A f \in Fields : Stored[f] = asked[t][f] \/ LeftOver(f, Stored[f])
<1>1. pc[t] \in Keeping /\ Done(pc[t]) = Domains
  BY DEF Keeping, Saving, Done, AllMerged
<1>2. SaveOK(t) /\ \A d \in Domains : Stored[d] = Get(d)
  BY <1>1, SavingFacts
<1>3. snap = tmp[t] /\ snap # NoBlob
  BY <1>1, <1>2, BlobAssumption DEF SaveOK, TypeOK
<1>4. Stored["own"] = asked[t]["own"]
  BY <1>1, <1>2, <1>3, StoredIs DEF SaveOK
<1>5. \A d \in Domains : Stored[d] = asked[t][d] \/ LeftOver(d, Stored[d])
  BY <1>1, <1>2 DEF SaveOK
<1> QED BY <1>4, <1>5

\* A save that returns ESP_OK, or a reboot just before it does, leaves in the store exactly
\* the configuration the save started from, also when it repeats a save that failed.
THEOREM SaveIsStored == ASSUME Serial PROVE Spec => RetryIsStored
<1>1. TypeOK /\ StoreInv /\ [Next]_vars =>
        \A t \in Tasks :
          pc[t] = "shadow" /\ pc'[t] = "idle" /\ failed \subseteq {asked[t]}
            => Stored' = asked[t]
  <2> SUFFICES ASSUME TypeOK, StoreInv, [Next]_vars, NEW t \in Tasks,
                      pc[t] = "shadow", pc'[t] = "idle", failed \subseteq {asked[t]}
               PROVE  Stored' = asked[t]
    OBVIOUS
  <2>1. \A f \in Fields : Stored[f] = asked[t][f]
    BY ShadowIsStored DEF LeftOver
  <2>2. Stored = asked[t]
    <3>1. Stored \in Config /\ asked[t] \in Config
      BY StoredType DEF TypeOK
    <3> QED BY <2>1, <3>1
  <2>3. UNCHANGED <<legacy, snap>>
    <3>1. \A u \in Tasks \ {t} : pc[u] = "idle"
      BY Others DEF StoreInv
    <3>2. MoveShadow(t) \/ PowerCut
      <4>1. ASSUME NEW u \in Tasks, pc[u] \in {"idle", "shadow"}
            PROVE  /\ ~UpdateConfig(u) /\ ~CopyConfig(u) /\ ~MergeDomain(u) /\ ~PushDomain(u)
                   /\ ~WriteSnapshot(u) /\ ~SnapshotFails(u) /\ ~PublishMerged(u)
                   /\ ~EraseNamespace(u) /\ ~Reload(u)
        BY <4>1 DEF UpdateConfig, CopyConfig, MergeDomain, PushDomain, WriteSnapshot,
                    SnapshotFails, PublishMerged, EraseNamespace, Reload, MergePoints,
                    PushPoint, ErasePoints
      <4>2. ASSUME NEW u \in Tasks
            PROVE  ~GetConfig(u) /\ ~BeginSave(u) /\ ~BeginReset(u)
        <5>1. CASE MayStart(u)
          <6>1. u # t
            BY <5>1 DEF MayStart
          <6> QED BY <6>1 DEF GetConfig, BeginSave, BeginReset, Goto, TypeOK
        <5> QED BY <5>1 DEF GetConfig, BeginSave, BeginReset
      <4>3. ASSUME NEW u \in Tasks, MoveShadow(u) PROVE u = t
        BY <3>1, <4>3 DEF MoveShadow
      <4> QED BY <3>1, <4>1, <4>2, <4>3 DEF Next, vars
    <3> QED BY <3>2 DEF MoveShadow, PowerCut
  <2> QED BY <2>2, <2>3, StoredKept
<1> QED BY <1>1, StoreInvariant, PTL DEF Spec, RetryIsStored

-----------------------------------------------------------------------------
(* The refinement: each step of the store is a step of the cells, or none.     *)

USE DEF Cells!cellVars

LEMMA WantNone ==
  ASSUME \A u \in Tasks : pc[u] \notin Keeping PROVE Want = {}
  BY DEF Want, Keeping

LEMMA WantOne ==
  ASSUME NEW t \in Tasks, pc[t] \in Keeping, \A u \in Tasks \ {t} : pc[u] = "idle"
  PROVE  Want = {asked[t]}
<1>1. \A u \in Tasks \ {t} : pc[u] \notin Keeping
  BY Harmless
<1> QED BY <1>1 DEF Want, Keeping

\* A step of a save that holds its copy: what it asked for stays, and nothing is erased.
LEMMA WantKept ==
  ASSUME StoreInv, NEW t \in Tasks, pc[t] \in Keeping, pc'[t] \in Keeping,
         \A u \in Tasks \ {t} : pc'[u] = pc[u], asked' = asked
  PROVE  /\ Want = {asked[t]} /\ Want' = Want
         /\ \A u \in Tasks : pc[u] \notin Resetting /\ pc'[u] \notin Resetting
<1>1. pc[t] # "idle" /\ pc[t] \notin Resetting /\ pc'[t] \notin Resetting
  BY DEF Keeping, Saving, MergePoints, Resetting, ErasePoints
<1>2. \A u \in Tasks \ {t} : pc[u] = "idle" /\ pc'[u] = "idle"
  BY <1>1, Others DEF StoreInv
<1>3. Want' = {asked[t]}
  <2>1. \A u \in Tasks \ {t} : pc'[u] \notin Keeping
    BY <1>2, Harmless
  <2> QED BY <2>1 DEF Want, Keeping
<1> QED BY <1>1, <1>2, <1>3, WantOne DEF Resetting, ErasePoints
\* Whether a reset is under way does not change, or does.
LEMMA ErasingIs ==
  /\ NoReset <=> (\E t \in Tasks : pc[t] \in Resetting) = FALSE
  /\ ~NoReset <=> (\E t \in Tasks : pc[t] \in Resetting) = TRUE
  BY DEF NoReset

LEMMA ErasingKept ==
  ASSUME NoReset <=> NoReset'
  PROVE  (\E t \in Tasks : pc'[t] \in Resetting) = (\E t \in Tasks : pc[t] \in Resetting)
  BY DEF NoReset

LEMMA StartRefines ==
  ASSUME TypeOK, StoreInv, Serial, NEW t \in Tasks,
         GetConfig(t) \/ BeginSave(t) \/ BeginReset(t)
  PROVE  Cells!CellsNext \/ UNCHANGED Cells!cellVars
<1>1. \A u \in Tasks : pc[u] = "idle"
  BY DEF GetConfig, BeginSave, BeginReset, MayStart, Serial
<1>2. /\ \A u \in Tasks \ {t} : pc'[u] = "idle"
      /\ pc'[t] \in {"edit", "copy", "eraseNet"}
      /\ BeginReset(t) => pc'[t] = "eraseNet"
      /\ ~BeginReset(t) => pc'[t] # "eraseNet"
      /\ UNCHANGED <<ram, legacy, snap, failed>>
  BY <1>1 DEF GetConfig, BeginSave, BeginReset, Goto, TypeOK
<1>3. NoReset
  BY <1>1 DEF NoReset, Resetting, ErasePoints
<1>4. Want = {} /\ Want' = {} /\ Stored' = Stored
  <2>1. \A u \in Tasks : pc[u] \notin Keeping /\ pc'[u] \notin Keeping
    BY <1>1, <1>2, Harmless
  <2> QED BY <1>2, <2>1, StoredKept DEF Want, Keeping
<1>5. CASE BeginReset(t)
  <2>1. ~NoReset'
    BY <1>2, <1>5 DEF NoReset, Resetting, ErasePoints
  <2>2. (\E u \in Tasks : pc'[u] \in Resetting) = TRUE
    BY <2>1 DEF NoReset
  <2> QED BY <1>2, <1>3, <1>4, <2>2 DEF Cells!CellsNext, Cells!BeginErase, NoReset
<1>6. CASE ~BeginReset(t)
  <2>1. NoReset'
    BY <1>2, <1>6 DEF NoReset, Resetting, ErasePoints
  <2> QED BY <1>2, <1>3, <1>4, <2>1, ErasingKept
<1> QED BY <1>5, <1>6

LEMMA UpdateRefines ==
  ASSUME TypeOK, TypeOK', StoreInv, NEW t \in Tasks, UpdateConfig(t)
  PROVE  Cells!CellsNext
<1>1. /\ pc[t] = "edit" /\ pc'[t] = "idle" /\ \A u \in Tasks \ {t} : pc'[u] = pc[u]
      /\ UNCHANGED <<legacy, snap, failed>>
  BY DEF UpdateConfig, Return, Goto, TypeOK
<1>2. \A u \in Tasks \ {t} : pc[u] = "idle"
  BY <1>1, Others DEF StoreInv
<1>3. NoReset /\ NoReset'
  BY <1>1, <1>2 DEF NoReset, Resetting, ErasePoints
<1>4. Want = {} /\ Want' = {} /\ Stored' = Stored
  <2>1. \A u \in Tasks : pc[u] \notin Keeping /\ pc'[u] \notin Keeping
    BY <1>1, <1>2, Harmless
  <2> QED BY <1>1, <2>1, StoredKept DEF Want, Keeping
<1>5. ram' \in Cells!Configuration
  BY DEF TypeOK, Cells!Configuration
<1> QED BY <1>1, <1>3, <1>4, <1>5, ErasingKept DEF Cells!CellsNext, Cells!Change

LEMMA CopyRefines ==
  ASSUME TypeOK, StoreInv, NEW t \in Tasks, CopyConfig(t)
  PROVE  Cells!CellsNext
<1>1. /\ pc[t] = "copy" /\ pc'[t] = "sys" /\ \A u \in Tasks \ {t} : pc'[u] = pc[u]
      /\ asked'[t] = ram
      /\ UNCHANGED <<ram, legacy, snap, failed>>
  BY DEF CopyConfig, Goto, TypeOK
<1>2. \A u \in Tasks \ {t} : pc[u] = "idle"
  BY <1>1, Others DEF StoreInv
<1>3. NoReset /\ NoReset'
  BY <1>1, <1>2 DEF NoReset, Resetting, ErasePoints
<1>4. Want = {}
  BY <1>1, <1>2, Harmless, WantNone
<1>5. Want' = {ram}
  <2>1. pc'[t] \in Keeping /\ \A u \in Tasks \ {t} : pc'[u] \notin Keeping
    BY <1>1, <1>2, Visits, Harmless
  <2> QED BY <1>1, <2>1 DEF Want, Keeping
<1>6. Stored' = Stored
  BY <1>1, StoredKept
<1>7. ~(\E u \in Tasks : pc[u] \in Resetting)
  BY <1>3 DEF NoReset
<1> QED BY <1>1, <1>3, <1>4, <1>5, <1>6, <1>7, ErasingKept DEF Cells!CellsNext, Cells!Begin

LEMMA MergeRefines ==
  ASSUME TypeOK, StoreInv, NEW t \in Tasks, MergeDomain(t)
  PROVE  UNCHANGED Cells!cellVars
<1>1. /\ pc[t] \in Keeping /\ pc'[t] \in Keeping /\ \A u \in Tasks \ {t} : pc'[u] = pc[u]
      /\ UNCHANGED <<ram, legacy, snap, asked, failed>>
  BY Visits DEF MergeDomain, MergePoints, Goto, TypeOK
<1>2. Want' = Want /\ NoReset /\ NoReset'
  BY <1>1, WantKept DEF NoReset
<1>3. Stored' = Stored
  BY <1>1, StoredKept
<1> QED BY <1>1, <1>2, <1>3, ErasingKept

\* A blob or the snapshot is written: the cells of one field take the copy's value.
LEMMA CommitRefines ==
  ASSUME TypeOK, StoreInv, NEW t \in Tasks, pc[t] \in Keeping, pc'[t] \in Keeping,
         \A u \in Tasks \ {t} : pc'[u] = pc[u], UNCHANGED <<ram, asked, failed>>,
         NEW g \in Fields, Stored'[g] = asked[t][g],
         \A f \in Fields \ {g} : Stored'[f] = Stored[f],
         Stored' = [f \in Fields |-> Stored'[f]]
  PROVE  Cells!CellsNext
<1>1. Want = {asked[t]} /\ Want' = Want /\ NoReset /\ NoReset'
  BY WantKept DEF NoReset
<1>2. Stored' = [f \in Fields |-> IF f \in {g} THEN asked[t][f] ELSE Stored[f]]
  OBVIOUS
<1>3. \E w \in Want, F \in SUBSET Fields :
        Stored' = [f \in Fields |-> IF f \in F THEN w[f] ELSE Stored[f]]
  <2>1. asked[t] \in Want /\ {g} \in SUBSET Fields
    BY <1>1
  <2>2. Stored' = [f \in Fields |-> IF f \in {g} THEN asked[t][f] ELSE Stored[f]]
    BY <1>2
  <2>3. \E F \in SUBSET Fields :
          Stored' = [f \in Fields |-> IF f \in F THEN asked[t][f] ELSE Stored[f]]
    BY <2>1, <2>2
  <2> QED BY <2>1, <2>3
<1> QED BY <1>1, <1>3, ErasingKept DEF Cells!CellsNext, Cells!Commit

LEMMA PushRefines ==
  ASSUME TypeOK, TypeOK', StoreInv, Serial, NEW t \in Tasks, PushDomain(t)
  PROVE  Cells!CellsNext
<1> PICK d \in Domains :
      /\ pc[t] = PushPoint(d)
      /\ legacy' = [legacy EXCEPT ![d] = tmp[t][d]]
      /\ Goto(t, AfterMerge(d))
      /\ UNCHANGED <<ram, shadow, snap, tmp, asked, failed>>
  BY DEF PushDomain, Serial
<1>1. /\ pc[t] \in Keeping /\ pc'[t] \in Keeping /\ d \notin Done(pc[t])
      /\ \A u \in Tasks \ {t} : pc'[u] = pc[u]
  BY Visits DEF Goto, TypeOK
<1>2. tmp[t][d] = asked[t][d] /\ tmp[t][d] # NoBlob
  BY <1>1, SavingFacts, ValueAssumption DEF SaveOK, TypeOK
<1>3. Stored'[d] = asked[t][d]
  BY <1>2 DEF Stored, LoadedFrom, TypeOK
<1>4. \A f \in Fields \ {d} : Stored'[f] = Stored[f]
  BY DEF Stored, LoadedFrom, TypeOK
<1>5. Stored' = [f \in Fields |-> Stored'[f]]
  BY DEF Stored, LoadedFrom
<1> QED BY <1>1, <1>3, <1>4, <1>5, CommitRefines

LEMMA WriteRefines ==
  ASSUME TypeOK, TypeOK', StoreInv, NEW t \in Tasks, WriteSnapshot(t)
  PROVE  Cells!CellsNext
<1>1. /\ pc[t] = "snap" /\ pc'[t] = "publish" /\ \A u \in Tasks \ {t} : pc'[u] = pc[u]
      /\ snap' = tmp[t] /\ UNCHANGED <<ram, shadow, legacy, tmp, asked, failed>>
  BY DEF WriteSnapshot, Goto, TypeOK
<1>2. pc[t] \in Keeping /\ pc'[t] \in Keeping /\ Done(pc[t]) = Domains
  BY <1>1 DEF Keeping, Saving, Done, AllMerged
<1>3. SaveOK(t) /\ \A d \in Domains : Stored[d] = Get(d)
  BY <1>2, SavingFacts
<1>4. tmp[t] # NoBlob
  BY BlobAssumption DEF TypeOK
<1>5. Stored'["own"] = asked[t]["own"]
  BY <1>1, <1>2, <1>3, <1>4 DEF Stored, LoadedFrom, SaveOK
<1>6. \A d \in Domains : Stored'[d] = Stored[d]
  <2>1. \A d \in Domains : tmp[t][d] = Get(d)
    BY <1>2, <1>3 DEF SaveOK
  <2> QED BY <1>1, <1>3, <1>4, <2>1 DEF Stored, LoadedFrom, Get
<1>7. Stored' = [f \in Fields |-> Stored'[f]]
  BY DEF Stored, LoadedFrom
<1> QED BY <1>1, <1>2, <1>5, <1>6, <1>7, CommitRefines

LEMMA PublishRefines ==
  ASSUME TypeOK, TypeOK', StoreInv, NEW t \in Tasks, PublishMerged(t)
  PROVE  Cells!CellsNext
<1>1. /\ pc[t] = "publish" /\ pc'[t] = "shadow" /\ \A u \in Tasks \ {t} : pc'[u] = pc[u]
      /\ UNCHANGED <<legacy, snap, asked, failed>>
  BY DEF PublishMerged, Goto, TypeOK
<1>2. pc[t] \in Keeping /\ pc'[t] \in Keeping
  BY <1>1 DEF Keeping, Saving
<1>3. Want' = Want /\ NoReset /\ NoReset'
  BY <1>1, <1>2, WantKept DEF NoReset
<1>4. Stored' = Stored
  BY <1>1, StoredKept
<1>5. ram' \in Cells!Configuration
  BY DEF TypeOK, Cells!Configuration
<1> QED BY <1>1, <1>3, <1>4, <1>5, ErasingKept DEF Cells!CellsNext, Cells!Change

\* A save ends, the one way or the other.
LEMMA EndFacts ==
  ASSUME TypeOK, StoreInv, NEW t \in Tasks, pc[t] \in Keeping, Return(t)
  PROVE  Want = {asked[t]} /\ Want' = {} /\ NoReset /\ NoReset'
<1>1. pc[t] # "idle" /\ pc'[t] = "idle" /\ \A u \in Tasks \ {t} : pc'[u] = pc[u]
  BY DEF Keeping, Saving, MergePoints, Return, Goto, TypeOK
<1>2. \A u \in Tasks \ {t} : pc[u] = "idle"
  BY <1>1, Others DEF StoreInv
<1>3. Want' = {}
  <2>1. \A u \in Tasks : pc'[u] \notin Keeping
    BY <1>1, <1>2, Harmless
  <2> QED BY <2>1 DEF Want, Keeping
<1>4. NoReset'
  BY <1>1, <1>2 DEF NoReset, Resetting, ErasePoints
<1> QED BY <1>2, <1>3, <1>4, WantOne, SavingNoReset

LEMMA FailRefines ==
  ASSUME TypeOK, StoreInv, NEW t \in Tasks, SnapshotFails(t)
  PROVE  Cells!CellsNext
<1>1. /\ pc[t] = "snap" /\ failed = {} /\ failed' = {asked[t]} /\ Return(t)
      /\ UNCHANGED <<ram, legacy, snap>>
  BY DEF SnapshotFails
<1>2. Want = {asked[t]} /\ Want' = {} /\ NoReset /\ NoReset'
  <2>1. pc[t] \in Keeping
    BY <1>1 DEF Keeping, Saving
  <2> QED BY <1>1, <2>1, EndFacts
<1>3. Stored' = Stored
  BY <1>1, StoredKept
<1> QED BY <1>1, <1>2, <1>3, ErasingKept DEF Cells!CellsNext, Cells!Fail

LEMMA ShadowRefines ==
  ASSUME TypeOK, StoreInv, NEW t \in Tasks, MoveShadow(t)
  PROVE  Cells!CellsNext
<1>1. /\ pc[t] = "shadow" /\ failed' = {} /\ Return(t) /\ UNCHANGED <<ram, legacy, snap>>
  BY DEF MoveShadow
<1>2. Want = {asked[t]} /\ Want' = {} /\ NoReset /\ NoReset'
  <2>1. pc[t] \in Keeping
    BY <1>1 DEF Keeping, Saving
  <2> QED BY <1>1, <2>1, EndFacts
<1>3. Stored' = Stored
  BY <1>1, StoredKept
<1>4. \A f \in Fields : Stored[f] \in {r[f] : r \in failed \cup {asked[t]}}
  BY <1>1, ShadowIsStored DEF LeftOver
<1>5. \E w \in Want : \A f \in Fields : Stored[f] \in {r[f] : r \in failed \cup {w}}
  <2>1. asked[t] \in Want
    BY <1>2
  <2> QED BY <2>1, <1>4
<1> QED BY <1>1, <1>2, <1>3, <1>5, ErasingKept DEF Cells!CellsNext, Cells!End

LEMMA EraseRefines ==
  ASSUME TypeOK, TypeOK', StoreInv, NEW t \in Tasks, EraseNamespace(t)
  PROVE  Cells!CellsNext
<1> PICK p \in ErasePoints :
      /\ pc[t] = p /\ Goto(t, AfterErase(p))
      /\ UNCHANGED <<ram, shadow, tmp, asked, failed>>
  BY DEF EraseNamespace
<1>1. /\ pc[t] # "idle" /\ pc[t] \in Resetting /\ pc'[t] \in Resetting
      /\ pc[t] \notin Keeping /\ pc'[t] \notin Keeping
      /\ \A u \in Tasks \ {t} : pc'[u] = pc[u]
  BY DEF ErasePoints, AfterErase, Resetting, Keeping, Saving, MergePoints, Goto, TypeOK
<1>2. \A u \in Tasks \ {t} : pc[u] = "idle"
  BY <1>1, Others DEF StoreInv
<1>3. Want = {} /\ Want' = {}
  <2>1. \A u \in Tasks : pc[u] \notin Keeping /\ pc'[u] \notin Keeping
    BY <1>1, <1>2, Harmless
  <2> QED BY <2>1 DEF Want, Keeping
<1>4. ~NoReset /\ ~NoReset'
  BY <1>1 DEF NoReset
<1>5. Stored' \in Cells!Configuration
  <2>1. TypeOK' => (Stored \in Config)'
    BY StoredType, PTL
  <2> QED BY <2>1 DEF Cells!Configuration
<1>6. \E u \in Tasks : pc[u] \in Resetting
  BY <1>1
<1> QED BY <1>3, <1>4, <1>5, <1>6, ErasingKept DEF Cells!CellsNext, Cells!Erase

LEMMA ReloadRefines ==
  ASSUME TypeOK, StoreInv, NEW t \in Tasks, Reload(t)
  PROVE  Cells!CellsNext
<1>1. /\ pc[t] = "reload" /\ ram' = Stored /\ failed' = {} /\ Return(t)
      /\ UNCHANGED <<legacy, snap>>
  BY DEF Reload
<1>2. pc[t] # "idle" /\ pc'[t] = "idle" /\ \A u \in Tasks \ {t} : pc'[u] = pc[u]
  BY <1>1 DEF Return, Goto, TypeOK
<1>3. \A u \in Tasks \ {t} : pc[u] = "idle"
  BY <1>2, Others DEF StoreInv
<1>4. Want = {} /\ Want' = {}
  <2>1. \A u \in Tasks : pc[u] \notin Keeping /\ pc'[u] \notin Keeping
    BY <1>1, <1>2, <1>3, Harmless DEF Keeping, Saving, MergePoints
  <2> QED BY <2>1 DEF Want, Keeping
<1>5. NoReset'
  BY <1>2, <1>3 DEF NoReset, Resetting, ErasePoints
<1>6. (\E u \in Tasks : pc'[u] \in Resetting) = FALSE
  BY <1>5 DEF NoReset
<1>7. \E u \in Tasks : pc[u] \in Resetting
  BY <1>1 DEF Resetting
<1>8. Stored' = Stored /\ Stored = [f \in Fields |-> Default]
  BY <1>1, StoredKept, ReloadFacts DEF Factory
<1> QED BY <1>1, <1>4, <1>6, <1>7, <1>8 DEF Cells!CellsNext, Cells!EndErase

LEMMA CutRefines ==
  ASSUME TypeOK, Serial, PowerCut
  PROVE  Cells!CellsNext
<1>1. /\ NoReset /\ ram' = Stored /\ failed' = {} /\ \A u \in Tasks : pc'[u] = "idle"
      /\ UNCHANGED <<legacy, snap>>
  BY DEF PowerCut, Serial, NoReset
<1>2. Want' = {} /\ NoReset'
  <2>1. \A u \in Tasks : pc'[u] \notin Keeping
    BY <1>1, Harmless
  <2> QED BY <1>1, <2>1 DEF Want, Keeping, NoReset, Resetting, ErasePoints
<1>3. Stored' = Stored
  BY <1>1, StoredKept
<1>4. ~(\E u \in Tasks : pc[u] \in Resetting)
  BY <1>1 DEF NoReset
<1> QED BY <1>1, <1>2, <1>3, <1>4, ErasingKept DEF Cells!CellsNext, Cells!PowerLoss

LEMMA StepRefines ==
  ASSUME TypeOK, StoreInv, Serial, [Next]_vars
  PROVE  [Cells!CellsNext]_(Cells!cellVars)
<1>0. TypeOK'
  BY TypeStep
<1>1. CASE UNCHANGED vars
  <2>1. Stored' = Stored /\ Want' = Want /\ (NoReset <=> NoReset')
    BY <1>1, StoredKept DEF vars, Want, NoReset
  <2> QED BY <1>1, <2>1, ErasingKept DEF vars
<1>2. ASSUME NEW t \in Tasks, GetConfig(t) \/ BeginSave(t) \/ BeginReset(t)
      PROVE  [Cells!CellsNext]_(Cells!cellVars)
  BY <1>2, StartRefines
<1>3. ASSUME NEW t \in Tasks, MergeDomain(t) PROVE [Cells!CellsNext]_(Cells!cellVars)
  BY <1>3, MergeRefines
<1>4. ASSUME NEW t \in Tasks,
             \/ UpdateConfig(t) \/ CopyConfig(t) \/ PushDomain(t) \/ WriteSnapshot(t)
             \/ SnapshotFails(t) \/ PublishMerged(t) \/ MoveShadow(t) \/ EraseNamespace(t)
             \/ Reload(t)
      PROVE  Cells!CellsNext
  BY <1>0, <1>4, UpdateRefines, CopyRefines, PushRefines, WriteRefines, FailRefines,
     PublishRefines, ShadowRefines, EraseRefines, ReloadRefines
<1>5. ASSUME PowerCut PROVE Cells!CellsNext
  BY <1>5, CutRefines
<1> QED BY <1>1, <1>2, <1>3, <1>4, <1>5 DEF Next

LEMMA InitRefines == Init => Cells!CellsInit
<1> SUFFICES ASSUME Init PROVE Cells!CellsInit
  OBVIOUS
<1>1. \A u \in Tasks : pc[u] = "idle"
  BY DEF Init
<1>2. Want = {}
  BY <1>1, Harmless, WantNone
<1>3. (\E u \in Tasks : pc[u] \in Resetting) = FALSE
  BY <1>1 DEF Resetting, ErasePoints
<1>4. Stored = ram /\ failed = {} /\ ram = [f \in Fields |-> Default]
  BY DEF Init, Stored, LoadedFrom, Factory
<1> QED BY <1>2, <1>3, <1>4 DEF Cells!CellsInit

\* The snapshot, the three legacy blobs, the shadow and the three-way merge together keep
\* the promise of one cell per field: under failing snapshots and power cuts a save stores
\* the fields of its copy and nothing else, and a reset ends with factory values.
THEOREM StoreImplementsCells == ASSUME Serial PROVE Spec => FieldByField
  BY InitRefines, StepRefines, StoreInvariant, PTL DEF Spec, FieldByField, Cells!CellsSpec

-----------------------------------------------------------------------------
(* The three together.                                                     *)

\* Whichever part runs, each goes by its own specification, so that every theorem about a
\* part holds of their composition.
THEOREM PartsOfTheConfiguration == PartSpec => Spec /\ PanelSpec /\ SoundSpec
<1>1. PartInit => Init /\ PanelInit /\ SoundInit
  BY DEF PartInit
<1>2. [PartNext]_<<part, vars, panelState, soundVars>> =>
        [Next]_vars /\ [PanelNext]_panelState /\ [SoundNext]_soundVars
  BY DEF PartNext
<1> QED
  BY <1>1, <1>2, PTL DEF PartSpec, Spec, PanelSpec, SoundSpec

\* Whichever part runs keeps to its types.
THEOREM PartTypeCorrect == PartSpec => []TypesOK
<1>1. TypeOK /\ PanelTypeOK /\ SoundTypeOK => TypesOK
  BY DEF TypesOK
<1> QED
  BY <1>1, PartsOfTheConfiguration, StoreTypeCorrect, PanelTypeCorrect, SoundTypeCorrect, PTL
=============================================================================
