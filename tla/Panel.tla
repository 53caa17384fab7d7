------------------------------- MODULE Panel -------------------------------
(***************************************************************************)
(* The front panel (main/app/home_screen.c on components/lcd_menu and      *)
(* components/hmi_bsp): five keys, a 20x4 display, one task.               *)
(*                                                                         *)
(* The task polls the keys.  In the menu an item may open a modal screen,  *)
(* which is a polling loop of its own inside the handler of the item: `at` *)
(* is the loop the task is in, `next` the one behind the wait for the keys *)
(* to be released.  Keys are levels; a loop sees a press as the difference *)
(* to its previous sample, and a read of the port expander may fail.       *)
(*                                                                         *)
(* Settings are edited in a draft: a copy of the whole snapshot, of which  *)
(* one field is changed and which is then written back whole.  Meanwhile   *)
(* web portal, console and the network protocols do the same.  One field   *)
(* stands for all settings of display and sound ("lcd"), of which the panel*)
(* keeps a copy, one for all others ("site"); one row for those of a screen *)
(* that share a callback.  What is drawn, the lights and the backlight are left *)
(* out, the relays too, and what sounds is in PanelSound.                  *)
(*                                                                         *)
(* A definition named after the one that follows it is a broken form of it.*)
(***************************************************************************)
EXTENDS Integers, Sequences

CONSTANTS
    MaxWrites,      \* bound: updates by the other editors
    MaxEdits,       \* bound: updates by the panel
    MaxFails        \* bound: failed reads of the keys

ASSUME PanelAssumption == {MaxWrites, MaxEdits, MaxFails} \subseteq Nat

VARIABLES
    panelRam, nvs,       \* the configuration: snapshot and flash
    mirror,         \* what the panel keeps of it for itself
    pending,        \* s_cfg_pending
    unapplied,      \* history: mirrored fields changed with no LCD apply since
    view,           \* s_cfg_view, behind the rows on the display
    since,          \* history: fields others wrote since the view was read
    draft,          \* the copy being edited
    writes, edits,
    held,           \* the key that is down
    last,           \* last_buttons of the main loop
    prev,           \* previous sample of the modal loop
    fails,
    answered,       \* history: OK went down since the question was put
    blind,          \* history: a read failed while it was put
    at, next,       \* where the task is, and where it goes after the release
    mode, sub, io, menu,
    yes             \* the selected answer to a question

settings == <<panelRam, nvs, mirror, pending, unapplied, writes, edits>>
drafts   == <<view, since, draft>>
keys     == <<held, last, prev, fails, answered, blind>>
screens  == <<mode, sub, io, menu>>
panelState     == <<settings, drafts, keys, at, next, screens, yes>>

Keys == {"TOP", "BOTTOM", "LEFT", "RIGHT", "CENTER"}
PanelFields == {"lcd", "site"}
LcdFields == {"lcd"}                    \* kept in the panel, applied by CONFIG_APPLY_LCD
PanelConfig == [PanelFields -> BOOLEAN]
Defaults == [f \in PanelFields |-> TRUE]
IoPage == 4
NoDraft == [base |-> Defaults, field |-> "site", val |-> TRUE, since |-> {}]
Modals == {"info", "devices", "detail", "edit", "slots", "commit", "save",
           "ask", "confirm", "do", "result", "checking", "offer", "installing",
           "portal", "stop", "redraw", "reboot"}

\* The menu tree.
Rows ==
    [ROOT     |-> <<"device", "SETTINGS", "back">>,
     SETTINGS |-> <<"METER", "portal", "MASTER", "SLAVE", "MQTT", "tcp", "ALARM",
                    "ENERGY", "DISPLAY", "fw", "factory", "back">>,
     METER    |-> <<"frequency", "ct", "back">>,
     MASTER   |-> <<"devices", "active", "poll", "back">>,
     SLAVE    |-> <<"id", "baud", "back">>,
     MQTT     |-> <<"broker", "enable", "period", "back">>,
     ALARM    |-> <<"latch", "DETECT", "LIMITS", "PRESET", "OUTPUT", "limit",
                    "sound", "back">>,
     DETECT   |-> <<"detect", "back">>,
     LIMITS   |-> <<"limit", "back">>,
     PRESET   |-> <<"preset", "back">>,
     OUTPUT   |-> <<"role", "back">>,
     ENERGY   |-> <<"energy", "back">>,
     DISPLAY  |-> <<"timed", "back">>]

PanelTypeOK ==
    /\ panelRam \in PanelConfig /\ nvs \in PanelConfig /\ view \in PanelConfig
    /\ mirror \in [LcdFields -> BOOLEAN]
    /\ pending \in BOOLEAN /\ unapplied \subseteq LcdFields /\ since \subseteq PanelFields
    /\ draft \in [base : PanelConfig, field : PanelFields, val : BOOLEAN,
                  since : SUBSET PanelFields]
    /\ writes \in 0..MaxWrites /\ edits \in 0..MaxEdits /\ fails \in 0..MaxFails
    /\ {held, last, prev} \subseteq Keys \cup {"NONE"}
    /\ {answered, blind, yes} \subseteq BOOLEAN
    /\ at \in Modals \cup {"poll", "copy", "keys", "release"} /\ next \in Modals
    /\ mode \in {"main", "status", "menu"}
    /\ sub \in 0..IoPage /\ io \in {"view", "out0", "out1"}
    /\ Len(menu) \in 1..4
    /\ \A i \in 1..Len(menu) : menu[i].screen \in DOMAIN Rows
                            /\ menu[i].sel \in 1..Len(Rows[menu[i].screen])

MirrorOf(config) == [f \in LcdFields |-> config[f]]
RootMenu == <<[screen |-> "ROOT", sel |-> 1]>>

PanelInit ==
    /\ panelRam = Defaults /\ nvs = Defaults /\ mirror = MirrorOf(Defaults)
    /\ pending = FALSE /\ unapplied = {} /\ writes = 0 /\ edits = 0
    /\ view = Defaults /\ since = {} /\ draft = NoDraft
    /\ held = "NONE" /\ last = "NONE" /\ prev = "NONE" /\ fails = 0
    /\ answered = FALSE /\ blind = FALSE
    /\ at = "poll" /\ next = "redraw"
    /\ mode = "main" /\ sub = 0 /\ io = "view" /\ menu = RootMenu
    /\ yes = TRUE
-----------------------------------------------------------------------------
(* Keys.                                                                   *)

\* hmi_bsp_read_buttons(): the loops take a read that fails for "nothing pressed".
Sample(k) ==
    \/ k = held /\ UNCHANGED fails
    \/ k = "NONE" /\ held # "NONE" /\ fails < MaxFails /\ fails' = fails + 1

Edge(k, before) == IF k = before THEN "NONE" ELSE k

\* A modal loop sees edge e, ...
Sees(k, e) == Sample(k) /\ e = Edge(k, prev) /\ UNCHANGED <<held, last>>

\* ... and stays, ...
Remain(k) == prev' = k /\ UNCHANGED <<at, next>>

EnterAtOnce(screen) == at' = screen /\ next' = screen /\ prev' = "NONE"

\* A modal screen begins with the release of the key that opened it, ...
Enter(screen) == at' = "release" /\ next' = screen /\ prev' = "NONE"

\* ... and so does a question: wait_confirm_cancel().
QuestionAtOnce ==
    /\ EnterAtOnce("confirm")
    /\ yes' = TRUE
    /\ answered' = FALSE /\ blind' = FALSE

Question ==
    /\ Enter("confirm")
    /\ yes' = TRUE
    /\ answered' = FALSE /\ blind' = FALSE

NoQuestion == UNCHANGED <<yes, answered, blind>>

\* wait_buttons_released(): here a read that fails leaves the one before, which
\* for the first turn is "nothing pressed".
Release ==
    /\ at = "release"
    /\ \E k \in {held, prev} :
        /\ \/ k = held /\ UNCHANGED <<fails, blind>>
           \/ k # held /\ k = prev /\ fails < MaxFails /\ fails' = fails + 1
              /\ blind' = (blind \/ next = "confirm")
        /\ at' = IF k = "NONE" THEN next ELSE "release"
        /\ prev' = k
    /\ UNCHANGED <<settings, drafts, held, last, answered, next, screens, yes>>
-----------------------------------------------------------------------------
(* The main loop: reload request, keys, then the keys of the mode.    *)

\* The request is taken before the settings are read, ...
TakeRequest ==
    /\ at = "poll" /\ pending
    /\ pending' = FALSE
    /\ at' = "copy"
    /\ UNCHANGED <<panelRam, nvs, mirror, unapplied, writes, edits, drafts, keys, next,
                   screens, yes>>

\* ... by lcd_settings_reload().
CopyMirror ==
    /\ at = "copy"
    /\ mirror' = MirrorOf(panelRam)
    /\ unapplied' = {}
    /\ at' = "keys"
    /\ UNCHANGED <<panelRam, nvs, pending, writes, edits, drafts, keys, next, screens,
                   yes>>

AtKeys == at = "keys" \/ (at = "poll" /\ ~pending)

MainLoop(k, e) ==
    /\ AtKeys
    /\ Sample(k) /\ e = Edge(k, last) /\ last' = k
    /\ UNCHANGED held

InMode(m) == mode = m /\ UNCHANGED <<settings>>
Again == at' = "poll" /\ next' = "redraw" /\ prev' = "NONE"

\* The measurement pages turn by hand and by themselves; LEFT and RIGHT lead to the
\* status pages, OK to the menu.
MainPages ==
    /\ InMode("main") /\ Again
    /\ \E k \in {held, "NONE"}, e \in Keys \cup {"NONE"} :
        /\ MainLoop(k, e)
        /\ \/ /\ e \in {"LEFT", "RIGHT"}
              /\ mode' = "status" /\ UNCHANGED <<sub, io, menu, drafts>>
           \/ /\ e = "CENTER"
              /\ mode' = "menu" /\ menu' = RootMenu
              /\ view' = panelRam /\ since' = {}
              /\ UNCHANGED <<sub, io, draft>>
           \/ /\ e \in {"TOP", "BOTTOM", "NONE"}
              /\ UNCHANGED <<mode, sub, io, menu, drafts>>
    /\ NoQuestion

NextIo == IF io = "out0" THEN "out1" ELSE "out0"

\* The status pages; on the last one OK switches the selected relay.  Every other key
\* leads back, and so does a while without one.
StatusPages ==
    /\ InMode("status") /\ Again
    /\ UNCHANGED <<drafts, menu>> /\ NoQuestion
    /\ \E k \in {held, "NONE"}, e \in Keys \cup {"NONE"} :
        /\ MainLoop(k, e)
        /\ \/ /\ e \in {"LEFT", "RIGHT"}
              /\ sub' = (IF e = "RIGHT" THEN sub + 1 ELSE sub + IoPage) % (IoPage + 1)
              /\ io' = "view" /\ UNCHANGED mode
           \/ /\ e \in {"TOP", "BOTTOM"} /\ sub = IoPage
              /\ io' = NextIo /\ UNCHANGED <<mode, sub>>
           \/ /\ e = "NONE" \/ (e = "CENTER" /\ sub = IoPage /\ io # "view")
              /\ UNCHANGED <<mode, sub, io>>
           \/ /\ \/ e = "NONE"
                 \/ e = "CENTER" /\ (sub # IoPage \/ io = "view")
                 \/ e \in {"TOP", "BOTTOM"} /\ sub # IoPage
              /\ mode' = "main" /\ io' = "view" /\ sub' = 0

Top == menu[Len(menu)]
Row == Rows[Top.screen][Top.sel]
Up == IF Top.sel = 1 THEN Len(Rows[Top.screen]) ELSE Top.sel - 1
Down == (Top.sel % Len(Rows[Top.screen])) + 1
Select(n) == menu' = [menu EXCEPT ![Len(menu)].sel = n]
Stay == menu' = menu

\* lcd_menu_handle_key(), but for what OK does on a row with an action.  The item
\* "Back" of the root has one (menu_back), which its type never calls.
Navigate(e) ==
    \/ e = "TOP" /\ Select(Up)
    \/ e = "BOTTOM" /\ Select(Down)
    \/ e = "RIGHT" /\ Stay
    \/ /\ e = "LEFT" \/ (e = "CENTER" /\ Row = "back")
       /\ Len(menu) > 1
       /\ menu' = SubSeq(menu, 1, Len(menu) - 1)
    \/ e = "CENTER" /\ Row = "back" /\ Len(menu) = 1 /\ Stay
    \/ e = "CENTER" /\ Row \in DOMAIN Rows
       /\ menu' = Append(menu, [screen |-> Row, sel |-> 1])

MenuKey ==
    /\ InMode("menu")
    /\ \E k \in {held, "NONE"}, e \in Keys \cup {"NONE"} :
        /\ MainLoop(k, e)
        /\ \/ e = "NONE" /\ UNCHANGED <<mode, menu>> /\ Again
           \/ e = "LEFT" /\ Len(menu) = 1 /\ mode' = "main" /\ Stay /\ Again
           \/ ~(e = "LEFT" /\ Len(menu) = 1) /\ Navigate(e)
              /\ UNCHANGED mode /\ EnterAtOnce("redraw")
    /\ UNCHANGED <<drafts, sub, io>> /\ NoQuestion

\* After every key the cached snapshot is dropped and the rows are drawn from a
\* new one.
RedrawFromOldView ==
    /\ at = "redraw"
    /\ UNCHANGED view /\ since' = {} /\ draft' = NoDraft
    /\ yes' = TRUE /\ answered' = FALSE /\ blind' = FALSE
    /\ Again
    /\ UNCHANGED <<settings, held, last, fails, screens>>

Redraw ==
    /\ at = "redraw"
    /\ view' = panelRam /\ since' = {} /\ draft' = NoDraft
    /\ yes' = TRUE /\ answered' = FALSE /\ blind' = FALSE
    /\ Again
    /\ UNCHANGED <<settings, held, last, fails, screens>>
-----------------------------------------------------------------------------
(* OK on a row with an action.                                             *)

\* A draft of one field, from the configuration or from the cached view.
Draft(base, seen, field, val) ==
    draft' = [base |-> base, field |-> field, val |-> val, since |-> seen]

FieldOf(row) == IF row \in {"timed", "sound"} THEN "lcd" ELSE "site"

Choosing(row) ==
    /\ mode = "menu" /\ AtKeys /\ Row = row
    /\ \E k \in {held, "NONE"} : MainLoop(k, "CENTER")
    /\ UNCHANGED <<screens, view, since, panelRam, mirror, pending, unapplied, writes, edits>>

\* Rows that only show something.
Shows(row, screen) ==
    /\ Choosing(row) /\ Enter(screen)
    /\ UNCHANGED <<nvs, draft>> /\ NoQuestion

DeviceInfo == Shows("device", "info")
MqttInfo == Shows("broker", "info")
TcpServer == Shows("tcp", "info")
RtuInfo == Shows("devices", "devices")

\* menu_line_freq: the meter takes it and writes a copy of the configuration back with
\* the nominal and band of the alarm; it may refuse, have no memory for the copy or find
\* the configuration as it should be, which is then saved only.  (menu_wiring_mode hands its
\* choice to the meter and leaves the configuration alone.)
LineFreq ==
    /\ Choosing("frequency") /\ NoQuestion
    /\ \/ /\ edits < MaxEdits /\ Draft(panelRam, {}, "site", ~panelRam.site)
          /\ EnterAtOnce("commit") /\ UNCHANGED nvs
       \/ /\ nvs' \in {nvs, panelRam} /\ UNCHANGED draft
          /\ EnterAtOnce("redraw")

\* A flag is flipped and committed at once.
Flips(row, base, seen, val) ==
    /\ edits < MaxEdits
    /\ Choosing(row) /\ Draft(base, seen, FieldOf(row), val)
    /\ EnterAtOnce("commit")
    /\ UNCHANGED <<nvs>> /\ NoQuestion

AlarmOutRole == Flips("role", panelRam, {}, ~panelRam.site)
BuzzerPreferences == Flips("sound", panelRam, {}, ~mirror.lcd)
MqttToggle == Flips("enable", view, since, ~view.site)

\* An editor opens: on the configuration of now, or on that of the view.
Opens(row, base, seen, screen) ==
    /\ edits < MaxEdits
    /\ Choosing(row) /\ Draft(base, seen, FieldOf(row), base[FieldOf(row)])
    /\ Enter(screen)
    /\ UNCHANGED <<nvs>> /\ NoQuestion

AlarmConfig ==
    Flips("detect", panelRam, {}, ~panelRam.site) \/ Opens("limit", panelRam, {}, "edit")
TimedSetting == Opens("timed", panelRam, {}, "edit")
SlaveId == Opens("id", panelRam, {}, "edit")
SlaveBaud == Opens("baud", panelRam, {}, "edit")
CurrentCt == Opens("ct", panelRam, {}, "edit")
RtuActive == Opens("active", panelRam, {}, "slots")
RtuPoll == Opens("poll", view, since, "edit")
MqttPeriod == Opens("period", view, since, "edit")

OpenScreen == \/ DeviceInfo \/ MqttInfo \/ TcpServer \/ RtuInfo \/ LineFreq
              \/ AlarmOutRole \/ BuzzerPreferences \/ MqttToggle
              \/ AlarmConfig \/ TimedSetting \/ SlaveId \/ SlaveBaud \/ CurrentCt
              \/ RtuActive \/ RtuPoll \/ MqttPeriod

\* menu_factory_reset, menu_energy_reset, menu_portal_start, menu_alarm_preset.
AskFirst ==
    /\ edits < MaxEdits
    /\ \E row \in {"factory", "energy", "portal", "preset"} :
        /\ Choosing(row)
        /\ IF row = "preset" THEN Draft(panelRam, {}, "site", ~panelRam.site)
           ELSE UNCHANGED draft
        /\ Question
    /\ UNCHANGED <<nvs>>

\* menu_alarm_reset_latch.
ResetLatch ==
    /\ AtKeys /\ mode = "menu" /\ Row = "latch"
    /\ \E k \in {held, "NONE"} :
        Sample(k) /\ Edge(k, last) = "CENTER" /\ last' = k
    /\ EnterAtOnce("result")
    /\ UNCHANGED <<settings, drafts, held, screens>> /\ NoQuestion

\* menu_fw_update: the request is refused or the worker is watched.
CheckFirmware ==
    /\ Choosing("fw")
    /\ Enter("info") \/ EnterAtOnce("checking")
    /\ UNCHANGED <<nvs, draft>> /\ NoQuestion
-----------------------------------------------------------------------------
(* The modal screens.                                                      *)

Modal(screen) == at = screen /\ UNCHANGED <<settings, screens, view, since>>

\* show_info(), wait_modal_ok_or_back(), menu_rtu_slot_detail(): until OK or LEFT.
Info ==
    /\ \E screen \in {"info", "detail"} :
        /\ Modal(screen)
        /\ \E k \in {held, "NONE"}, e \in Keys \cup {"NONE"} :
            /\ Sees(k, e)
            /\ IF e \in {"CENTER", "LEFT"}
               THEN Enter(IF screen = "detail" THEN "devices" ELSE "redraw")
               ELSE Remain(k)
    /\ UNCHANGED <<draft>> /\ NoQuestion

\* menu_rtu_info(): the list of the downstream meters.
Devices ==
    /\ Modal("devices")
    /\ \E k \in {held, "NONE"}, e \in Keys \cup {"NONE"} :
        /\ Sees(k, e)
        /\ IF e = "CENTER" THEN Enter("detail")
           ELSE IF e = "LEFT" THEN Enter("redraw") ELSE Remain(k)
    /\ UNCHANGED <<draft>> /\ NoQuestion

Unchanged == draft.val = draft.base[draft.field]
Flip == [draft EXCEPT !.val = ~@]

\* The value editors step with TOP and BOTTOM, repeat while one is held, discard
\* with LEFT and end with OK.
Editing(rows, done) ==
    /\ Modal("edit") /\ Row \in rows
    /\ \E k \in {held, "NONE"}, e \in Keys \cup {"NONE"} :
        /\ Sees(k, e)
        /\ \/ e = "LEFT" /\ Enter("redraw") /\ UNCHANGED draft
           \/ e = "CENTER" /\ edits < MaxEdits /\ Enter(done) /\ UNCHANGED draft
           \/ /\ e \notin {"LEFT", "CENTER"}
              /\ Remain(k)
              /\ draft' \in IF e \in {"TOP", "BOTTOM"} THEN {Flip}
                           ELSE IF k \in {"TOP", "BOTTOM"} THEN {draft, Flip} ELSE {draft}
    /\  NoQuestion

EditSeconds == Editing({"timed", "poll", "period"}, "commit")
EditAlarmValue == Editing({"limit"}, "commit")
EditU8 == Editing({"id"}, IF Unchanged THEN "redraw" ELSE "commit")
EditBaud == Editing({"baud"}, IF Unchanged THEN "redraw" ELSE "commit")
EditRatio == Editing({"ct"}, IF Unchanged THEN "redraw" ELSE "ask")

\* menu_rtu_active(): each OK flips a switch and commits it; LEFT leaves.
Slots ==
    /\ Modal("slots")
    /\ \E k \in {held, "NONE"}, e \in Keys \cup {"NONE"} :
        /\ Sees(k, e)
        /\ \/ /\ e = "CENTER" /\ edits < MaxEdits
              /\ draft' = [draft EXCEPT !.val = ~draft.base[draft.field]]
              /\ EnterAtOnce("commit")
           \/ e = "LEFT" /\ Enter("redraw") /\ UNCHANGED draft
           \/ e \notin {"LEFT", "CENTER"} /\ Remain(k)
              /\ UNCHANGED draft
    /\  NoQuestion

\* The second of two waits: a question that follows a screen.
Ask ==
    /\ Modal("ask")
    /\ Question
    /\ UNCHANGED <<draft, held, last, fails>>

\* wait_confirm_cancel().
Confirm ==
    /\ Modal("confirm")
    /\ \E k \in {held, "NONE"}, e \in Keys \cup {"NONE"} :
        /\ Sees(k, e)
        /\ IF e = "CENTER" THEN Enter(IF yes THEN "do" ELSE "redraw")
           ELSE Remain(k)
        /\ yes' = IF e \in {"LEFT", "RIGHT"} THEN ~yes ELSE yes
    /\ UNCHANGED <<draft, answered, blind>>

\* What is done once the operator has confirmed.
Acts(about) ==
    at = "do" /\ Row = about
    /\ UNCHANGED <<screens, view, since, held, last, fails>>

\* config_manager_factory_reset(): erased, in part perhaps, and loaded again; the
\* panel is not told.
FactoryReset ==
    /\ Acts("factory")
    /\ nvs' \in {nvs, Defaults} /\ panelRam' = nvs'
    /\ unapplied' = unapplied \cup {f \in LcdFields : panelRam'[f] # panelRam[f]}
    /\ EnterAtOnce("result")
    /\ UNCHANGED <<mirror, pending, writes, edits, draft>> /\ NoQuestion

\* menu_energy_reset(), menu_current_ct() when the meter refuses the ratio,
\* menu_portal_start() and menu_fw_update() when the request is refused.
Refused ==
    /\ \E about \in {"energy", "ct", "portal", "fw"} : Acts(about)
    /\ EnterAtOnce("result")
    /\ draft' = IF Row = "ct" THEN [draft EXCEPT !.val = draft.base[draft.field]] ELSE draft
    /\ UNCHANGED settings /\ NoQuestion

CommitConfirmed ==
    /\ \E about \in {"preset", "ct"} : Acts(about)
    /\ EnterAtOnce("commit")
    /\ UNCHANGED <<settings, draft>> /\ NoQuestion

StartPortal ==
    /\ Acts("portal")
    /\ Enter("portal")
    /\ UNCHANGED <<settings, draft>> /\ NoQuestion

Install ==
    /\ Acts("fw")
    /\ EnterAtOnce("installing")
    /\ UNCHANGED <<settings, draft>> /\ NoQuestion

\* rtu_slave_reboot_prompt(): modbus_slave_request_restart().
RebootForSlave ==
    /\ Acts("id") \/ Acts("baud")
    /\ EnterAtOnce("reboot")
    /\ UNCHANGED <<settings, draft>> /\ NoQuestion

\* update_save_apply() writes the whole draft into the snapshot, ...
Written == [draft.base EXCEPT ![draft.field] = draft.val]

\* Where a commit leads, and what becomes of the draft.
Finish(ok) ==
    /\ IF Row \in {"id", "baud"} /\ ok THEN Question
       ELSE /\ IF Row = "active" THEN Enter("slots")
               ELSE EnterAtOnce(IF Row \in {"preset", "ct", "id", "baud"} THEN "result" ELSE "redraw")
            /\ NoQuestion
    /\ draft' = IF Row \in {"active", "ct"} /\ ok THEN [draft EXCEPT !.base = Written]
                ELSE IF Row = "active" THEN [draft EXCEPT !.base = panelRam, !.since = {}]
                ELSE IF Row = "ct" THEN [draft EXCEPT !.val = draft.base[draft.field]]
                ELSE draft

Committing(step) ==
    at = step /\ UNCHANGED <<writes, screens, view, since, held, last, fails>>

\* ... or is refused by the validation, which menu_line_freq does not look at ...
Commit ==
    /\ Committing("commit")
    /\ edits' = edits + 1
    /\ \/ /\ panelRam' = Written \/ (Row = "frequency" /\ UNCHANGED panelRam)
          /\ unapplied' = unapplied \cup {f \in LcdFields : panelRam'[f] # panelRam[f]}
          /\ EnterAtOnce("save")
          /\ UNCHANGED draft /\ NoQuestion
       \/ Finish(FALSE) /\ UNCHANGED <<panelRam, unapplied>>
    /\ UNCHANGED <<nvs, mirror, pending>>

\* ... and then applies and saves; menu_current_ct() saves only.
Applied == IF Row # "ct" /\ draft.field \in LcdFields
           THEN pending' = TRUE /\ unapplied' = {} ELSE UNCHANGED <<pending, unapplied>>

KeepMirror == IF Row = "sound" THEN mirror' = [lcd |-> draft.val] ELSE UNCHANGED mirror

SaveBeforeApply ==
    /\ Committing("save")
    /\ \/ nvs' = panelRam /\ Applied /\ KeepMirror /\ Finish(TRUE)
       \/ Finish(FALSE) /\ UNCHANGED <<nvs, mirror, pending>> /\ unapplied' = {}
    /\ UNCHANGED <<panelRam, edits>>

Save ==
    /\ Committing("save")
    /\ Applied
    /\ \/ nvs' = panelRam /\ KeepMirror /\ Finish(TRUE)
       \/ Finish(FALSE) /\ UNCHANGED <<nvs, mirror>>
    /\ UNCHANGED <<panelRam, edits>>

\* show_action_result().
Result ==
    /\ Modal("result")
    /\ Enter(IF Row = "ct" THEN "edit" ELSE "redraw")
    /\ UNCHANGED <<draft, held, last, fails>> /\ NoQuestion

\* menu_fw_update(): polls the update until it has answered, ...
Checking ==
    /\ Modal("checking")
    /\ Enter("offer") \/ Enter("info")
    /\ UNCHANGED <<draft, held, last, fails>> /\ NoQuestion

\* ... offers to install, ...
Offer ==
    /\ Modal("offer")
    /\ \E k \in {held, "NONE"}, e \in Keys \cup {"NONE"} :
        /\ Sees(k, e)
        /\ IF e = "CENTER" THEN Enter("ask")
           ELSE IF e = "LEFT" THEN Enter("redraw") ELSE Remain(k)
    /\ UNCHANGED <<draft>> /\ NoQuestion

\* ... and after the download waits for the restart, not forever.
Installing ==
    /\ Modal("installing")
    /\ EnterAtOnce("reboot") \/ Enter("info")
    /\ UNCHANGED <<draft, held, last, fails>> /\ NoQuestion

NotYetRestarted ==
    /\ Modal("reboot")
    /\ EnterAtOnce("redraw")
    /\ UNCHANGED <<draft, held, last, fails>> /\ NoQuestion

\* menu_portal_start(): until OK or LEFT, or the access point is gone.
Portal ==
    /\ Modal("portal")
    /\ \E k \in {held, "NONE"}, e \in Keys \cup {"NONE"} :
        /\ Sees(k, e)
        /\ IF e \in {"CENTER", "LEFT"} THEN Enter("stop")
           ELSE Remain(k) \/ EnterAtOnce("stop")
    /\ UNCHANGED draft /\ NoQuestion

StopPortal ==
    /\ Modal("stop")
    /\ Enter("redraw") \/ EnterAtOnce("result")
    /\ UNCHANGED <<draft, held, last, fails>> /\ NoQuestion
-----------------------------------------------------------------------------
(* What surrounds the panel.                                               *)

PanelVars == <<panelRam, nvs, mirror, pending, unapplied, edits, view, last, prev, fails,
               blind, at, next, screens, yes>>

Asking == at = "confirm" \/ (at = "release" /\ next = "confirm")

Seen == IF at \in {"poll", "copy", "keys"} THEN last ELSE prev

\* A press that falls between two samples together with the release before it gives
\* the same difference, so only one after a seen release is taken.
Press(k) ==
    /\ held = "NONE" /\ Seen = "NONE" /\ held' = k
    /\ answered' = (answered \/ (k = "CENTER" /\ Asking))
    /\ UNCHANGED <<PanelVars, since, draft, writes>>

LetGo ==
    /\ held # "NONE" /\ held' = "NONE"
    /\ UNCHANGED <<PanelVars, since, draft, writes, answered>>

\* Another editor writes one setting and saves it; applying is a step of its own.
OtherUpdate(f) ==
    /\ writes < MaxWrites /\ writes' = writes + 1
    /\ panelRam' = [panelRam EXCEPT ![f] = ~@] /\ nvs' = panelRam'
    /\ since' = since \cup {f} /\ draft' = [draft EXCEPT !.since = @ \cup {f}]
    /\ unapplied' = unapplied \cup ({f} \cap LcdFields)
    /\ UNCHANGED <<mirror, pending, edits, view, keys, at, next, screens, yes>>

\* home_screen_apply_config().
OtherApply ==
    /\ unapplied # {}
    /\ pending' = TRUE /\ unapplied' = {}
    /\ UNCHANGED <<panelRam, nvs, mirror, writes, edits, drafts, keys, at, next, screens,
                   yes>>

Restart ==
    /\ at = "reboot"
    /\ panelRam' = nvs /\ mirror' = MirrorOf(nvs) /\ view' = nvs
    /\ pending' = FALSE /\ unapplied' = {} /\ since' = {} /\ draft' = NoDraft
    /\ last' = "NONE" /\ prev' = "NONE" /\ answered' = FALSE /\ blind' = FALSE
    /\ at' = "poll" /\ next' = "redraw"
    /\ mode' = "main" /\ sub' = 0 /\ io' = "view" /\ menu' = RootMenu
    /\ yes' = TRUE
    /\ UNCHANGED <<nvs, writes, edits, held, fails>>

Task ==
    \/ TakeRequest \/ CopyMirror \/ MainPages \/ StatusPages \/ MenuKey \/ Redraw \/ Release
    \/ OpenScreen \/ AskFirst \/ ResetLatch \/ CheckFirmware
    \/ Info \/ Devices \/ EditSeconds \/ EditAlarmValue \/ EditU8 \/ EditBaud \/ EditRatio
    \/ Slots \/ Ask \/ Confirm
    \/ FactoryReset \/ Refused \/ CommitConfirmed \/ StartPortal \/ Install \/ RebootForSlave
    \/ Commit \/ Save \/ Result
    \/ Checking \/ Offer \/ Installing \/ NotYetRestarted \/ Portal \/ StopPortal

Environment ==
    \/ LetGo \/ OtherApply \/ Restart
    \/ \E k \in Keys : Press(k)
    \/ \E f \in PanelFields : OtherUpdate(f)

PanelNext == Task \/ Environment

PanelSpec == PanelInit /\ [][PanelNext]_panelState
-----------------------------------------------------------------------------
\* A setting changed at the panel changes no other setting, unless another editor
\* wrote that one after the panel had read the copy it writes back
\* (home_screen.c: update_save_apply, cfg_view).
KeepsOthersWork ==
    [][edits' > edits =>
        \A f \in PanelFields :
            panelRam'[f] # panelRam[f] => f = draft.field \/ f \in draft.since]_panelState

\* What the panel shows and sounds by is what is configured, except for settings
\* that were changed and not yet applied (home_screen.c: s_cfg_pending,
\* save_buzzer_preferences, update_save_apply).
MirrorsFollowConfig ==
    (~pending /\ at # "copy") => \A f \in LcdFields \ unapplied : mirror[f] = panelRam[f]

\* Nothing irreversible is done by the press that led to its question: OK went down
\* again while the question was put, or a read of the keys failed meanwhile
\* (home_screen.c: wait_confirm_cancel).
OnePressOneDecision == at = "do" => answered \/ blind
=============================================================================
