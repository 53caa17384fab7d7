# Verification of the IoT meter firmware

TLA+ specifications of the control logic of this firmware (an ESP32 with an ATM90E32AS metering
chip, two relays, two digital inputs, RS485 in both roles, Ethernet and WiFi, MQTT, a web portal,
an LCD, an SD card and over-the-air update), the TLC instances that check them, and TLAPS proofs of
the properties that should hold whatever the sizes are.

Paths in this file are relative to the repository; `app/` is short for `main/app/`.

## 1. The system

`app/app_tasks.c` starts everything in one fixed order: status registry, network infrastructure (and
NVS with it), Configuration Manager, OTA manager, time source, boot screen, I/O expander, SD card,
certificate store, energy meter, Modbus slave, Modbus master, Modbus TCP, console, WiFi, network
manager, MQTT, home screen. A module that fails is marked ERROR and the boot goes on, except for the
network infrastructure and the Configuration Manager. From then on FreeRTOS tasks of different
priorities run concurrently and share statics, guarded here and there by a mutex or a spinlock.

| Component | State | Operations | Hard because |
|---|---|---|---|
| energy persistence (`app/energy_meter_task.c`) | accumulators, demand maximum and window, `s_persist_*`; NVS blobs `accum_a`, `accum_b` | accumulate, service, save, load, reset energy, reset demand, set window, flush before a restart | the chip clears its registers on reading, so RAM *is* the meter; saves by several tasks with no lock; power cuts |
| energy measurement (same file, `components/atm90e32as`) | latest measurements, calibration | poll, calibrate, set gains | arithmetic; failed SPI transfers |
| configuration (`app/config_manager.c`, `components/config_store`) | `s_cfg`, the shadow `s_legacy`; NVS snapshot and legacy blobs | load, get, update, save, factory reset | two stored copies of the same field, three-way merge, edits during a save, power cuts |
| firmware update (`app/ota_manager.c`) | `s_state`, `s_busy`, request, `s_pending_verify`, self-test timer; otadata and two slots | check, update, install a version, list, confirm, roll back, self-test | several requesters, a worker per request, restarts at any point, probation |
| alarm manager (`app/alarm_manager.c`) | apply flag, two "armed" flags, cached settings, per-bit timers, latch, open incidents, driven outputs | apply thresholds, service, request, reset latch | thresholds live in the chip; short critical sections around long transfers |
| relays and inputs (`components/io_expander`, `pcf8574`) | output latch, cached levels, last inputs, interrupt | start, set, read, interrupt, reset of the Ethernet chip | all outputs go out in one write; every access of anybody ends the interrupt; failed reads |
| Modbus RTU slave (`app/modbus_slave_task.c`, `app/register_access.c`) | register image, command status | refresh, write events, restart, reconfigure (not supported in the code: its rebuild function is never called) | the image is refreshed while the master writes it |
| Modbus RTU master (`app/modbus_master_task.c`) | configuration copy, state and readings of the slots | cycle, reconfigure | request flag against configuration read; start of the stack that breaks off |
| Modbus TCP (`app/modbus_tcp_task.c`) | commanded values, table of clients | accept, serve, save, restore at boot | RAM and NVS of a command, frames in pieces, slots that come and go during a pass |
| MQTT (`app/mqtt_manager.c`) | client, connected flag, apply queue, report flags | apply, publish, relay and OTA commands | events of old and new client, queue of one |
| network (`app/network_manager.c`, `wifi_manager.c`, `ethernet_driver.c`) | active interface, STA and AP flags | failover, open and close the portal | late events, AP and STA exclude one another |
| time source (`app/time_source.c`, `components/ds1307`) | clock and quality, epoch floor, synchronisation | start, set, synchronise, store the floor, flush | order of sources, starts, two setters |
| SD card (`components/sd_card`) | mounted, log files | monitor, append, rotate | removal or power cut between any two calls |
| certificate store and web portal (`app/cert_store.c`, `app/web_portal.c`) | files, session, restart timer | start, stop, login, upload, delete, save, restart, factory reset | an upload in pieces against power, restart and reset |
| panel (`app/home_screen.c`, `components/lcd_menu`, `hmi_bsp`) | keys, screen, draft of the settings, copies of its own, buzzer | navigate, edit, confirm, tick | one task with loops within handlers; keys held across screens; a copy written back after minutes |
| configuration apply (`app/config_apply.c`) | none | hand a changed group to its module | each module applies in its own time |
| console, status registry, bus helpers | see `PROJECT.json` | commands | they call the modules above from their own tasks |

How they interact. Portal, menu, console, Modbus and MQTT all edit the configuration by
`config_manager_get()`, change, `config_manager_update()`, then `config_manager_save()` and
`config_apply()`. The configuration portal and an OTA download *pause* metering, telemetry and the
Modbus master (`network_manager_is_config_mode() || ota_manager_is_downloading()`): the meter then only
drains its registers. A controlled restart flushes the energy counters first, except for the one of an
installed update. The energy task runs the alarm manager once per poll. The update commits itself
only when the status registry says that the metering chip is READY.

What makes each component correct, in one sentence:

- energy: a reading once stored is never lost to a power cut, never replaced by an older one, and
  everything metered is stored in the end;
- configuration: what was saved is what the next boot loads, a save stores the copy it was asked to
  store, field by field, and never takes an edit from RAM;
- update: one update at a time, the device always has a committed image to fall back to, a healthy new
  image is committed, every request ends in a visible way, and metering pauses while an image streams;
- network: the address bit of the station tells the truth, a device without a cable gets through to
  its Wi-Fi network, a portal nobody visits closes, and what pauses for it resumes;
- MQTT: the connected flag is that of the client in place, the client follows the saved configuration
  though requests are dropped, and what the inputs and the update come to reaches the broker;
- alarm: a verdict of the chip counts only when its threshold is the one asked for, latches after
  its window, is one incident in the log from beginning to end, and the relay follows the latch;
- relays and inputs: an idle expander task has reported the inputs as they are, and the reset of the
  Ethernet chip is neither cut short nor begun by a relay;
- Modbus: a command recorded as done has done what was written and no more; one that came by TCP
  outlives its connection and a restart; the master polls what is configured and shows a device its own readings;
- time: the stored floor is not ahead of the clock, and a clock that is not trusted goes on asking;
- SD card: whatever is cut, generations stay in order and files begin with their header;
- certificates: a slot holds one whole file that was uploaded for it, or none;
- panel: a setting changes no other, what it shows and sounds by is what is configured, nothing
  irreversible follows from one press, and an alarm is not silent for longer than its pause.

The hazards behind these, each with its line, are listed in `PROJECT.json`.

## 2. The modules

| Module | What it is |
|---|---|
| `DurableCell` | abstract: one durable cell, replaced as a whole, what a boot finds |
| `EnergyPersist` | the energy counters, their two slots, every caller of `energy_accum_save()` |
| `FieldCells` | abstract: one durable cell per configuration field |
| `ConfigStore` | RAM, legacy blobs, snapshot, shadow; edit, save, reset, boot |
| `TrialUpdate` | abstract: a committed image, an image on trial, a spare |
| `OtaManager` | requests, worker, slots, bootloader, probation |
| `AlarmManager` | apply, service, request, reset, relay |
| `Network` | cable, radio and their events, failover, access point and portal, applied credentials |
| `MqttManager` | apply queue, client and its events, relay and update commands, the passes of the publish loop |
| `Relays` | the port expander: latch, relays, reset line, inputs and their interrupt |
| `ModbusSlave` | register image, events of the controller, refresh, commands |
| `ModbusTcp` | clients, frames, commanded values in RAM and NVS |
| `ModbusMaster` | configuration taken over, the cycle over the slots, their state and readings |
| `TimeSource` | start, synchronisation, setting by hand, the floor |
| `SdLog` | card, monitor, two appending tasks, rotation |
| `WebPortal` | server, session, upload, restart, factory reset, the files of the certificate store |
| `Panel` | the keys, the menu with its modal screens, drafts of the settings |
| `PanelSound` | the alarm beep and the key click |
| `MCField` | instance of `ModbusTcp`, `Relays`, `WebPortal`, `ModbusSlave`, `ModbusMaster`, `TimeSource`, `SdLog` |
| `MCConfigStore` | instance of `ConfigStore`, `Panel`, `PanelSound` |
| other `MC*` | constants for TLC |
| `EnergyPersist_proofs`, `OtaManager_proofs`, `AlarmManager_proofs`, `Network_proofs`, `MqttManager_proofs` | TLAPS proofs about one module each |
| `Modbus_proofs` | proofs about the three Modbus modules |
| `Field_proofs` | proofs about `Relays`, `WebPortal`, `TimeSource`, `SdLog`, and about `MCField` as a whole |
| `ConfigStore_proofs` | proofs about `ConfigStore`, `Panel`, `PanelSound`, and about `MCConfigStore` as a whole |

`MCField` and `MCConfigStore` hold several parts that share no state in the model. A variable of the
instance that never changes (`which`, `part`) says which one runs in a behaviour; the others stand still in one state. The
parts are checked as if in runs of their own, with their states added and not multiplied. `PartsOfTheField` and
`PartsOfTheConfiguration` prove that such an instance is a behaviour of every part's own specification.

Each specification has one action per step that other tasks can observe: what runs inside one locked
section, or between two accesses to shared state, is one action; what is outside a lock is split at
every access. `PROJECT.json` maps each definition to its lines.

Next to some definitions stands a broken form of it, named after it (`SpawnUnguarded` beside
`Spawn`): the definition with a plausible bug. No specification uses it. Put in place of the
definition it stands beside, it makes TLC refute one property: each property has such a form.

**EnergyPersist.** A save is `Snapshot` (counters copied under the mutex), `TakeSeq` (number chosen,
no lock), `Write` or `WriteFails`, `Note` (bookkeeping). `Boot` is `energy_accum_load()` and what the
energy task does with it. The four accumulators are one counter `wh`; `epoch` counts resets and tells
old readings from new ones; `twoCopies` is history. `FailKinds` says what a failed NVS write may leave
behind: the old blob or, as the NVS error `REMOVE_FAILED` has it, the new one. `Overlap` bounds the
scenario: `FALSE` lets one task at a time into a save. The code has no such guard; the bound
separates what the two-slot scheme gives from what the missing lock takes away.

**ConfigStore.** One field per legacy domain (`sys`, `net`, `ext`) and one, `own`, that only the
snapshot has: the fields of a domain are merged separately but alike, against one shadow, and pushed
in one blob. The save follows the code from the copy of RAM through each domain's read, compare and
push to the snapshot, the assignment to RAM, and the shadow. `LegacyMayFail` and `EraseMayFail` are
written down and switched off in all instances: the code logs such a failure and goes on, and none
of the properties is claimed for it.

**OtaManager.** A caller and the worker made for it share one `pc`: a caller blocks for nothing once
the worker exists, and `s_busy` admits no other. The steps of the worker are the points where it
changes `s_state`, the flash or `s_busy`. The boot loader and `esp_ota_*` are modelled from what the
code relies on, with rollback enabled: a new image boots on probation, a second boot of it falls back.
Versions are numbers; percentages, URLs and release data decide nothing and are left out. The failure
of `ota_manager_mark_valid()` at boot is covered by `InitTimerNotStarted`.

**AlarmManager.** One bit of each kind stands for its phases, one relay for both; configurations are
version numbers whose contents (`Contents`) say what is enabled, how long the window is and whether
the relay has the alarm role. `ApplyBegin` leaves open whether the over-current retry is due
(`s_oc_retry_at`). The millisecond clock wraps at `Period`, so that 0 (the code's "not running") and
the wrap happen often. A write of the relay goes through the latch of the expander (`WriteRelay`): the bit stays there
when the transfer fails, and the next write of the other output carries it out (`OtherPin`). SD write failures and
engineering mode are left out.

**Network.** Three kinds of task share `s_sta_enabled`, `s_ap_active` and the address bit with no lock:
the network task polls, the event task handles what the radio has put into the queue `events`, and
operators open and close the portal and apply credentials. `pc` says where each stands. A poll is one
action per branch, with the portal timer at its end, split where it calls the Wi-Fi driver to connect
(`EnableStation`, `RequestStation`), because a portal opened there is what the comment on "torn down
externally" is about. Opening is `OpenPortal` (station down, unless the access point is up), `RaiseAp`,
`AnnouncePortal` (web server, then `ap_active`), closing `StopWeb`, `StopAp`, `WithdrawPortal`; each call
of the driver may fail. The radio is what the code relies on: a drop is reported like a loss, connecting
while connected changes nothing, association and losses come when they like. That a late Ethernet address
never arrives after its link is down is assumed of the platform. `DropStation` takes flag, bit and radio
at once. Time is counted in polls.

**MqttManager.** The manager task is one `pc` from the queue through the rebuild of the client to the end of
a pass, split where the task of the client, the expander's task, an operator or the update worker may
step in. `stage` is its two loops with the first client between them. The handler runs in the task of
the client: `news` is the event under way, `HandleConnected` sets the flag and `Announce` the report flag;
`RelayCommand` reads the inputs and `EchoIo` publishes them. Stopping a client waits for that task
(`StopDone`), which is what the code relies on. Of the configuration only its age is kept (`applied`), of
an io message whether it shows the inputs as they are (`ioTold`), so nothing needs a bound. A line that cannot be read is
published as false, so that any message may be wrong (`Lines`), and one that was may come right of itself. Whether a pass
stands back (portal, download) and whether the period is over are free choices, except that the first
pass of a client publishes. A message of QoS 1 is taken as told once the client has it. Left out:
telemetry and heartbeat, topics and TLS files but for their failure (`StartFails`), allocation failures,
and the nudge at a change of interface, which only ends a wait.

**Relays.** The expander has no registers: all pins go out at once from a latch in RAM, and the interrupt
line stays low while the inputs differ from what they were at the last access of any kind (`seen`). The
lazy start is modelled call by call (`Create` to `StartTask`), then the expander task (`TakeInterrupt`,
`ReadIn0`, `ReadIn1`) against anybody who reads (`PollInputs`) or writes. A transfer that fails leaves its
bit in the latch, so a later write may still carry it out. One relay stands for two.

**ModbusSlave.** The controller of `esp-modbus` writes a value into the image and then queues an event;
`todo` is what the owner task has still to do of the event or refresh at hand, one entry per call. An event that
finds its queue full is lost (`SendEvent` of the controller waits for nothing): the image has been written and
nobody is told,
which `spoiled` remembers as "lost". Items
stand for registers treated alike: wiring mode (and line frequency), demand window, two coils, reset and
restart. FC 15 and FC 16 are requests of several items.

**ModbusTcp.** A pass of the task is what the code makes of it: `select()`, new connection, then the slots
in turn, each with several frames or part of one, each changed command saved item by item before the
answer. `SaveItem` may fail and reports to nobody, as in the code; at boot `ReadBack` may find NVS closed or any of the
items unreadable, which are then zero. A command that repeats the value in RAM saves nothing (`Repeat`). The
test for a full buffer is left out:
no frame the length field admits is longer than the buffer. What reads a command is the rest of the plant:
`modbus_tcp_get_control()` has no caller in this repository.

**ModbusMaster.** A slot is unused, off or holds a device, which stands for its type and address; of the
readings the device they came from is kept. Taking over is `Notice`, `LoadConfig`, `TakeOver`, `StartStack`,
with the failures
the code knows; a failed allocation falls back to the legacy settings (`fellBack`). Portal and download both
pause the cycle,
and only the portal changes what `modbus_master_get_slot_status()` says.

**TimeSource.** Service, setting by hand and flush are three tasks that run the same steps: test the
quality, set the clock, mark it, store the floor. Times are small numbers, 0 being before
`TIME_SOURCE_EPOCH_MIN`. When something is due is left open. The SNTP client is a fourth party:
`NetworkAnswers` steps the clock
whether the answer is taken (`TakeAnswer`), too old (`RefuseAnswer`) or comes between the service's test and
its stop of the
client (`TimeOut`, `StopSync`). A start may be unable to read the floor.

**SdLog.** A file is its lines: header, numbered rows, and what an interrupted write left. Rotation is a removal
and three moves, of which each may fail, find no file or be the last before the card or the power goes. What
`append_line()` reports
and what is then in the file are separate (`Appended`): it does not ask whether `fclose()` worked.

**WebPortal.** The server runs its handlers one after another, so a request is one step, except an upload
(`Upload`, `Open`, `Fill`, `Unlink`, `Rename`), which power, restart timer and the factory reset of another
task may come between. Of the saved form the TLS mode is kept, which alone looks at the files.

**Panel.** `at` is the loop the task is in, `next` the one behind the wait for the keys to be released.
Keys are levels, a press is a difference of two samples, and a sample may fail. The menu tree is there
with all its rows (the row of the line frequency saves also when the meter left the configuration as it was);
rows of a screen that share a callback are one. Two fields stand for the settings: one the panel keeps
a copy of and one it does not. Others edit the same settings meanwhile (`OtherUpdate`, `OtherApply`). What is drawn and
lit is left out. **PanelSound** is the alarm tick and the click, called from the loops that call them.

## 3. What is checked

`tlc -config X.cfg M`. Runs that pass:

| Run | Instance | Shows |
|---|---|---|
| `EnergySerial` | 2 tasks (meter, panel), numbers modulo 4, threshold 2, 2 units of energy, 1 reset, failed writes, power cuts | the two slots are one atomic cell (`AtomicCell`, a refinement of `DurableCell`); some copy survives; nothing stored regresses; a tick that does not save leaves less than a threshold at risk; everything is stored in the end |
| `ConfigSerial` | store: 2 tasks, 2 values, failing snapshots; panel: 1 edit, 1 write of others, 1 failed read; sound: 1 tick on, 4 off, 1 failed write | between operations shadow, blobs and boot agree; a save or a retry of it stores what it was asked to; one cell per field (`FieldByField`, a refinement of `FieldCells`); the panel keeps what others wrote, shows what is configured, asks before it acts; the beep returns |
| `Ota` | 2 callers, running version 2 with an older and a newer one, no memory, no timer | one worker; the probation flag tells the truth; one committed image and one on trial (`ImageOnTrial`, a refinement of `TrialUpdate`); requests end; a healthy image commits |
| `Alarm` | one voltage and one over-current verdict, 2 versions of which the second is the first to have the over-current alarm, clock modulo 4 | thresholds are judged only when they are the requested ones unless a request comes during an apply; latching in the window; incidents; relay |
| `Network` | one operator, down time of one poll, idle time of one, 2 events on their way | the address bit follows the radio; without a cable the station carries the traffic in the end; an idle portal closes |
| `Mqtt` | one operator who saves again and again, two states of the update | the connected flag is that of the client; between passes the last io message is right or its edge flag is up; the client follows the saved configuration; the last state of the update reaches the broker |
| `Field` | the seven parts of `MCField`, bounds below | inputs are reported and the reset pulse is whole; a command of the master is applied as written and leaves the other relay alone; a TCP command outlives connection and restart; the master follows the configuration; the floor stays behind the clock; the logs read in order; certificates are whole |

Runs that must fail, each about a sentence of the repository that the code does not keep:

| Run | Refutes | What happens |
|---|---|---|
| `EnergyResetRace` | `ResetNotUndone` | a save that copied its reading before a reset is written after it, with the same or a later number: the reset is undone |
| `EnergyMeterInitFails` | `NeverBackToZero` | the chip is silent at a boot, which loads nothing and starts its numbers anew; two saves within that boot (a flush before a restart that does not come, and another) put zero into both slots |
| `AlarmRequestLost` | `StaleLimitsMasked` | a request during an apply is cleared by the apply that did not serve it |
| `ModbusRange` | `RangeApplied` | one FC 16 over wiring mode and demand window: applying the first refreshes the image from the meter, the second applies the old value, and success is recorded |
| `NetworkPauseStuck` | `PauseEnds` | the portal is asked for while the idle timer closes it: config mode stays on with no access point, and metering, Modbus master and telemetry stay paused until somebody opens and closes the portal |

Bounds and why they are enough. *Sequence numbers* modulo 4 are the least width with an older, an
equal and a newer neighbour; the proofs cover every even width. *Two tasks* are enough for every race
found, which is between two; the proofs take any number. *Energy* of 2 with a threshold of 2 has
readings below, at and above it, and the backstop. *Two values* of a field distinguish old and new
(the model never compares two edits). *Two alarm versions* differ in everything; a third would only
repeat the step. *Period 4* is the least the assumption of the module allows; a window of 1 reaches
the wrap in every phase. *Two events* on their way are what a drop on top of a fresh association makes;
the proofs of the address bit take any number. *Timers of one poll* have a first, a running and a due
poll; in the code the idle timer runs for a minute, so that the overlap of `NetworkPauseStuck` is with
a portal that is asked for again at its end. *One operator* of `Mqtt` is enough to find the queue
taken by its own earlier request; *two states* of the update are one that is passed through and one it ends in.

In `Field`: *two clients* with *two frames* are a slot served after another was closed or taken anew in the same
pass; *two commands* of the RTU master with an event queue of *one* meet in the queue, or the second finds it
full; *two* restarts of Modbus TCP are one that cannot read a command
and one that can, or that finds zero stored over it; *two slots* and an
offline threshold of *two* give a device that fails once and one that goes offline; *two changes* are one
seen while the other is taken over; times up to *two* give a chip behind, at and ahead of the floor, over
*one* restart and *two* settings; *five rows* at *two* lines to a file push the first row out of the third
generation; *two slots* and *two editions* of certificates are what tells a replaced file and a foreign
one; *one* failure, loss of power or removal each, since the properties are about what one leaves behind
at every point. In `ConfigSerial`, *one* edit of the panel with *one* of another editor is the lost
update; 4 ticks of silence to 1 of sound is the ratio of the code (800 and 200 ms).
`MissedPoll` is bounded so that a gap never lasts a full period of the clock:
in the code that is 49 days of an active bit with no poll.

Each run checks deadlock. Of the type invariants the runs check those of the parts in `Field` and
`ConfigSerial`; all of them
are proved. Histories (`epoch`, `twoCopies`, `asked`, `failed`, `age`, `polls`, `late`,
`loose`, `crossed`, `excused`, `stale`, `commanded`, `unsaved`, `unread`, `lost`, `bare`, `spoiled`, `moved`,
`fellBack`, `unsure`, `silent`, `missed`, `since`, `blind`, `silence`) appear in no guard but bounds.

Fairness. Tasks that can run do run (weak fairness). `Service` needs strong fairness because the bound
`Overlap = FALSE` closes its guard again and again where the task would not wait. `Write` needs it
because NVS does not refuse every write for ever. Workers of an update end, if only by the HTTP
timeouts (`CONFIG_APP_OTA_HTTP_TIMEOUT_MS`); the periodic timer ticks. Nothing is assumed of operators,
power, the network or the metering chip: `HealthyImageCommits` asks for the chip to stay ready, and
`EnergyReachesFlash` excuses a paused device. The alarm manager has no liveness property: whether a
threshold is ever written depends on the chip and the grid alone. In `Network` tasks go on with what they
have begun; the network task needs strong fairness only because the bound on the events may close its
guard; the driver does not refuse for ever to take the access point down (`StopAp`). `FailsOver` asks for
what it takes: no cable, credentials, no portal and idle operators from some time on, and a network
that answers and is not lost again. In `Mqtt` the manager, the handler and an operator who has saved go on;
the stop of a client comes in between two of its events in the end (`StopDone`, strong), and a client that
is online has an address under it, which opens the boot gate. Nothing is assumed of broker, inputs and
update: `OtaIsTold` asks for both to rest.

Two properties of `MqttManager` name exceptions, and TLC refutes them without them. `IoIsTold` excuses, until the
manager's next io message, three wrong ones: with a line that could not be read, after an edge left to the
period by a pass that stood
back, and an answer to a relay command that was under way while the manager published, which may put older
inputs over newer ones. An edge that nothing of this kind meets is told. `OtaIsTold` excuses a report that
overtakes its sample
(`publish_ota_state()` reads the state anew): a state that comes back before the next pass then looks
reported and is not.

So do other properties of the parts:

- `InputsReported` excuses a task whose last reading failed (`missed`): `io_expander_task` goes back to
  sleep without a retry, and the change is reported with the next edge or not at all.
- `CommandOutlives` excuses an item whose save failed, or whose command repeated the value in RAM while NVS held another
  (`unsaved`): the retry of a client saves nothing. It excuses what a boot could not read (`unread`), and
  what a later save then overwrites with zero or a boot finds unsaved (`lost`), until the next command for the item.
- `AppliedAsWritten` excuses a periodic refresh between the write of the master and its event (`spoiled`),
  the refresh within a range of registers, which is `ModbusRange`, and a write whose event found the queue full
  while an older command for the same item was at hand: that one is recorded, and may have applied either value.
- `StaleLimitsMaskedUnlessLate` excuses a request during an apply, which is `AlarmRequestLost`, and an
  over-current alarm that an apply for another reason took over from an edit before it was requested
  (`cached` ahead of `asked`).
- `OtherRelayStays` excuses a relay switched by others since the last refresh (`moved`).
- `MasterFollowsConfig` excuses a take-over that found no memory (`fellBack`).
- `FloorAndTrust` excuses a failed write of the floor, two writers at once, an answer of the network that steps the
  clock and is then dropped or refused, and a start that cannot read the floor (`unsure`), each until one task
  alone has written the floor again; and a start that reads a chip before the least epoch with no floor stored (`silent`).
- `RelayFollowsLatch` excuses a bit in the latch that is the operator's or that of a failed write (`loose`),
  and for its second half
  a Reset Latch that fell into the steps of driving (`crossed`). Its first half does not: whatever overlaps, a
  relay that is ON is one the next Reset Latch switches off.
- `LogReadsInOrder` excuses the first line of a file whose header was reported written and is not there (`bare`).
- `KeepsOthersWork` excuses what was written after the panel had read the copy it writes back (`since`): that is
  lost. It bounds the loss on the side of the panel only.
- `OnePressOneDecision` excuses a failed read of the keys (`blind`), which some loops take for "released".

Known limits of the code, met while modelling and written down so that nobody takes the runs to deny them:

- Energy: after a failed write that left the new blob after all, `s_persist_seq` has not advanced: the next save goes to
  that very slot, and power lost during it brings back the reading before (`FailKinds` with `"written"`, which TLC refutes
  `AtomicCell` with; the run has it off). Some copy still survives, which `CopySurvives` covers.
- Configuration: a save publishes the copy it began with over an edit made meanwhile
  (`app/config_manager.c:1303`), and a power cut between the erases of a factory reset lets the next save take a
  missing blob for an edit and store a factory value nobody asked for (`components/config_store/config_store.c:370`).
  `Overlap` and `ResetMayBeCut` switch both on, `EraseMayFail` an erase that fails with the same
  effect; the run has them off. A factory reset reloads RAM and
  applies nothing.
- Update: its restart flushes nothing (`app/ota_manager.c:409`); a failed `xTaskCreate` gives `s_busy`
  back before it reports (652).
- Alarm: the retry of the over-current threshold applies whatever the configuration is by then
  (`app/alarm_manager.c:140`). A drive of the relay that fails leaves its bit in the latch
  (`components/pcf8574/pcf8574.c:196`): the next write of any output switches the relay ON with `s_out_driven`
  FALSE, and Reset
  Latch leaves it ON. A release that fails leaves it ON with the flag cleared, until any output is written.
- MQTT: `publish_io()` takes an input it cannot read for false and publishes that retained (`app/mqtt_manager.c:1023`).
- Modbus TCP: a boot that cannot read the commands publishes zero (`app/modbus_tcp_task.c:126`), and the next
  save stores the
  zeros over what NVS still held; a repeated command is not saved though NVS differs (273).
- Time: with no floor and a chip before the least epoch, a start asks for no synchronisation; the quality
  order is tested before the lock (412); SNTP steps the clock itself, before anything counts the jump, also with an
  answer that `time_source_set()` refuses (401) or that comes while the client is being stopped (248): the
  clock then reads what nobody
  marked, and its quality stays what it was.
- RTU master: a stack whose start broke off is never torn down; a device is shown OFF before it was polled once
  and the module INIT for ever when no slot is enabled.
- SD card: a card pulled and pushed back within the debounce stays "mounted" and cannot be used; a torn
  header is never written again, nor one that `fclose()` lost after `append_line()` reported it
  (`components/sd_card/sd_card.c:189`):
  the row then comes first; a rotation that fails in the middle drops the oldest generation early.
- Panel: "Back" in the root of the menu does nothing; `s_mqtt_enabled` is not refreshed by an apply of the MQTT
  group (`app/home_screen.c:3459`); two information screens do not tick the alarm; a save that fails leaves its
  change in RAM; the buzzer stays on when the alarm clears, or sound is switched off, during a beep.
- Outputs: of two tasks that switch one relay the later in the device may be the earlier in the cache.
- Certificates: power that goes between `unlink` and `rename`, or a `rename` that fails, leaves no file; a
  factory reset at the console during an upload leaves the uploaded one behind. When
  `schedule_reboot()` finds no timer (`app/web_portal.c:64`) the page announces a restart that does not come.

## 4. What is proved

Every type invariant, and every invariant, action property and refinement that a passing run checks, is a theorem
of the specification. They hold for any tasks, values, sizes and bounds that satisfy the named assumptions
of the modules (`SeqAssumption`: an even number of sequence values, at least 4; `ClockAssumption`: a clock of at least 4;
the others say that a bound is a number and a set of names has the names the module needs). Where a theorem needs more,
it says so: that is `Serial`, below. Few of the properties are inductive. What makes them so is this.

`EnergyPersist_proofs`:

- `TypeCorrect`: in every instance.
- `CopySurvives` (`SomeCopySurvives`), for a chip that answers at boot and *any* number of tasks saving
  at once. The invariant is that a blob lies in the slot of its number (`InOwnSlot`) and that
  the slot the current number points to holds a valid blob no saver is about to replace
  (`Anchored`): whoever writes, writes the other slot. The race of `EnergyResetRace` may lose a reset but
  never both copies.
- The rest needs `Serial`: saves do not overlap, a failed write keeps the old blob and the chip answers.
  `SerialAtomicCell` (`AtomicCell`): the invariant (`CellInv`) is that one task saves, that the newest slot is the one
  `s_persist_seq` names (`Holds`), and between write and bookkeeping the one after it (`InStep`). Every step
  then is a step of `DurableCell` or stutters. `SerialNeverRegresses` (`DurableNeverRegresses`) adds the order of
  stored, staged and live readings (`InOrder`). `LossIsBounded` (`QuietTickLoss`) adds the books (`BooksInv`):
  between saves
  `s_persist_saved_total_wh` is exactly what NVS holds, so that the test against the threshold measures the loss.
- `SerialResetStays` and `SerialNeverZero` are the other side of two runs that fail: `ResetNotUndone` and
  `NeverBackToZero` hold under `Serial`, so it is the overlap, and the silent chip, that breaks them.

`OtaManager_proofs`:

- `OtaTypeCorrect`, `WorkerAlone` (`OneWorker`), `ProbationTold` (`ProbationKnown`) and
  `SlotsImplementTrial` (`ImageOnTrial`). Together with three more facts they are inductive (`OtaInv`).
  `SlotInv`: the running image is committed, or on
  probation beside a committed one; otadata selects another slot only between an installation and the
  restart of the worker that made it. `WorkerInv`: a worker that writes the spare slot has a committed
  image behind it, and the image it has read is of another version than the one that runs. `DownInv`: nobody
  asks before `ota_manager_init()` has run. From `SlotInv` follows that every restart finds something
  to boot (`AlwaysBootable`, `RollbackBootable`). For the refinement each step of the slots is one of
  `TrialUpdate`: `EraseSpare` spoils the spare, `Install` stages, a restart tries out or gives up, a
  commit commits, `Rollback` goes back or gives up; everything else leaves the flash alone.

`ConfigStore_proofs`:

- `StoreTypeCorrect`, in every instance. Then, under its own `Serial` (one operation at a time, no legacy write
  and no erase
  fails, the power stays during a reset; a snapshot may fail and the power go at any other point):
  `ShadowAgreement` (`ShadowAgrees`), `SaveIsStored` (`RetryIsStored`), `StoreImplementsCells`
  (`FieldByField`). The invariant
  (`StoreInv`) follows the merge domain by domain (`Done`): the copy of a save holds what it was asked for in the
  domains ahead, and what the blob says in those behind it (`SaveOK`), but for values left over by a save that
  failed (`LeftOver`); and without a reset under way a getter and a boot agree about every domain, and its blob
  has left the shadow only through the save under way or the one that failed (`DomainOK`). For the refinement
  each push of a domain and each snapshot is a `Commit` of `FieldCells`, the move of the shadow the `End` of the save, an
  erase an `Erase`, a boot after a power cut finds what was stored; merging leaves the cells alone.
- `PanelTypeCorrect`, `MirrorsCorrect` (`MirrorsFollowConfig`), `DecisionsAreTaken` (`OnePressOneDecision`),
  `OthersWorkIsKept`
  (`KeepsOthersWork`). The invariant (`PanelInv`) is a conjunction of parts with a lemma each: which screen may
  come behind which loop (`PlaceInv`), which row it was opened from (`RowInv`), that the stack of menus is a path of the
  tree (`MenuInv`), that draft and view are the configuration but for their own field and what others wrote
  since (`ShareInv`), and that a question is put with OK released (`AnswerInv`). Without `RowInv` a commit could come with
  the draft of another row.
- `SoundTypeCorrect`, `BeepComesBack` (`BeepReturns`), for any length of sound and silence: the silence is
  bounded by the phase
  of the cycle (`SilenceInv`).

`AlarmManager_proofs`:

- `AlarmTypeCorrect`.
- `LimitsMasked` (`StaleLimitsMaskedUnlessLate`). `MaskInv` says what `alarm_manager_apply_ic()` knows at each point:
  from its copy on, that the copy is no older than the last request; once it has written, that the chip holds the
  copy; and that an anchor is set for nothing older. Trying to prove the property without the exception
  about `cached` showed the edit taken over by the retry (`app/alarm_manager.c:140`), see "Known limits".
- `RelayIsTheLatch` (`RelayFollowsLatch`): the flag `s_out_driven`, the bit in the expander's latch and the pin
  are tied together
  through the two steps of driving and of releasing, unless the bit is loose (`RelayInv`).
- `IncidentsStayOpen` (`OpenIncidents`).
- `WindowIsKept` (`LatchWindow`), over the wrap of the clock for every period: the elapsed time by the
  subtraction of the code
  is never more than the polls' own count and at most two behind it, with the one exception of a run that began when the
  clock read 0, which the next poll begins anew (`WindowInv`).

`Network_proofs`:

- `NetTypeCorrect`, `BitIsSet` (`BitTellsTheTruth`) and `BitIsCleared` (`BitIsNotStale`). The invariant looks
  ahead (`RadioHeard`): the last event on its way, or the bit when there is none, says exactly whether
  the station has an address. A drop appends its own "lost", so nothing earlier matters (`Drops`).

`MqttManager_proofs`:

- `MqttTypeCorrect`, `ConnectedCorrect` (`ConnectedIsTrue`): `LinkInv` says which event may be under way for
  which client, and
  that the flag follows it except while the client is being stopped. `InputsAreTold` (`IoIsTold`): when the
  last message is
  wrong, the edge flag, the pass or the excuse still owes a right one (`ToldInv`, `Owed`), and so does an
  answer under way unless it has been noted as stale.

`Modbus_proofs`:

- `TcpTypeCorrect`, `CommandsOutlive` (`CommandOutlives`). The invariant (`SaveInv`) is that control and image
  are the same, and both the last command except for
  what a boot did not read; that everything is stored except what is due in the save under way, unsaved or lost;
  and that what was not read is still stored until a save goes over it.
- `MasterTypeCorrect`, `MasterFollows` (`MasterFollowsConfig`). `FollowInv`: unless a change is still to be
  noticed or could not be
  read, what is in force is what is saved, and on the way there what has been taken; a device shown as present has
  given its readings under the configuration in force.
- `SlaveTypeCorrect`, `OtherRelay` (`OtherRelayStays`), `RecordedIsApplied` (`AppliedAsWritten`), for any
  length of the queue. The
  owner's list is made of sound entries of which the record is the last (`TodoInv`); an image that differs from the pin is
  one that moved since the refresh (`MovedInv`); what was written last is in the image until it is applied, and then in
  force, unless something came over it (`WrittenInv`).

`Field_proofs`:

- `IoTypeCorrect`, `LineHeld` (`ResetIsWhole`). The invariant (`LineInv`) is about the latch and not the pins
  alone: while the
  pulse is held both have the line asserted, with none or a whole one both have it released, and after a
  failed transfer nothing is claimed. Whoever writes a relay transmits the latch.
- `ChangesReported` (`InputsReported`). The invariant (`SeenInv`) adds what the device has seen: an idle
  task with no interrupt pending knows the inputs *and* the device has seen them, so that the next
  change makes the line fall; between the two readings it has seen them when no interrupt is pending.
  Without the second half any access of another task would break the induction.
- `PortalTypeCorrect`, `CertificatesWhole` (`CertificateIsWhole`). The invariant (`CertInv`) is that what is about to be
  renamed is the whole upload, for the slot it is renamed to, whatever the restart timer or a reset does meanwhile.
- `TimeTypeCorrect`, `FloorStaysBehind` (`FloorAndTrust`). The floor may be ahead of the clock only while an
  answer of the network
  waits that will be taken over, or a task is on its way to store a new one (`FloorInv`); a task that has met
  no other since it began still
  works alone (`AloneInv`), so that what it stores is not ahead of what it set.
- `CardTypeCorrect`, `LogsStayInOrder` (`LogReadsInOrder`). `OrderInv` compares every generation with *all*
  that follow it, since
  a rotation that lost some of its moves leaves gaps, and knows that every file begins with its header or a torn one,
  or is known to be bare;
  `LockInv`: who is past the lock holds it, so that no card is mounted under a task between its test for an
  empty file and its row: whoever is at a row has seen the file's beginning there or was told that it had been written.

The instances: `PartsOfTheField` and `PartsOfTheConfiguration` (a behaviour of `MCField` or `MCConfigStore` is
one of each of its
parts), from which with the theorems above `FieldTypeCorrect` and `PartTypeCorrect` follow (`TypesOK`).

Model-checked only: the liveness properties (`EnergyReachesFlash`, `RequestsEnd`, `HealthyImageCommits`,
`FailsOver`, `PortalCloses`,
`FollowsConfig`, `OtaIsTold`), because the prover reasons neither about fairness nor about ENABLED; and the
counterexamples of the runs that fail. `AtomicCell` does not hold when a failed
write leaves the new blob ("Known limits"). Neither proved nor checked is what holds of the configuration when
saves overlap, a legacy write or an erase fails, or the power
goes during a reset.

## 5. What is not modelled

Measurement, calibration and demand arithmetic; validation and encoding of the configuration; HTTP,
JSON, TLS and HTML; what the panel draws and lights; calibration files on the card; NVS read failures and memory
failures of the configuration load; the migration of old formats; the live reconfiguration of the RTU slave,
which the code does not support. The components marked `not_modelled` in `PROJECT.json` are plumbing
around calls that are modelled where they land (console), have no state of their own (bus helpers) or are
placeholders. A component marked `partly` says in its note which of its operations are left.

## 6. Plan

1. `Pause`: the energy task, the portal and the download composed, with the restart of an update that
   flushes nothing. In `OtaManager` a failed `xTaskCreate` (`ReportNoMemory`) can show FAILED over the download
   of the next worker, and nothing pauses then: a property for this composition.
2. Abstract specifications: a durable command for `ModbusTcp`; a one-place mailbox for the apply requests
   of alarm, master and MQTT; a monotone clock with quality for `TimeSource`.
3. Proofs: what is left of the properties above is what their assumptions switch off: the energy counters
   with a silent chip and saves one at a time, up to the first boot that finds it silent, and the store when a legacy
   write fails, as far as anything holds then. Then the refinements of item 2.
4. The calibration files on the card, the other handlers of the web server, and the order in which
   `config_apply()` reaches the modules.

Bounds will be as here: two tasks, two values, counters as small as the property allows.
