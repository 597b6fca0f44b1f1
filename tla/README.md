# Formal models of the inverter firmware

This directory models the control software of an ESP32 inverter: TLA+ modules translated from the C source, TLC
configurations that check them on small instances, and proofs checked by TLAPS. Paths below are relative to the
repository root. `PROJECT.json` lists components, runs, mutants, hazards and theorems, and maps each definition to
the lines it stands for.

To check a run: `tlc -workers 2 -config MCFaultLog.cfg MCFaultLog`. To check proofs: `tlapm Panel_proofs.tla`.

## 1. The system

The firmware runs FreeRTOS on two cores. It samples battery voltage, current, power and temperature, protects the
inverter from them, switches the output relay on request of a push button or of an HTTP client, and reports through an LCD,
LEDs, a buzzer, a fault log and the network. There is no global lock: tasks share the structure `sys_state`, mostly
without a mutex, and exchange events through queues that drop what does not fit.

```
 ADC task --samples--> Protection --event--> central queue --dispatcher--> subscriber queues
    |                                             ^                        |      |      |
    | telemetry lost                              | system, button events  v      v      v
    v                                             |                    enforcer buzzer  LED, fault log, LCD ...
 emergency disable <------------------------------+------------------------+
    |
    v
 relay, inverter_state, output_enabled <-- power_on / shutdown_inverter <-- button task, HTTP server, menus
```

| Component | State | Operations | Interaction | What is hard | What makes it correct |
|---|---|---|---|---|---|
| Protection (`src/security/protection.c`) | thresholds, stage, last value and fault count of each quantity | sample, set thresholds, clear | called by the ADC task; posts to the central queue | a dropped SHUTDOWN is never posted again; limits change under a running stage; NaN | a FAULT is left only out of the hysteresis band and each one is accounted for |
| Central queue (`src/events/system_events.c`) | 24 events | post without waiting, receive | all tasks post, the dispatcher receives | overflow | order, no duplicates |
| Event dispatcher (`src/events/event_dispatcher.c`) | subscriber queues, preemption flag | route, send, preempt | to 11 subscribers, 5 of which have a consumer | others post between its drain and its send | critical first, flag always served |
| Protection enforcer (`src/events/protection_handler.c`) | its queue | act on WARN, DERATE, SHUTDOWN, RECOVERED | emergency disable, current limit, LCD | late against the button task | each SHUTDOWN it gets opens the relay |
| Power control (`src/app_runtime.c`, 3950-4380, 4845-5050) | inverter_state, active, output_enabled, relay, limit, flags | power_on, shutdown_inverter, emergency disable, diagnostic mode, recovery | button, HTTP, ADC task, enforcer | sleeps for seconds without a lock; saved states put back later | interlocks, relay and state agree |
| Telemetry health (`src/telemetry`, `src/adc/adc_manager.c`) | ready, shutdown latch | update, loss, return | ADC task | the latch of one loss must not hide the next | lost telemetry stops the output |
| Buzzer, LEDs (`src/utility`) | tone or pattern in progress, alarm suppression | receive, play, be preempted | subscriber queues and direct posts | a critical event during a pattern | each critical event is given |
| Fault log (`src/events/fault_log.c`) | ring, dirty flag, flash copy | add, read, clear, flush | tasks add, two tasks flush | the write happens outside the mutex; restart | a fault reaches the flash |
| Firmware update (`src/ota`, `src/app_services.c`) | partitions, pending marker, job | check, download, verify, stage, apply, roll back | OTA task, check task, button task | power loss, cancel, stale verification | an intact image to boot at any time |
| Startup (`src/main.c`) and self-test (`src/post`) | event bits, verdict | ordered initialisation, wait with timeout | ADC and display task, panel | failure bits against readiness, ten seconds; presses meanwhile | the verdict is exact, no output before it |
| Settings (`src/app_runtime.c`, 2013-3035, 5518-5700, 7380-7440) | table in memory and in flash, marker, checksum, editor | edit, apply, confirm, cancel, save, load | button task, deferred save | a save cut off between two writes; an emergency under an open edit | a saved table survives, a torn one is never trusted, an edit is saved or undone, but for the second keys some settings write |
| NVS manager (`src/storage`) | mutex, last error | open, close, erase | every persisting task | lock timeout | exclusive |
| PIN, factory reset (`src/security`) | attempts, lockout, flow state | verify, change, confirm | button task, HTTP | time-outs of flows | nothing is erased without its PIN or sequence |
| Buttons, menus (`src/button_controller.c`, `src/app_buttons.c`, `src/app_input.c`, `src/app_menu.c`) | gesture, menu, history, detail view, prompts | press, click, hold; enter, back | button task, menu timeout, workers of `src/app_services.c` | phases left behind by timeouts, trips and notices | a waking gesture does nothing else; an abandoned panel comes home |
| Display (`src/lcd*.c`) | screen, notice queue, row cache | show, post a notice, refresh, recover | every task, LCD task | many writers, a bus that fails | the glass catches up with the state |
| Task watchdog (`src/task_watchdog.c`) | registered tasks | register, feed | every task | a stall of one | feeds only if alive |
| Wi-Fi station (`src/wifi`, `src/app_services.c`) | driver, status flags, reconnect policy, controller, toggle worker | connect, disconnect, reconnect, toggle | driver events, supervisor, monitor, user | user and configuration requests against retries and queued events | a user's Disconnect holds until he connects again or a configuration is written, otherwise the station reconnects |
| Network services (`src/server`) | reports, servers, clients, lifecycle mutex, teardown flag | report, synchronise, start, stop, suspend, resume | Wi-Fi events, monitor, toggle and update workers | passes that overlap stops, waits that time out | the newest report is applied, a stop holds, nothing is orphaned |
| JSON API, cloud, provisioning (`src/server/json`, `src/cloud`, `src/wifi`) | none of their own | forward, report | the services above | | |
| Battery estimation (`src/battery`) | floating-point estimates | update | display only | numerics | |

Behaviour that tests hardly reach, at its line, is listed under `hazards`.

## 2. The plan

Each component has a module, an MC module that gives the constants, a configuration and a run. Abstract specifications
are stated where a component makes a promise to another: the latch of a protection stage, the channel of events. The
order was that of importance for the output:

1. `SystemEvents`, `ErrorFlags`, `Protection` with the abstract `FaultLatch`; then the event path behind it,
   `EventDispatcher` with the abstract `LossyChannel`, and the two consumers that give alarms, `Alarms`. (done)
2. `PowerControl`, the tasks that switch the output, composed with the telemetry of the ADC task and the enforcer. (done)
3. `FaultLog`, what survives a restart. (done)
4. `FirmwareUpdate`, from the manifest to the confirmed image, with the storage and the power failing. (done)
5. `Startup`, `Settings`, `WifiStation`, `NetworkServices`, `Display`, and the front panel: `PanelState`, `PanelPin`,
   `PanelWifi`, `PanelOta` and `Panel`, each of which extends the one before. (done)
6. Proofs: every safety property that a run checks, the two refinements included, and the type correctness of every module
   with a type invariant. (done)

No module uses a RECURSIVE operator, so that all can be proved about.

## 3. The modules and the code

Lengths of queues, numbers of entries and versions are constants; a name in a model is the name in the code wherever
TLA+ allows it. A task that may be overtaken has a program counter, and each of its steps is what it does between two
places where another task can come in: a delay, the end of a critical section, a write to flash, a call that waits.

**`SystemEvents`, `ErrorFlags`** are what several modules share: the central queue, which drops an event it has no room
for, and the bits of `error_flags`.

**`Protection`** is `protection.c` as `check_protections` drives it. `BeginPass` starts a pass of the ADC task,
`UpdateNext` is one `protection_update` (`UpdateFinite` classifies with hysteresis, `UpdateNonFinite` forces FAULT),
`SetThresholds` is a settings change that may come between two updates of a pass and may be refused. `PostOther` are the
other producers, `Dispatch` the consumer. `shutdownFate` records what became of the SHUTDOWN of each FAULT. The
four float quantities become integers with a separate `NonFinite`. **`FaultLatch`** says what the enforcement relies on: a
latch that trips on its threshold and is left only by a sample out of the hysteresis band.

**`PowerControl`** is the part of `app_runtime.c` that switches the relay, and the four tasks that call it. `Drive(t)` is
the path of `inverter_power_on` and `shutdown_inverter` in the button task or the HTTP server, with labels at its delays;
`Disable(g)` and `PublishFault(g)` are `inverter_emergency_disable` in the ADC task and the enforcer; `SampleReady`,
`SampleLost` and `PublishSample` are the cycle of the ADC task; `TakeShutdown` and `TakeRecovered` are the enforcer. The
rest are presses: long press, fault recovery, power-on, menus, detail views and diagnostics that save the inverter state and
put it back. `causes` records the three events after which relay and state may differ.

**`FaultLog`** is `fault_log.c`: additions under the mutex, and a flush in three steps (`copy`, `write`, `clean`) as the
code takes the mutex, releases it for the write and takes it again. A restart loses the RAM and reads the blob back.

**`EventDispatcher`** is `event_dispatcher.c` with its routing table: `Dispatch` takes an event and determines the set of
its subscribers, `Place` is the one order in which the code serves them and `Target` the next; `Send`, `Supersede`, `Drain`
and `SendToFront` are the steps of `event_dispatcher_send`, `SendDirect` are the tasks that bypass it. The queues do not
influence each other, so that a behaviour follows those in `watched`. **`Alarms`** composes it with the consumers of two
queues, `BuzzerTask` and the LED task, and **`LossyChannel`** is the abstract channel from a post to the enforcer.

**`FirmwareUpdate`** is the update, in `ota_service.c`, `ota_download.c`, `app_services.c` and the ENTER key of
`app_input.c`. State in flash (`slot`, `boot`, `otaState`, `marker`) survives `Restart`; everything else is `FreshRam`.
`Restart` is the bootloader with rollback enabled. Each task is a group of actions named after it: `Check...`
(`ota_manifest_check_task`), `Job...` (`ota_task`), `Preflight...` (`ota_pending_manifest_check_task`), and the button task
in `Keys` and `Button`. An image is its version; a slot under transfer holds `Partial`. The fields of the marker are written one by one, the flag
first (`JobFlags`, `JobStores`), so that a reset or a failed write leaves any mixture; the preflight believes the digest,
not the version. `Discard` is
`ota_pending_discard_partition` in one step where a reader of the marker calls it, and in its three steps (`...Deselects`,
`...Clears`, `...Erases`) where the preflight or the user discards an image. `MarkerOK` and `ReadMarker` are the two
outcomes of `ota_service_get_pending_version`, which discards what it finds stale.

**`Startup`** is `app_main`, stage by stage, with a label for each (`Core`, `Display`, ... `ReleasePanel`), the two tasks whose
readiness it waits for (`AdcBegins`, `AdcCycle`, `LcdBegins`), the self-test in its three parts, and a `Press` of the power
button at any time. `FanDriver` is the set of values of "`fan_controller_init` is called": nothing calls it today, so that
the code is the instance `{FALSE}`, in which the fan test always fails. The run takes BOOLEAN, as only then a start-up can
succeed and its end is exercised.

**`Settings`** is the settings table. Eight keys stand for all (what each stands for is said in the module), among them the
two that an editor changes besides its own, `TimeSet` and `OutFreq`: `Applied` writes them, and `LeftBy` says what an edit
that came to nothing leaves of them. `flash` holds
the value of every key, the marker and the checksum, which `Open`, `WriteKey`, `Written`, `StageMarker`, `WriteCrc`,
`WriteMarker`, `Commit` and `Verify` write one by one; `saver` is the task under `s_save_mutex`, which the panel and the
deferred save compete for. `BeginEdit`, `Adjust`, `Enter`, `DoubleClick`, `Cancel` and `Rollback` are the editor; `SetOutput` is a start or
stop that writes the output voltage into the open editor; `Boot` is `load_settings`.

**`WifiStation`** is the station: driver commands and the events they leave in the queue of the event loop (`Event`,
`Publish`, `Reported` are `event_handler` with its callbacks), the reconnect supervisor with the places where it was
cancelled or not when it last looked, the internet monitor, the controller with its mutex, the toggle worker, the start at
boot and the user. The policy has two kinds of writers: the controller's calls (`Policy`), which ask about the manual
disconnect under its mutex, and `Configure`, which does neither and comes from the HTTP handler (`UserConfigures`) or from
the choice of a network on the panel (`UserSelects`, `UserWritesBack`); `configured` remembers which kind wrote last. A
supervisor that is done is found by `Leave`; its handle is cleared later, by `Retire`. A saved network and the station mode
are taken for granted.

**`NetworkServices`** is `network_services.c` with its servers: two reporters, the synchronisation task `sync`, and the
workers of the radio switch (`worker`) and of an update (`ota`), which start and stop servers inside the lifecycle mutex
(`life`) and keep each other from starting by the teardown flag. `ended` and `quiet` belong to the specification: how the
last pass ended, and that a stop has returned and nothing was allowed since. A pass starts the redirector and then raises
its flag (`Dns`, `DnsMark`); a stop lowers the flag and then stops the redirector (`StopDns`, `StopRedirector`).

**`Display`** is the LCD: the notice queue of `lcd_flash_queue.c`, whose posters look and commit in two critical sections
(`Post`, `Commit`), the screens other tasks show, the timed ones among them, and the display task, whose pass takes a
`Snapshot` and acts on it later (`ClearNotice` ... `DrawScreen`). `Draw` writes the row cache before the transfer, which may
fail; `Recover` and `Refresh` are the two ways back. What a screen draws is which text it is, `<<screen, 0>>`.

**`Panel`** and the modules it extends are the panel: `PanelState` keeps what the handlers read, `PanelPin` is
`security.c`, `pin_entry.c`, `change_pin_flow.c` and `factory_reset.c`, `PanelWifi` and `PanelOta` are the dialogues of
`app_services.c`, and `Panel` is the button controller and the handlers of `app_input.c`. A handler tries one claim after
another and the first that holds decides: `PowerClaim`, `EnterClaim`, `MoveClaim`, `BackClaim` give that order. A handler is
one step. A `Tour` bounds a behaviour: which menus it opens and how often something happens in the background.

## 4. What the runs check

| Run | Question | Properties |
|---|---|---|
| `power_output` | Can any order of tasks close the relay of a locked inverter, or part relay and state? | `EnergisedOnlyIfReady`, `RelayFollowsState` |
| `power_reaction` | Does a SHUTDOWN, and each loss of telemetry, open the relay? | `ShutdownHonoured`, `LostTelemetryStopsOutput` |
| `protection` | Is FAULT a latch, and what becomes of its SHUTDOWN? | `FaultAccountedFor`, `LatchSpec`, `QueuedShutdownDispatched` |
| `fault_log` | Is the log in order, and does a fault reach flash? | `MostRecentFirst`, `CleanMeansSaved`, `FaultsPersisted` |
| `alarms` | Do critical events overtake the others and get their alarm? Does the enforcer get events in order? | `CriticalFirst`, `PreemptionServed`, `EnforcerChannel`, `AlarmGiven` |
| `update` | Is there an image to start after a power failure at any step, and is it never an older one? | `AlwaysBootable`, `OnlyNewerOrRollback` |
| `startup` | Does the start-up end, is its verdict exact, and can a press during it close the relay? | `VerdictExact`, `OutputOnlyAfterHealthyStart`, `StartupEnds` |
| `wifi` | Does the station reconnect unless the user said no, and do its flags follow the driver? | `StatusFollowsDriver`, `PolicyHolds`, `DisconnectHonoured`, `Reconnects`, `TypeOK` |
| `settings` | Does a saved table survive, is a torn one trusted, what does an edit leave behind that came to nothing? | `StoredSurvives`, `TrustedIsWhole`, `LimitFollowsSettings`, `EditAllOrNothing` |
| `network` | Is every report applied, does a stop hold, do the flags tell what is live? | `NewestApplied`, `StopHolds`, `NothingOrphaned`, `TypeOK` |
| `display` | Does the glass catch up after lost transfers, are urgent notices kept, what can cut a loading screen short? | `CacheTruthful`, `UrgentKept`, `LoadingCutShort`, `GlassCatchesUp` |
| `panel` | Does a waking gesture do nothing else, is nothing erased or installed unasked, does the panel come home? | `WakeSwallowed`, `ResetDeliberate`, `InstallAuthenticated`, `IdleGoesHome` |

All twelve pass. Where a property needs one, its exception is written into it: the three `causes` of `RelayFollowsState`, the lost SHUTDOWN of
`FaultAccountedFor`, the change under a flush of `CleanMeansSaved`, the supervisor past its check of `DisconnectHonoured` and
the configuration written since of that property and of `PolicyHolds`, the two second keys that `LeftBy` leaves in
`EditAllOrNothing`, and the three steps `LoadingCutShort` names. Section 8 says what stands behind them.

Bounds, and why they are enough:

- *Queues of two.* Order, overflow, preemption and loss need an event in front of another and no room behind; longer queues repeat
  that. `MaxBurst` 1: one foreign post between the drain and the send to the front, the most a queue of two has room for.
- *Protection.* One reading in every band on both sides for the battery, one normal and one at fault for a one-sided quantity;
  one pair of limits that is refused, one that moves every high limit under a running stage. `MaxFaultCount` 1 lets each
  quantity enter FAULT once for each way in.
- *Power.* `power_output` is the mock build, where alone the HTTP server may switch the output beside the button task, with a
  relay that may fail, one level of menu history and no mail to the enforcer; `power_reaction` is the production build with one
  event on its way to the enforcer.
- *Fault log.* A ring of two, four additions (it wraps twice), two tasks that add and the periodic flusher: three flushes overlap.
- *Update.* Three releases: the installed one, a staged one and one that overtakes it. The power may fail in every state and
  any write of the marker may fail.
- *Startup.* Two consumers that must exist; everything that can fail may fail.
- *Wi-Fi.* Two driver events may wait, which is what one stop leaves behind, and two things are asked for: enough to disconnect
  and reconnect, to switch off under a search, to turn the policy off and on again under a supervisor, and to write a
  configuration after a Disconnect.
- *Settings.* Two editor sessions, and two mishaps among failed writes, power losses, starts, stops (each of them, and the
  output voltage it sets) and emergencies: a save, and a second one that fails or is cut off, or one that is cut off and a
  boot on what is left.
- *Network.* Two changes of the link and two of whatever goes wrong or is switched; station, access point and the change between.
- *Display.* One writer beside the event receiver and the display task, one ordinary and one timed screen, two priorities, a
  queue of one, and three events in all: a notice on display, one waiting, and the one that evicts it.
- *Panel.* Thirteen tours, one for each family of menus and each way an update begins, with a history of two and two wrong PINs
  to a lockout. A gesture is spread out in time for one button per tour; the others come in one step.

## 5. Fairness

- `Protection`, `Alarms`, `PowerControl`: weak fairness of tasks that never wait for anything but a queue or a bounded delay:
  the protection pass, the dispatcher, the buzzer and the LED task, the ADC task and the enforcer. The dispatcher (priority
  10) runs above the tasks that post, which is what `MaxBurst` stands for: without it a queue could be refilled for ever
  between its drain and the send to its front.
- `Startup`: weak fairness of `app_main`, which waits for ten seconds at most. Nothing is assumed of the tasks it waits for.
- `WifiStation`: weak fairness of supervisor, worker and start at boot; strong fairness of the event loop and of the monitor,
  whose callbacks wait for the controller's mutex, as FreeRTOS hands a mutex to the task that waits for it; strong fairness of
  the network's answers: an attempt, or a request for a lease, that is made over and over succeeds once.
- `Display`: weak fairness of the display task, and strong fairness of its recovery and refresh, as the second or the ten
  seconds after which each is due pass whatever the display task does. Transfers fail finitely often.
- `Panel`: weak fairness only of the ends of what is under way, once the user has walked away: timeouts, workers that return,
  notices that expire. Each has a bound in the code.

`FaultLog`, `FirmwareUpdate`, `Settings` and `NetworkServices` state safety only and assume none. Nothing is assumed anywhere of
buttons, HTTP requests, producers of events, samples of any particular value, releases or the end of an LED pattern.

## 6. What is proved

Every `*_proofs` module extends the modules of the components it is about:

| Module | Proofs about |
|---|---|
| `Output_proofs` | `Protection`, `PowerControl` |
| `Alarms_proofs` | `EventDispatcher`, `LossyChannel`, `Alarms` |
| `Boot_proofs` | `FirmwareUpdate`, `Startup` |
| `Copies_proofs` | `FaultLog`, `Display`: two caches and what they are copies of |
| `Settings_proofs`, `WifiStation_proofs`, `NetworkServices_proofs` | the module of that name |
| `Panel_proofs` | `Panel` and the modules it extends |

Modules whose proofs share one have distinct names (`ProtectionInit`, `StartupNext`, `displayVars`, ...). The theorems hold for every value of the constants that the named
ASSUMEs allow; they are needed as they stand: limits of a quantity are valid ones (`ProtectionAssumption`), queue lengths and
capacities are positive, fewer direct posts than an alarm queue holds come into one critical send (`DispatcherAssumption`),
the event task is not one of the tasks that report faults (`FaultLogAssumption`), the defaults are values of their keys
(`DefaultAssumption`), the driver's queue holds the two events of a stop (`WifiAssumption`). Each inductive invariant was
checked by TLC before it was proved.

| Theorem | Says | Argument |
|---|---|---|
| `ProtectionTypeCorrect` | `[]ProtectionTypeOK` | inductive as it stands |
| `FaultsAccountedFor` | `[]FaultAccountedFor` | inductive with `ProtectionTypeOK`: whatever is posted keeps what waits in the queue (`PostKeepsPending`), a dispatch takes only its head (`TailKeepsPending`), and the report of a change of stage decides the fate of its SHUTDOWN in the same step (`AccountedReport`) |
| `StagesImplementLatch` | `LatchSpec` (refinement) | the latch is set exactly where `stage` is FAULT. `ClassifyLatches`: what the classification with hysteresis yields is what the latch demands of trip and release, for any limits; every other step stutters |
| `PowerTypeCorrect` | `[]TypeOK` | inductive; one lemma for each group of actions |
| `InterlockHolds` | `[]EnergisedOnlyIfReady` | with `Admitted`: whoever is on the way to close the relay came through a guard that read `system_ready`. The property alone is not inductive, as the guard is read seconds before the relay closes |
| `RelayAgrees` | `[]RelayFollowsState` | with `InStep`, which says for each place in the paths of the tasks how relay, state, `active` and `output_enabled` stand to each other there, and `RelayExplained`: as long as no cause is recorded they are in step. The property speaks only of moments when nobody is under way |
| `FaultLogTypeCorrect` | `[]TypeOK` | inductive |
| `FaultsReachFlash`, `CleanLogIsSaved` | `[](CleanMeansSaved /\ FaultsPersisted)`, `[]CleanMeansSaved` | with `OnItsWay`: the copy that a flush holds is the log unless the log changed since, and a fault not yet in flash has a flush ahead |
| `ReadsMostRecentFirst` | `[]MostRecentFirst` | with `RingOrdered`: a ring that is not full is ascending from slot 0 to its head, a full one from the head around, and so are the copies of flushes and the flash while they are not full; a full ring read back without its head is excepted |
| `CriticalEventsFirst`, `PreemptionsServed` | `[]CriticalFirst`, `[]PreemptionServed` | with `DrainedFirst`: after the drain a queue holds ordinary events only, at most as many as were posted since, so that the send to its front finds room |
| `TypeCorrect` (`Alarms_proofs`) | `[]TypeOK` | queues, dispatcher and outputs separately, then their lengths |
| `EnforcerPathIsChannel` | `EnforcerChannel` (refinement) | the path to the enforcer is its queue, the event in the dispatcher's hand if the enforcer is still among its targets, and what is in the central queue, in this order. Each step appends to it, takes its head, removes one from the middle where the enforcer's queue is full, or leaves it |
| `UpdateTypeCorrect` | `[]TypeOK` | in three independent parts |
| `UpdateBootable` | `[]AlwaysBootable` | with `NewerAhead`: a download is of a newer image, and a slot that is selected or counts as verified holds a newer image if any; and `RecordOK`: while a marker is being written, or after a write of it was cut off, a digest that fits the slot is still of a newer image. Every step but a restart is `Harmless`, a predicate on steps that keeps the invariant; the restart starts an intact slot |
| `UpdateOnlyNewer` | `OnlyNewerOrRollback` | from the same invariant: only a restart changes the running slot |
| `TypesHold` | `[]TypeOK` of `Settings` | with what an open editor and a save in progress hold: what a boot loads is a table of settings only because keys that are missing take their default |
| `StoredTableSurvives`, `TrustedTableIsWhole` | `[]StoredSurvives`, `[]TrustedIsWhole` | with `WriteInv`, `StageInv`, `AttemptInv`, `StoredInv`: how much of the captured table is in flash in each phase of a save, and which marker stands over it. Whatever carries the current marker with a checksum that fits is one captured table |
| `SaveLockIsReleased` | `[]LockHeldWhileSaving` | inductive with the types |
| `LimitInStep`, `EditIsAllOrNothing` | `[]LimitFollowsSettings`, `EditAllOrNothing` | with `EditInv`: the editor is open exactly while the panel edits, what it shows is what the table holds, its backup is what it opened on, and a save under way has captured the table; and with `HourInv`: while the hour is edited nothing but the hour and `TimeSet` has moved. The closing step then either stored the table or left what `LeftBy` says |
| `TypeCorrect` (`NetworkServices_proofs`) | `[]TypeOK` | with `LockInv`: exactly the task that is inside holds the lifecycle mutex |
| `NewestIsApplied`, `StoppedStaysStopped`, `NothingIsOrphaned` | `[]NewestApplied`, `[]StopHolds`, `[]NothingOrphaned` | one invariant, `Inv`: `ServersInv` (which servers are up at each place inside a start or stop), `QuietInv` (what a stop that returned left behind, and why a start that waited gives up), `FlagHasTask`, `UpstreamOwned` and `RedirectorInv` (whoever is about to lower the redirector's flag has stopped it) |
| `TypeCorrect` (`WifiStation_proofs`) | `[]TypeOK` | five parts; the room a stop needs in the queue |
| `PublishedStatusIsTrue` | `[]StatusFollowsDriver` | with `FlagsInv`: the flags as they *will* be when the waiting events are handled (`After` folds the queue, the last event that matters decides) are what the driver does now. Without events in the queue that is the property |
| `PolicyStaysInForce` | `[]PolicyHolds` | `ToggleInv` (where the worker is says whether the radio is on and what the system says) and `PolicyInv`: after a Disconnect the policy is off until the user connects or `configured` |
| `DisconnectIsHonoured` | `DisconnectHonoured` | from `PolicyInv`: as long as no configuration rewrote it the policy is off, and every step to the dialling place looks at it; that nobody else dials holds with one as well |
| `VerdictIsExact`, `NoOutputBeforeHealthyStart` | `[]VerdictExact`, `[]OutputOnlyAfterHealthyStart` | `StartupInv`, eight parts, by place in `app_main`: what has not begun yet (`BringUpOK`), that each failure bit stands for a task or driver that never becomes ready again (`LcdOK`, `AdcOK`), that receiver and consumers are complete exactly if no bit says otherwise (`PartsOK`), which parts of the self-test can have failed by now (`TestOK`), and that the result is published once, from a whole test behind open gates (`VerdictOK`, `EndOK`). The verdict is a formula over the same state, but the tasks go on after it was formed: that the ADC or the display cannot *become* ready after a failure bit is what makes it stay true |
| `DisplayTypeCorrect` | `[]DisplayTypeOK` | inductive with `ReturnOK`: a notice that is on display, or that the display task carries from one step of its pass to another, no longer says AUTO, so that what it returns to is a screen |
| `CacheShowsTheGlass` | `[]CacheTruthful` | `CacheOK`: inductive with the fact that a request to clear a row finds its cache empty; the steps that write the cache are those that write or lose the row |
| `NoticesKeptByRank` | `UrgentKept` | with `DistinctOK`: the notices in the queue are numbered apart, and apart from those that a writer has prepared outside the critical section. Without it an evicted notice could not be told from one that stays |
| `LoadingIsCutShortOnlySo` | `LoadingCutShort` | with `LoadingOK`: what the display task has read of a loading screen before it acts is of a start that is not later than the present one, and due only if that one has lapsed. The steps of a notice and of a Wi-Fi deadline do not look at what is on screen: they are the three the property names |
| `ErasureIsDeliberate`, `UpdateIsAuthenticated` | `ResetDeliberate`, `InstallAuthenticated` | with `PanelInv`: what waits for its confirmation was proven with the PIN, so was what an open prompt or grant of the update holds open, a PIN flow for an update is at the question, and there is no association without the radio (a request that finds neither asks for Wi-Fi and opens nothing). `Calm` and `Mild` are relations on two states of the screen and of the dialogue, closed under composition, in which none of this comes up; every operator of the menu is shown calm, every one of the dialogue mild, and a handler composed of such operators keeps the invariant. The rest are proved one by one: the two PIN flows, the confirmation of an erasure, the hold of the power button, and the ways into and out of the PIN of an update. The order of claims gives what a handler relies on (`EnterClaims`) |
| `WakingGestureIsSwallowed` | `WakeSwallowed` | with `HandOK`: the button whose gesture has woken the display is latched until that gesture is over, and a chain that waits has at least one click, so that its next PRESS does not clear the latch |

Only model-checked:

- *Liveness*: `ShutdownHonoured`, `LostTelemetryStopsOutput`, `QueuedShutdownDispatched`, `AlarmGiven`, `StartupEnds`,
  `Reconnects`, `GlassCatchesUp`, `IdleGoesHome`. They need fairness and ENABLED.
- That the definitions say what the code does is not proved. The runs and the mutants exercise them.

## 7. What is left out

- Components without a module, with the reason for each, are in `PROJECT.json`.
- Text and layout: the `Draw...` functions of `src/lcd_task.c`, 304-2189. Time: a delay may take any time; the latch of a lost
  telemetry is released by data, not by time.
- In `Settings`: values are compared as they are stored (a frequency is stored without its decimals), and `Adjust` reaches any
  value of the range in one step. The editors of voltage and limit also write `output_voltage` (4090-4105, 6029-6044); that
  key stands with `Active`, as the ADC task overwrites it with every sample (`src/adc/adc_manager.c:137`).
- Current limits apart from the ones in `PowerControl` and `Settings`, and the halving of the limit by a DERATE.
- In `FirmwareUpdate`: screens and prompts, so that a key is pressed whenever some screen would take it (which screens those are,
  with the PIN and the Wi-Fi prerequisite, is in `PanelOta`); the byte stream and its resumption, the size of the image (it is written after the digest and checked with it), a failing erasure
  or write of otadata, and the requests over HTTP. `s_ota_status` is reduced to `busy` and `confirm`. `main.c:623` always passes
  a true `post_completed`, so that the branch of `ota_service_validate_running_app` that rolls back is never taken and has no
  action. The preflight compares a release with the marker it finds, not with the version captured when it was scheduled.
- In `WifiStation`: the access point, scans, saving networks, and the configurations that a change of mode
  (`src/app_services.c:1259-1350`) or the forgetting of a network (3630-3646) writes; the field and the policy that
  `wifi_manager_enable_auto_reconnect` sets are one step. In `NetworkServices`: that a pass reads the redirector's flag before
  it acts on it (nobody else raises it, and lowering it twice changes nothing), the reconfiguration of MQTT over HTTP,
  runtime provisioning, which this build disables, and `network_services_deinit`, which nothing calls; mDNS and the JSON API start and
  stop with the local servers.
- In `Panel`: the cursor (ENTER picks any row), the digits of a PIN (how many, and whether the whole is right), repeated events of
  a held key, a second button pressed in the middle of a gesture, and the delays inside a handler. A click is lost when a slow handler
  blocks the button task for longer than `double_click_ms` (`src/button_controller.c:215-264`); that is not modelled.

## 8. Disagreements and surprises met while modelling

Each is a place where the code and a text about it differ, or where the code may surprise. No run is kept for them; where
a property has an exception because of one, it is named.

*Protection, alarms and power*

- `src/app_runtime.c:4011`: an emergency disable while `inverter_power_on` sleeps in STARTING is overtaken, and the relay closes without
  telemetry; `README.md:143` says the output is stopped and latched. In `PowerControl` this is the cause `OVERLAP`.
- `src/app_input.c:3048`: leaving a detail view puts back the state saved when it was opened, over a FAULT set since (cause `OVERWRITTEN`).
- `src/app_input.c:1560`: an update is refused because of `output_enabled`, which a shutdown does not clear (`src/app_runtime.c:4079`).
- `src/security/protection.c:361` ignores whether the event was queued, so that a SHUTDOWN may be lost for good;
  `include/security/protection.h:16` says every transition is reported. `FaultAccountedFor` allows for it explicitly.
- `src/utility/buzzer.c:446`: lower tones are suppressed "until the corresponding recovery event arrives", but the dispatcher does not
  route RECOVERED to the buzzer.
- `src/utility/led.c:14`: "forever" is 65535 repeats (`include/utility/led.h:34`). `src/utility/led.c:355`: the recovery of one quantity
  turns the error LED off while another is in FAULT.
- `src/security/protection.c:260`: DERATED is left without hysteresis, against `include/security/protection.h:8`.
- `src/security/protection.c:293`: `transition_count` grows with every sample that is not a number, against `protection.h:88`.
- `src/security/protection.c:203`: a battery exactly at its cut-off is flagged as too high (`src/inverter_error_codes.c:15`).
- `src/events/protection_handler.c:105`: each temperature DERATE halves the limit that the next one starts from.
- `src/app_runtime.c:4849`: a start is accepted while a quantity is already in FAULT, and no event will follow (`protection.h:116`).
- `src/app_runtime.c:3258`: `error_flags` is cleared in each pass of the ADC task, whoever raised it (`include/system/system_state.h:174`).
- `src/app_runtime.c:3965`: numbers of errors are or-ed into a bitmask. `src/app_runtime.c:4231`: a refused set of thresholds is ignored.
- `docs/feedback_audit_report.md:95` lists subscribers without consumers; their queues fill and drop. `inverter_emergency_shutdown`,
  `fault_log_add_from_isr`, `detect_critical_error` and three monitoring tasks have no callers and no model.

*Start-up, log and settings*

- Nothing calls `fan_controller_init` (`README.md:278` says so), so that the fan test, and with it every self-test, fails, against
  the health check of `README.md:54`. `system_ready` then stays false after the start-up, and the deferred save of settings never runs.
- `docs/startup_timing_report.md:53`: the self-test does run with a failure bit present, if both readiness bits are there too.
- `src/app_runtime.c:6616`: `init_menu_system` sets `system_ready` long before the self-test, and `src/main.c:609` writes its result only at
  the end of the start-up, after the buttons were started. `OutputOnlyAfterHealthyStart` says why that is harmless.
- `src/events/fault_log.c:131`: "promptly", but the flush clears the dirty flag that an addition under it had set (the exception of
  `CleanMeansSaved`). `src/events/fault_log.c:83`: the order of a full ring is lost in a restart (`include/events/fault_log.h`).
- `src/app_runtime.c:3605`: clearing the error log leaves its count.
- `src/app_runtime.c:2661`: on a device without stored settings the load returns early, although 6606 logs "retaining validated
  defaults"; the fields stay 0, the first save stores them, and the next boot clamps the limit.
- `src/app_runtime.c:2723`: a table that is not trusted is replaced by defaults, but `battery_load_profile` reads type and voltage again; the
  menu then shows another limit than the one in force (2745-2749). `LimitFollowsSettings` speaks of trusted boots for this reason.
- A failed save says the previous value was restored, which is true of RAM; flash may be partly written under the old checksum (the next
  boot then takes defaults), or wholly, if only the commit or the read-back failed.
- `src/app_runtime.c:3955`, `:5987`: an emergency disable leaves the current limit at 0 and sets the value in an open editor to 0; a
  cut-off of 0 may then be confirmed (no check against 7588-7590), and cancelling puts the captured limit back over the emergency's.
- `src/app_runtime.c:1948`: "a failed transaction can restore every setting"; `time_manually_set`, set as soon as an hour or a
  minute is adjusted (4180, 4187) and stored as `time_set`, is restored neither by a failed save (2056-2082) nor by Back
  (5667-5694). The comment at 7423 says the snapshot is of the edited setting
  only. It is what `LeftBy` excepts in `EditAllOrNothing`.
- `src/app_runtime.c:4096`: a cancelled frequency is applied again, which makes it the output's although it may not have been before.
  A boot clamps the frequency setting (6461-6467) but does not set the output to it.
- `src/app_runtime.c:5987`: a start or stop over HTTP, with an editor open on the panel, puts 220 or 0 into that editor (3999, 4065).
- `inverter_active` is saved: saved while running, it is loaded as true with the relay open. `src/app_input.c:1690-1703`: Clear
  Settings erases and then saves what RAM holds.
- `src/storage/nvs_manager.c:74`: a task that waits three seconds for the storage lock gives up, and its setting is not written.
- `src/app_runtime.c:7170`: a restart that cannot delete the I2C driver returns with the scheduler suspended.

*Update*

- `src/server/network_services.c:785`: the flag of a suspension does not nest. The end of an automatic check that suspended the
  services ends the suspension of a transfer that began meanwhile; `src/app_services.c:4588` says they are suspended for the transfer.
- `src/app_services.c:4484`: "resumes that staged image instead of downloading it again", but the marker is looked at long before the
  job is queued. A job that ends in between has staged an image, which the second one overwrites while it counts as verified.
- `README.md:54`: an image is "marked valid only after NVS, LCD/input startup, and POST health checks pass"; `src/main.c:611-623` keeps it
  whatever the self-test says, by an explicit decision.

*Wi-Fi and network services*

- `src/wifi/wifi_controller.c:26`: "suppresses automatic reconnect until the user explicitly connects again"; but a configuration
  written over HTTP (`src/server/json/json_api_wifi.c:564`) or by the panel reaches `wifi_events_set_retry_policy` through
  `wifi_manager_set_config` (`src/wifi/wifi_manager.c:713-715`), past the controller's mutex and `s_manual_disconnect`: the policy is
  on again and a new supervisor dials (the exception of `PolicyHolds` and `DisconnectHonoured`).
- The same line: the supervisor checks the policy under the lock and dials outside it; one attempt after a
  Disconnect is possible, the exception of `DisconnectHonoured`.
- `README.md:130`: "capped exponential backoff"; the delays are constant. `README.md:122`: switching on "does not initiate a station
  association"; the controller's start connects when automatic connection is on.
- Stopping the controller holds its mutex while it waits for the monitor, whose callbacks wait for that mutex: the switch to OFF is
  then reported as failed with the radio off (`src/app_services.c`, `execute_wifi_toggle`).
- The state stays CONNECTING after a search that ended without an event while automatic connection is off; later presses of Connect
  do nothing. `app_wifi_end_operation` clears whatever operation is under way, a newer one included.
- `src/server/network_services.c:188`: a lost link stops the upstream services and latches the teardown flag (755), which `:87` says only
  an initialisation clears, while a start and a resumption clear it too.
- `include/server/network_services.h:38`: a pass that returns early loses the resumption scheduled in between.
- `src/server/network_services.c:726-730`: a pass that starts the redirector after a stop has lowered its flag, and raises the flag
  before that stop has stopped it, leaves the flag up without a redirector; later passes do not start it (160). `RedirectorOwned`
  is the other direction.
- A stop between the two flags of the clients leaves NTP running with its flag cleared; `UpstreamOwned` is about MQTT for this
  reason. A report of the monitor that is delivered after a later one of the events task leaves `s_station_ready` stale.

*Display and panel*

- `include/lcd/lcd_flash_queue.h:14`: "while a flash is showing no new flash can overwrite it mid-display"; two posters that both looked before
  either commits do (`src/lcd_flash_queue.c:241-271`). A notice queued after the active one expired waits for the next one.
- `src/lcd_flash_queue.c:149-154`: a notice posted between the end of one and the fallback returns to the screen of notices itself.
- A fault screen, or a loading screen whose time has not passed, is overwritten by the timers of the Wi-Fi screens
  (`src/lcd_task.c:2551`, `:2561`, `:2586`) and by the fallback of a notice (2435): the screen on display is not looked at again.
- `src/lcd_writer.c:769`: `lcd_flash_message` passes 1500 as priority, more urgent than CRITICAL.
- `src/app_input.c:1312-1317`: the press of ENTER closes the status view of the PIN and the click that follows opens it again; Back's press
  closes it and its click leaves the menu too.
- `src/app_input.c:392-443`: a press that a notice refuses does not clear the latch of a waking gesture; the click of that press may
  be swallowed.
- `src/security/factory_reset.c:183`: "never jump straight to CONFIRM", but a double press of the power button leaves the phase
  there, so that ENTER executes at once when the menu is opened again. `ResetDeliberate` holds: the PIN was entered for that erasure.
- `src/app_input.c:2054`: holding ENTER in the factory-reset menu posts to a queue that is never created.
- `src/app_runtime.c:5207`: the menu timeout leaves the prompts of forget, disconnect and update pending; the next ENTER there confirms.
- `src/app_services.c:4619`: whether a job runs is read before the mutex is taken, so that the question of a cancelled update may stay
  behind.
- `src/app_input.c:3109`: Back puts `inverter_state` back to `previous_inverter_state`, over the FAULT of an emergency.
- Clear Settings erases the PIN as well: none is accepted until the restart, and the default afterwards. A new PIN ends the
  lockouts of all scopes.
- The history of menus survives a shutdown, and Back from some screens shows the rows of a menu that is not open (2945, 2969 of
  `src/app_input.c`); results of an update take over any screen.
