# A verification project for OpenHomepower (Home Assistant integration)

The integration in `src/custom_components/openhomepower` reads an Energizer
Homepower battery over SSH or MQTT and, when the owner opts in, writes its
settings and its weekly schedule over MQTT. This directory holds TLA+ models of
both sides, the TLC configurations that check them on small instances, and
TLAPS proofs that lift safety results to every instance.

## 1. Inventory

| Component | State it keeps | Operations | Talks to |
|---|---|---|---|
| `ControlCoordinator`, schedule half (`control_coordinator.py`) | `applied`, `_pending`, `.storage` file, schedule keys of `data` | poll with `_follow_clock`, `prepare_write`, `async_written`, `async_load` | `MqttControl`, `ClockTracker`, `Store`, entities |
| Schedule writers: `set_schedule` service (`__init__.py`), schedule form (`config_flow.py`) | the form's snapshot | validate, shift, publish, record | `ControlCoordinator`, `MqttControl` |
| Single-value settings (`number.py`, `select.py`) with the read-back (`control.read_config`, `_async_update_data`) | the shared `data` dictionary | set value, select option, poll | `MqttControl` |
| `MqttControl` (`control.py`) | none: one connection per call | `publish`, `publish_many`, `read`, frame builders and decoders | the broker, the battery |
| Schedule arithmetic (`timeshift.py`, `schedule_form.py`, codec in `control.py`) | none | shift, split and merge windows, form to schedule and back, registers to schedule and back | all schedule code |
| Clock (`clock.py`, `clock_tracker.py`) | samples of the last half hour, last reading | `add`, `estimate`, `offset` | telemetry coordinator |
| MQTT telemetry (`mqtt_reader.py`, `mqtt_coordinator.py`) | thread, socket, stop flag; `last_success`, `data` | session with back-off, push, watchdog, shutdown | the broker, entities |
| SSH telemetry (`transport.py`, `coordinator.py`) | connection, lock; consecutive failures | read with retries, grace, shutdown | the gateway |
| Moving the battery to a local broker and back (`config_flow.py`, `local_broker.py`) | the add-on's options; the gateway's `firewall.user`, `/etc/hosts`, live rule; the entry's broker settings; the flow's task | check, apply, reboot, probe, undo, save | gateway over SSH, Supervisor, broker |
| Entry lifecycle (`__init__.py`) | `hass.data`, the registered service | setup, unload, reload | all of the above |
| Daily totals (`daily_reset.py`, `sensor.py`) | total, last reading, restored state | update, midnight reset, restore | telemetry coordinator |
| Setup flow, discovery (`config_flow.py`, `discovery.py`) | the dialog's answers | steps, probes | gateway, broker |
| Decoding (`protocol.py`, `registry.py`, `entity_spec.py`) | none | frames, checksums, registers to readings | telemetry |

What makes this program hard to get right:

* **Interleavings.** Everything runs on one event loop, but every `await`
  lets the poll, service calls and dialogs overtake each other, and blocking
  MQTT work runs on executor threads. The poll reads the battery in five
  separate requests and publishes one dictionary at the end.
* **Unreliable delivery.** Publishes are QoS 0: a call returns although the
  frame may never arrive. Replies may be short, late or absent.
* **Two clocks and two copies of one fact.** The battery's schedule and the
  offset it was written with live in different places and are updated one
  after the other; a crash or an option change can fall between.
* **Timeouts, retries, rollback** in the move to a local broker.

* **Threads.** The MQTT reader is a thread of its own; whoever stops it sets an
  event and closes a socket the thread may not have opened yet.

What each component must guarantee is stated with its module below.
`PROJECT.json` lists every hazard at its line.

## 2. Modules

### ScheduleKeeper: what the real-time schedule promises
Four variables: the real-time schedule the owner was promised (`wanted`), what
the battery holds (`held`), the offset between them (`known`) and whether the
promise still stands (`trusted`). Its steps are atomic: the owner writes, the
schedule follows the clock, the first offset is adopted, a write without an
offset passes unchanged, or something breaks the promise.

### ScheduleSync: the machinery
A schedule is a *plan* moved by some minutes, `[plan, at]`. Shifting adds to
`at`; the empty schedule has no times. That is all the offset logic needs: which
plan, and how far it has been moved. Whether a moved plan fits into two windows
a day is the constant `Unfit`.

| Model | Code |
|---|---|
| `battery`, `store` | registers 126-230; the `.storage` file of `Store` |
| `realtime`, `applied`, `pending` | `ControlCoordinator.realtime`, `.applied`, `._pending` |
| `offset` | what `ClockTracker.offset()` would answer now |
| `data` | `battery_schedule` and `schedule` of `ControlCoordinator.data` |
| `poll` | the local variables of `_async_update_data` up to the clock check |
| `job[p]` | a publish and the save after it, for the poll and for each writer |
| `wanted`, `fresh`, `seen`, `upset` | ghosts, see below |

One action is the code between two awaits. `PollBegins` takes the copy of
`data`; `BatteryAnswers` or `PollReadFails` ends the read; `PollKeeps`,
`PollAdopts`, `PollNotesMove`, `PollSavesMove`, `PollRefuses` and `PollRewrites`
are the branches of `_follow_clock` in its order; `PollPublished` and
`PollSaved` follow its awaits. `WriteAsked`, `WritePublished` and `WriteSaved`
are `prepare_write`, the publish, and `async_written`, for the service and the
form alike. A publish is three steps: handed over, arrived (`Lands`) or not
(`Lost`, `Refused`), and returned. `Crash` restarts from the file at any point;
`SettingsChanged` toggles the option and reloads. `ClockReads` changes the
tracker's answer at any time.

`wanted` is what the owner was promised; `upset` collects the events after which
the promise is off: a lost frame, a crash between a frame's arrival and its save,
two frames crossing with different offsets (`mixed`), the poll acting on a reply
a writer has overtaken (`stale`), or a write in battery time while an older
offset stays on file (`settings`). The properties are conditional on `upset`
being empty; what happens otherwise is shown by the three violation runs.

### ScalarControl: the single-value settings
`regs` are the battery's registers, `data` the shared dictionary, `step`, `got`
and `state` the poll's progress through `read_config` and its merge, and
`call[c]` the service calls under way. Off-grid reserve and excess share a
register block: the reserve entity writes both, with the excess that `data`
holds when the frame is built. Three ghosts say where a shown value may be
wrong (`suspect`), what was written since the poll read it (`touched`), and
which blocks carry the true excess (`based`).

### BrokerMove: to the local broker and back
Moving a battery writes two files on its gateway (a redirect in `firewall.user`,
a line in `/etc/hosts`), reboots it, and waits for the battery to appear on the
other broker; the entry is rewritten afterwards, by a later step of the dialog.

| Model | Code |
|---|---|
| `redirect`, `hosts` | our line in `firewall.user`, and in `/etc/hosts` |
| `live`, `power` | the rule in force since the last boot; up, about to reboot, down |
| `home`, `dns` | Home Assistant's address; whether Enertek's name resolves |
| `addon` | the add-on's options: its one battery login, and the batteries it lists |
| `plan[d]` | `_move_plan["addon_opts"]`: options merged at the check, saved by the task |
| `other`, `theirs`, `theirPlan` | another battery's move to the same add-on, its login, its plan |
| `entry`, `known` | the entry's broker and its local flag; whether Enertek's host is known |
| `dialog[d]`, `task[d]` | the options flow; its shielded task, at `pc` in `_do_...` |
| `told`, `upset` | ghosts: the last outcome shown was an error; events outside the promises |
| `overlap` | ghost: two plans for the add-on were under way at once |

`Open`, `Submit`, `Close` and `Finish` are the dialog. `CommandRuns`,
`CommandFails` and `ScriptFails` are one SSH command each: it runs, the
connection breaks before or after it ran, or `sed` fails and nothing is printed.
`RedirectAfter` and `HostsAfter` say what a command does to the files, `Then`
and `Failing` what the task does next; the rest of the task is `AddonApplied`,
`LoginChecked`, `Inspected`, `BatteryAnswers`, `BatterySilent` and `GatewayBack`.
`Connected` is the broker the gateway's daemon reaches, as `local_broker.py`
explains it: the name must resolve, then the redirect in force decides, and on
the add-on the battery's login must be the one it is set to.

The add-on serves all batteries of a house with one battery login. `Submit` makes
the plan from the options as they are at the check (`Merged`, refused if `Taken`),
`AddonApplied` saves it; `OtherChecks` and `OtherSaves` are the same two steps of
another battery, whose own gateway is left out. A login is a user and a password,
because `merge_addon_options` compares the one and writes both; Home Assistant's
own password for a battery is only ever kept or made new, so that being listed
stands for it.

### Link, MqttReader, SshGateway, EntryTelemetry: reading one battery
`EntryTelemetry` extends the other three and follows one battery from the setup
form to its entities.

| Model | Code |
|---|---|
| `link`, `faults` (Link) | the WiFi link; a count that bounds everything that goes wrong |
| `reader[r]` (MqttReader) | one `MqttReader` thread: `pc` in `_run`, `_session` and `_recv_loop`; `stop` the event; `held` = `_sock` is set; `cut` = its connection is dead; `late` = its dial outlasts the join |
| `handed[r]` | a reading passed to `call_soon_threadsafe` |
| `stopper` | the one `stop()` in progress, in its executor thread |
| `conn`, `poll` (SshGateway) | `Gateway._conn`; where `read_latest` is, and in which attempt |
| `logs` | whether the unit's daemon writes frames to its log |
| `flow`, `state`, `source` | the setup form, the config entry's state, its read source |
| `current` | the reader the running check or the live coordinator owns |
| `coord` | the coordinator: has data, shows it as available, its age and watchdog (MQTT), its failures (SSH) |
| `since` | ghost: whether anything befell the present attempt, so that its wait may time out |

A thread's actions are the code between two blocking calls: `LoopHead`, the dial
with its outcomes (`Dialled`, `DialFails`, `DialSlow`), `Registers` (`_sock = s`,
from which on `stop()` can see the socket), `LoggedIn`, and the receive loop
(`AskOrLeave`, `Answered`, `NothingUsable`, `SessionFails`), then `Cleanup` and
`Waited`. `Stopping`, `StopLooks`, `StopCloses` and `StopJoins` are `stop()` line
by line. An SSH poll dials if it holds no connection, runs its command, and tries
again after a pause; a broken command drops the session, an empty log keeps it.
The form's check (`Submit` to `AddedUnread`), `SetupBegins`, `SetupTimesOut`,
`SetupSucceeds`, `PlatformsFail`, `Reload`, `ShutDown` and `Restart` are
`config_flow.py` and `__init__.py`; `Applied`, `WatchdogLooks`, `PollSucceeds`,
`PollUndecoded` and `PollFails` are the two coordinators. Time, for the age of MQTT
data, is counted in thirds of `stale_seconds`, the watchdog's interval.

### Windows and ScheduleWriters: schedules minute by minute
`Windows` is arithmetic only: `timeshift.py` (`Shift`, `Crowded`), the registers
(`Held`), `schedule_form.py` (`ToForm`, `FromForm`, `FormErrors`), and, as the
reference they are compared with, the minutes of the week that run (`Covered`).
A window is `[s, e, p]`; a week has `Days` days of `DayLen` minutes. There is one
type of window, since types never meet in this code. A day's list is written as the
sorted sequence of a set, with equal pieces told apart by the window they came from,
and merging is a recursive function over it: forms the proofs can use. A window that
ends when it starts is dropped by a shift, and not active in the registers.

`ScheduleWriters` puts it to work on several entries: the service's loop over
`hass.data` (`CallBegins` to `CallReturns`) while entries load, unload or fail to set
up their platforms (`Loads`, `SetUp`, `SetupFails`, `Unloads`, `Unloaded`), the
form (`FormOpens` to `FormCloses`, with `HalfSaved` for a mode frame that was sent
and a schedule frame that was not), and the poll (`Adopts`, `Follows`). `phase` is
an entry's place in `hass.data`, `battery` its registers, `clock` and `applied`
its measured and its applied offset. The loop awaits inside an iteration over a
dictionary that the loads and unloads change, so `table` is that dictionary as
CPython keeps it: a popped entry leaves a gap (`Popped`), a new one goes to the end,
and when the table is full an insertion rebuilds it without the gaps (`Compact`).
The iterator (`call`) has a place in the table, how many entries it still expects and
how many there were: it passes gaps and, without an await, entries without control
(`Turn`), fails when the dictionary's size changed (`Changed`) or when it finds an
entry more than it expects (`TooMany`: an entry it had passed was added again), and
ends at the end of the table. How full the table is depends on every insertion
before, so any `Loads` may rebuild it; the dictionary is outside `src/`. `call.moved`
is a ghost: a rebuild closed a gap the iterator had passed. One write is one step here; what can happen
inside it is ScheduleSync. `wanted` (minutes asked for) and `used` (offsets the
schedule went through) are ghosts. The real-time option is on, and offsets differ
by at least the rewrite's threshold.

### ClockOffset, DailyTotal, Readings: two listeners of the telemetry
`ClockOffset` is `OffsetEstimator` behind `ClockTracker`, `DailyTotal` is
`DailyAccumulator`; `Readings` composes them with the battery (`battery`: its
counter, and as history what it ever metered and how often it was zeroed; `skew`:
its clock against UTC), the reading its gateway holds (`held`, up to `MaxAge`
old), the local zone, and Home Assistant's midnights, saves, stops, crashes and
starts. `Hear` is a coordinator update, `Midnight` is `_reset_daily`, `Saves` and
`Stops` store `extra_restore_state_data`, `Starts` is
`async_added_to_hass` and the tracker's constructor. `seen` is history: the first
and last reading the sum spans and the local day it was begun on.

### Proof modules
`ScheduleSyncProofs`, `ScalarControlProofs`, `BrokerMoveProofs`,
`EntryTelemetryProofs`, `ScheduleWritersProofs` and `ReadingsProofs` hold the
theorems of section 4 about the modules they are named for. `WindowsProofs` has the
laws of schedule arithmetic that `ScheduleWritersProofs` builds on, and `NumberFacts`
the facts about least elements, `Min` and `Max`, and division that these and
`ReadingsProofs` cite.

## 3. Runs

| Run | Expect | Shows |
|---|---|---|
| `schedule_sync` | pass | all properties of ScheduleSync, with every fault kind |
| `schedule_crash` | violation | `KeepsRealTimes`: a crash between the rewrite and its save |
| `schedule_settings` | violation | `ReadsBackAsRun`: a stale offset after the option was off |
| `schedule_overwritten` | violation | `OwnersPlanStays`: a stale rewrite over the owner's new schedule |
| `scalar_control` | pass | all properties of ScalarControl, with every fault kind |
| `scalar_clobber` | violation | `BlockKeepsExcess`: the reserve write undoes an excess write |
| `broker_move` | pass | all properties of BrokerMove, with every fault kind |
| `broker_undo` | violation | `FailedMoveIsUndone`: the reboot after the writes fails |
| `entry_telemetry` | pass | all properties of EntryTelemetry, with every fault kind |
| `entry_auto` | violation | `AutoFindsTelemetry`: a unit without a log, undisturbed |
| `schedule_writers` | pass | all properties of ScheduleWriters |
| `readings` | pass | all properties of Readings |

**Properties of `schedule_sync`.** `AppliedIsWrittenWith` and
`FileBelongsToBattery`: shifting the promise by the offset in memory, or on
file, gives what the battery holds. `ActsOnSecondSight`: the poll acts on a
move only if the previous check saw it too. `KeepsSchedule`: the module
implements ScheduleKeeper under the mapping in its last section, where a frame
counts as written from its arrival on. `SettlesOnClock` and `ShowsPromise`
(liveness): in the end the applied offset is near the measured one, or the plan
cannot be moved, and the entities show what the battery holds.

**Properties of `scalar_control`.** `ShownIsStored`: settings that are not
suspect are shown as stored. `BasedBlockKeepsExcess`: a block built on a true
excess leaves it alone. `ReadsBack` (liveness): in the end every entity shows
the battery's value.

**Properties of `broker_move`.** `OutcomeIsTrue`: when a move ends as done or
undone, closed dialog or not, both files say so and so will the rule in force.
`KeepsLogins`: a battery on the add-on keeps its login there, and its place in the
list, through every move of the other one, done, failed or abandoned, unless two
moves had their checks before either saved.
`FilesMatchEntry`: with no move under way, the files match the entry unless the
owner was last shown an error. `EndsConnected` (liveness): in the end the
battery is on the entry's broker, if there is one at that address; this too leaves
out overlapping checks and logins told apart by their password only.
`EveryMoveEnds` (liveness): no move waits for ever.

**Properties of `entry_telemetry`.** `NoSecondReader`: a reader thread that
nobody owns was told to stop and is only finishing a dial that outlasted the
join, through retries, reloads and failed setups. `StoppedEnds` (liveness): a
thread told to stop ends, wherever the stop met it. `StaleIsShown`: available
MQTT entities are at most one look of the watchdog past `stale_seconds`.
`HeldIsRecent`: SSH data is served for at most `FAILURE_GRACE` missed polls,
unless one of them decoded to nothing. `KeepsComingBack` (liveness): an entry that
did not end in error has available entities again and again.

**Properties of `schedule_writers`.** `RunsAsAsked`: through splits, merges,
cuts to two windows and any number of re-writes, each battery runs the minutes it
was last asked to run at the power asked for, save for the minute before a
midnight at one of the offsets it went through. `NoEntryPassedOver`: a call that
returns without an error wrote every entry that has control then, unless `call.moved`
(section 5). Without that condition TLC finds the violation in six steps.
`ServiceWhenControlled`: the service is there while an entry with control is set
up. `ModeAloneKeepsSchedule`: sending the form with its windows as they were
keeps the schedule, even one the form shows only in part.

**Properties of `readings`.** `RestsOnReadings`: an estimate rests on
`MIN_SAMPLES` different readings of the battery. `OffsetIsTrue`: once the clock
has been left alone for the window and the age of a reading, the offset is never
ahead of the truth, and exact if one sample was fresh. `TotalIsTrue`: the daily
sum is what was metered between the first and last reading it spans, never more
when the counter was zeroed between them.

**Bounds, and why they are enough.** ScheduleSync: three plans (empty, one that
always fits, one that does not at nine minutes), offsets 0, 4 and 9 with
`CLOCK_REWRITE_MINUTES` = 5, so that there are pairs below, at and above the
threshold; three changes of the clock reading, the least with which the clock
moves, moves again while the first move is pending, and returns; one writer and
one request, which meets every state of the poll; one fault, of any kind, at any
point. ScalarControl: the two settings that share a block and two values, one
of them the default; two callers, one call each or two in a row, and one fault.
BrokerMove: two addresses, so that one can be wrong or stale,
the first being Home Assistant's own (they are interchangeable); two logins of
different user names, the other battery having either; two moves, the second starting from whatever the first left behind; three
faults, enough for one to end a move, one to hit its tidying and one the next
move (the other battery's move counts as one). Dialogs and tasks are indexed, but the run has one dialog: two tasks on
one gateway are what the promises exclude (with two dialogs and no such
exclusion `FilesMatchEntry` fails). EntryTelemetry: two reader threads, the least
with which one can outlive its owner beside another; two attempts, as in the code;
a watchdog of three looks per deadline and a grace of two polls, so that data is
old before and after them; two faults of any kind, enough for a setup that fails
and something that befalls the retry. ScheduleWriters: a week of two days of four
minutes, on which windows end at, cross and start before midnight and the week's
boundary, three entries in any order, two of them with control, and three events,
enough for a call that overlaps a reload of any of them, with or without a rebuild of
the dictionary; one vendor's schedule, in the entry with control that comes first, since
the other one is alike but for the order (`SmallSpec`); asks that need a third window when
shifted, and that vendor's schedule, with four windows, occur; for every other week,
schedule and offset `RunsAsAsked` is proved. Readings: a day of three ticks, readings up to a tick old,
a window of one tick, two samples for an estimate, and one upset among clock
steps, reboots, stops and crashes, besides the battery's own midnight, the local
one and a change of zone; its invariants are proved without these bounds. The
violation runs use the least bounds that reach the problem. The proofs cover all
other values of the constants for the properties section 4 names.

**Fairness.** Polls repeat on Home Assistant's timer and coroutines resume:
weak fairness of the poll's own steps. Socket timeouts bound every publish and
read: weak fairness of `Lands`. A reply may be missing any number of times but
not for ever: strong fairness of `BatteryAnswers`. Without it a battery that
never answers would refute `SettlesOnClock`, `ShowsPromise` and `ReadsBack`, as
it should. Every wait of a move has a timeout, the screen of a finished task
moves on by itself and a gateway that is down boots: weak fairness of these. A
reader thread's waits are bounded (connect and receive timeouts, back-off), the
event loop runs what it is handed, Home Assistant retries a setup and polls on its
timers, and the link returns: weak fairness of `Thread`, of `Disturbed` on a cut
connection, of `Applied`, `Main`, `Refresh` and `LinkReturns`. None is assumed for
owners, faults or the clock.

**Deadlock** is checked in the schedule, settings and broker runs: the poll can
always begin again, the dialog can always be opened. It is not checked in
`entry_telemetry` and `entry_auto` (an entry in error, with no thread left and the
faults spent, rests), in `schedule_writers` (no more events) and in `readings`
(the last tick).

## 4. Proofs

All for arbitrary constants that satisfy the modules' `ASSUME`s.

*ScheduleSync.* `TypeOK` is inductive by itself. `AppliedIsWrittenWith` is not:
between a frame's arrival and the note of its offset the equation fails by
design, and the poll acts on a copy of the battery's schedule. `IInv` adds
`Order` (when a publish of the poll is under way the poll waits in `read` with
the option on; outside saves the file equals memory; a pending offset is the one
last seen), `InFlight` (owners' frames are at the times asked for) and, while
`upset` is empty, `Agreement`: frames that landed agree on one offset, which
gives the battery's schedule; a fresh reply equals the battery; a rewrite
prepared from it is the promise moved by its offset. From `Invariance` follow
`OffsetInMemory`, `OffsetInFile` and `SecondSight`; `Implements` maps each step
to one of ScheduleKeeper or a stutter, with `KnownIs` removing the `CHOOSE` of
the mapping.

*ScalarControl.* `IInv` adds `OnTheWay` (a frame that arrived and is not shown
yet has the battery's value, unless suspect; a based block carries the
battery's excess) and `PollHolds` (what the poll read, and what it is about to
publish, holds unless written since or suspect). From it follow `ShownHolds`
and `ExcessKept`.

*Readings.* `TotalIsTrue` speaks of the present sum, but a start takes a stored
one and adds the step to a reading taken much later. `IInv` says of both, the sum
in memory and the one in storage, that they are `Sound`: nothing heard yet, or a
span whose ends are readings in order, the last one before what the gateway holds
now, and a sum that measures the span. `Later` is the order of readings: while
the counter was not zeroed it rose by what was metered, and otherwise it shows no
more than that. `RiseMeasures` and `FoldSound` carry a sound sum over
`update()`; from them follows `TotalsAreTrue`, for any number of readings,
midnights, reboots, stops and crashes.

The estimator's half is `SInv`, independent of the sum. Of the gateway it says that
a reading taken after the clock was last disturbed shows the battery's clock as it
is (`Clocks`). Of each sample it says that it is no older than it may be and that,
taken after the disturbance, it is behind the truth by its age (`SampleTrue`); that
samples are in the order in which they were heard and, strictly, in which their
readings were taken (`InOrder`); and that the last one is of the last reading heard
(`Newest`), which is what `add()` compares with to skip a reading it already has. The
order is needed for `EstimateRests`, since two samples of one reading would both pass
every other test. `TrimmedKeeps` says what leaves the window; `OffsetTrue` then
follows because all samples left are younger than the disturbance and `Max` of
their values is the true one less the least age. With the flags and counters this is
`ReadingsInvariant`, from which `ReadingsTyped` follows too.

*BrokerMove.* What the files must be depends on how far a task is. `IInv` says
it, step by step (`Progress`): what a task knows of the two files, of the rule in
force and of its own writes at each `pc`, what a failure there may leave behind,
and which screen it can end with; that at most one task runs, in the one dialog
(`OneTask`); and `FilesMatchEntry`, from which a task starts. One lemma per kind of
step carries it over a command that ran, one that failed and one whose script
failed. `Addon` is the part about the add-on: `KeepsLogins` is not inductive,
since what a task is about to save was merged before. It says which batteries rely
on the options (`Uses`, `Lists`), and that a plan under way, ours or theirs, still
is what the merge would give now (`Plans`). From `MovesInvariant` follow
`MovesTyped`, `OutcomesAreTrue`, `FilesMatch` and `LoginsKept`, for any number of
addresses, logins and faults.

*EntryTelemetry.* `NoSecondReader` is about threads nobody owns, so `IInv` says what
an owned thread is doing (`Owner`): it runs unstopped while the check or the
coordinator needs it, and during `stop()` it has been told exactly when `stop()`
is past that line. `Holds` ties a thread's socket to its place in `_session`, and
says that a `stop()` that met no socket, or lost it between the test and the use,
met a thread that is past it or still in its dial. `AgesInvariant` is separate: the
watchdog's timer and the age together never exceed the deadline by more than a
look, and missed polls are the failures counted, unless a poll decoded to
nothing. They give `NoThreadLeftOver`, `StaleShown` and `HeldRecent`; with the types of the
rest (`Counted`, `Session`, `Limits`) they give `TelemetryTyped`, in which the number
of attempts and the reader a stop is of are more than types.

*Windows.* What schedule arithmetic promises is a law about minutes, and the code
works on lists of windows. `PieceShape` and `PiecesOnDay` say which pieces a moved
window leaves on a day, `SortedLists` that the list of a finite set in an order is a
sequence with each element once, `MergedSteps` and `MergedRuns` that joining adjacent
pieces of one power runs the same minutes. `PiecesAreBusy` and `UprightCovers` tie
`Covered`, the reference, to pieces. From these:

* `ShiftMoves`: for every schedule and every number of minutes, a minute runs at a
  power after the shift exactly if the minute that many earlier did before it. The
  minute before a midnight is excepted, on either side: there the code stores 23:59
  for midnight and reads it back by looking at the next day.
* `ShiftedToReal` and `ShiftedToBattery`: the same for the two directions in which
  the code moves schedules, in the real time of a clock that is off by `o`.
* `WrittenRuns` and `RewrittenRuns`: a schedule moved, cut to what registers hold
  (`HeldCovers`: nothing is lost when it is not `Crowded`) and read back runs as asked
  at its offset, and so does what a rewrite at another offset leaves, however many
  offsets it went through before.
* `FormReturns`: a schedule of at most two windows, in order on each day, none
  overnight and no two that overlap on a day, fills the form without an error and
  comes back as it was. The conditions are those under which `schedule_to_form` says that it fits and
  `form_to_schedule` finds no fault; section 5 names what happens outside them.

A list is reached through the set of its indices: where an argument goes along it,
`LeastNatural` gives the first place where the claim would fail. That takes the place
of induction, which the installed provers cannot instantiate.

*ScheduleWriters.* `NobodyLost`: while a call loops and no rebuild moved entries before
the iterator's place, every entry with control before that place was written, and the
end of the table, where new entries go, is not before it. `Listed`, part of `Shape`:
the table has just the entries that are loaded. A visit keeps `NobodyLost` because the
entries it passes have no control (`CallMoves`); a pop because it moves nothing
(`PoppedTyped`); an insertion because it comes behind the place, and a rebuild that
closes no gap before the place leaves what stands there (`LoadsTyped`, `CompactKeeps`,
`SublistStart`). A call that ends without an error has, by its counts, no entry with
control ahead (`NobodyAhead`), so `NobodyPassedOver` follows; `ServiceStays` needs the
phases only.

`RunInv` is about schedules. `RunsAsAsked` is not inductive: it says nothing of the
next rewrite, which starts from the battery's schedule moved back by `applied`. `Kept`
adds that `applied` is one of the offsets the schedule went through, so that the
minutes excepted before a rewrite stay excepted after it. `StepKinds` sorts every step
by what it does to an entry: a write (`WritesKept`, by `WrittenRuns`), a rewrite
(`FollowsKept`, by `RewrittenRuns`), an adoption (`AdoptsKept`), or nothing
(`OthersKept`). The types are needed for these and are part of `RunInv`: that shifted,
cut and form-made schedules are schedules (`ShiftType`, `HeldType`, `FromFormType`)
and that no more windows a day are held than the registers have room for. From
`RunInvariant` follow `WritersTyped` and `BatteriesRunAsAsked`, for any entries,
schedules, offsets and week; `ModeAlone` needs the form's part only.

Only model-checked: the liveness properties (`SettlesOnClock`, `ShowsPromise`,
`ReadsBack`, `EndsConnected`, `EveryMoveEnds`, `StoppedEnds`, `KeepsComingBack`),
since fairness is out of the prover's reach, and the violations. Every invariant and
every safety property of the passing runs, the refinement included, is proved.

## 5. What the checks found

The six violation runs are real disagreements between code and documents; the
traces are short. *Crash*: adopt an offset, see the clock move twice, publish
the rewrite, stop before the save. *Settings*: adopt an offset, turn the option
off, set a schedule in battery time, turn the option on. *Overwritten*: the poll
reads the schedule, the owner sets another, the poll re-writes the first one,
moved. *Clobber*: the poll reads the excess, the owner changes it, the poll
publishes the old one, the owner sets the off-grid reserve. *Undo*: both files
are written, the SSH command that should reboot fails, the move ends as failed,
the redirect stays for the next boot. *Auto*: the unit's daemon writes no log,
`read_latest` fails on both attempts with "no valid frames", and the form says it
cannot connect instead of trying MQTT.

Met while modelling, and left out of the promises or not of this level:

* `MqttReader.stop()` tests `_sock` and then uses it (`mqtt_reader.py:119-121`);
  if the thread clears it between, the `AttributeError` leaves a failed setup or
  an unload in error (`StopCloses`, outcome `raised`).
* The back-off of the reader is reset only after a session that ends without an
  exception, which only `stop()` can bring about: after a few drops every retry
  waits a minute, for good.
* A poll whose frames decode to nothing resets the count of failures and the age
  before it fails (`coordinator.py:74-78`): the grace starts again on old data.
* Two attempts of a dial and a command, 15 s each, and a pause come to 63 s, not
  the 33 s of `transport.py:46`.
* `set_schedule` iterates over `hass.data[DOMAIN].values()` and awaits inside
  (`__init__.py:219-239`). A reload of any entry during the loop pops it and adds it
  again, which leaves the size as it was. If that insertion rebuilds the dictionary,
  the iterator, which keeps its place by number, may pass over an entry that it has
  not visited or find the end at once: the call returns without an error and that
  battery is not written. With two entries A and B, A reloaded three times since the
  start and a fourth time while B is written, A is passed over. Without a rebuild, a
  reload of an entry that was visited already ends the loop with a `RuntimeError`
  after the others were written. A copy of the values would avoid both. No document
  says that the call writes every battery, so this is no finding.
* A schedule shown in real time may have three windows on a day; sent back
  through the service as it is, it is cut to two.
* A start that lands on 23:59 makes a window of no length, and a 23:59 end before
  a same-power 00:00 gains a minute: besides the exception `timeshift.py:14` names,
  the minute before a midnight can be lost or gained in these ways too.
* The form can't be sent with another mode alone if the windows it was filled
  with are overnight or overlap, as a vendor's schedule may.
* A local midnight that passes while Home Assistant is off resets nothing:
  yesterday's sum goes on until the next midnight (`sensor.py:186-201`).
* `merge_addon_options` says a login that is set must match (`local_broker.py:192`),
  but compares the user name only: one with another password is overwritten, also
  when another battery is listed (`local_broker.py:215` and `230`).
* The add-on's options are read at the check and saved by the task: of two
  batteries' moves that overlap, the later save drops the other one's entry.
* A battery moved back to Enertek stays listed in the add-on, so that another one
  with a different user name is refused although nobody relies on the login.
* Moving back without Enertek's host saved or readable keeps the local address in
  the entry although the screen says Home Assistant was switched back.

## 6. Plan, and what is not modelled

Next, in this order: a reload with a control poll of the old coordinator still in
flight (ScheduleSync reloads only with nothing in flight); the duplicate check of the
setup form. Of the proofs: ScheduleSync stands for a shift by adding to `at`;
`WrittenRuns` and `RewrittenRuns` justify that, but no theorem joins the two modules.

Not modelled: that overlap (it needs two control coordinators on one battery);
the derivation and filling of broker fields in the setup form, and its duplicate
check; options that are only stored; register decoding, framing and checksums
(pure, data driven); discovery (no state outlives a scan); entities that show
data unchanged; translations and dashboards.
