# A verification of the linien-multi-device gateway

The gateway (`linien-gateway/app`) keeps one *session* per Red Pitaya running a
Linien server: it connects, polls, streams traces to browsers, locks lasers to
features of a scan, relocks them by itself, reboots boards and diagnoses those
that are away.  It is threads around a few locks, an event loop, and a board
that anybody may write to; what goes wrong in it are orders of steps.  This
directory holds TLA+ models of the parts where that matters, TLC
configurations that check them on small instances, and TLAPS proofs for every
value of the constants.  File names without a directory are in
`linien-gateway/app`; `session.py:1601` is a line of it.

## 1. Inventory

| Part | State | Operations | Talks to |
|---|---|---|---|
| Auto-relock controller, `auto_relock.py` | state, hold timers, cooldown, pending action, attempts, primed retry | `tick`, `complete_action`, `set_config`, `set_enabled` | called under `_state_lock` by the poll thread, the relock worker and requests |
| Device session, `session.py` | client, `connected`, `connecting`, stop event, poll thread, recovery record, wanted diagnosis, boot ids, deferred sweep geometry, settings snapshot | connect, disconnect, reboot, set a parameter, lock, auto-lock, poll | everything below |
| Device recovery, `device_recovery.py` | none: a procedure with phases | `reboot_device` | board over SSH; session through `update_phase` and `cancelled` |
| Auto-lock walk, `session.py` | center-move lock, stamps of the traces, snapshot of the scan | detect, narrow, verify, move and lock, restore | board; operators write the same registers |
| Detectors and planner, `auto_lock_scan.py`, `lock_refinement.py`, `lock_indicator.py`, `plot_processing.py`, `signal_stats.py`, `lock_acceptance.py` | indicator durations; otherwise pure | float arithmetic on traces | called by the poll thread and the walk |
| Lock result writer, `manual_lock_postgres.py` | configuration, bounded queue, schema flag, `active`, worker | configure, test, enqueue, write, stop | PostgreSQL |
| Live stream, `stream.py` | per socket: reliable queue, latest-frame slot, wake event, sender task | register, broadcast, send, drop | session threads schedule broadcasts on the event loop; browser hook reconnects |
| Telemetry manager, `rp_telemetry.py`, and its daemon, `rp-telemetry/src/rp_telemetry.c` | per board: reading, installed, `mutation_seq`, failure counters | poll cycle, install, uninstall, forget | board over TCP and SSH, Influx |
| Diagnosis probe, `diagnosis.py`, `board_diagnostics.py`; event store, `board_event_store.py` | heap of due probes, pending and in-flight keys; boot id history | request, probe, reschedule; note and forget a boot id | sessions, SSH |
| Stores, `device_store.py`, `device_config_store.py`, `group_store.py`, `config.py` | JSON files and a cache; each session holds a Device of its own | load, change, write | sessions and requests |
| Log and PSD stores, `log_store.py`, `psd_store.py` | bounded history, bounded queue per reader | append, broadcast, tail | sessions; web sockets |
| HTTP API, `main.py`; `session_registry.py` | map of sessions, one lock per device | the request handlers | all of the above |
| Web interface, `linien-web`; simulator, `linien-sim`; scripts, images | presentation; a stand-in for a board | | |

What makes it hard, and what each part has to get right:

* **Threads of one session.**  HTTP handlers, reserved connect threads, one poll
  thread per connection, a reboot worker, a boot id worker, a relock worker and
  the shared diagnosis probe work on the same fields under `_lock`,
  `_state_lock`, `_rpyc_lock` and `_center_move_lock`.  A connected session must
  be polled by exactly the thread it names; connecting and rebooting must
  exclude each other; a wanted diagnosis must stay scheduled; a gateway restart
  must not leave a reboot active with nobody behind it.
* **Time.**  The relock controller waits, verifies, cools down and retries on
  the times of the frames it happens to receive.  An episode must start only on
  a sustained loss, end always, and leave nothing behind.
* **A shared actuator.**  The walk, the controller's own sweep, a second request
  and the operators all write the sweep geometry.  A lock must be made on the
  scan its target was detected on, and the operator's scan given back.
* **Traces without a time of acquisition.**  The gateway stamps a trace when it
  reads it, not when the board swept it; a stale trace must not be judged.
* **Bounded queues.**  Rows, frames and statuses are dropped when a consumer is
  slow: what is kept must be in order and the consumer must end up current.
* **Failure.**  SSH, RPyC, PostgreSQL and browsers fail or hang between any two
  steps.

`PROJECT.json` lists each such hazard at its line with the properties that
would show it going wrong, or says why none does yet.

## 2. Modules

| Module | Models | Map to the code |
|---|---|---|
| `AutoRelock` | `auto_relock.py` and the code of `session.py` that drives it | the timers are ages on one clock; each early return of `tick()` is an action (`TickCooling`, `TickTraceSeen`, ...); `poll` and `worker` are where the poll thread and the relock worker are in a device action |
| `RelockEpisode` | what the controller promises | attempts are made one at a time within an episode and never beyond the budget; an episode closes from an attempt |
| `Session` | the life cycle part of `DeviceSession`, `device_recovery.py`, the probe of one device, gateway restarts | one action per section of `_lock` or `_state_lock`; `dialing`, `tear`, `loop`, `stage`, `bootJob`, `probe` are the places of the threads; `held` is the part of the session's Device that matters here, `disk` that of `devices.json`, `past` the older copies requests may bring |
| `LockScan` | `auto_lock_from_scan`, the refinement walk, the deferred geometry, the poll thread that stamps traces, and operators who write, lock, sweep and disconnect at any moment | `pc` and `run` are a mover's place and locals; a section of `_rpyc_lock` is one action; a trace is the geometry it was swept over |
| `LockResultWriter` | `manual_lock_postgres.py` | `at` is where each thread is between the locked sections; a database is known by whether its table has the columns |
| `RowLog` | what `LockResultWriter` promises | rows accepted and rows dealt with, each exactly once and in order, at most the queue and the one in hand outstanding |
| `Stream` | `stream.py`, `stream_device` of `main.py`, `_publish_status` of `session.py`, the reconnecting hook of `linien-web` | a loop step runs from one suspension to the next |
| `Settings` | one restorable parameter: `set_param`, its callback, the poll loop, the snapshot and its replay at connect, what the browsers show | `notices` is the server's backlog for this client, `batch` the part the poll loop is delivering, `cached` the client's own cache; `rpyc` is `_rpyc_lock` |
| `Records` | `device_store.py`, `device_config_store.py`, `group_store.py`, the sessions' copies, the handlers of `main.py` between them | `thread[t]` holds a handler's deep copy; `storeLock` is held across a save's read and write and no longer |
| `Diagnosis` | `diagnosis.py`: scheduler, pool, stages of a probe, verdict | an uptime and an absence are differences of two readings of `now`; `sched` is the device's membership in `_pending` and `_inflight` |
| `BoardEvents` | `board_event_store.py` and those who write to it | a section of the store's lock is one action; `writer` is the one-thread executor with its queue; `disk` may be torn |
| `Telemetry` | `RpTelemetryManager` of `rp_telemetry.py` | the poll coroutine, on-demand reads and operators' threads share one entry; each remembers the `mutation_seq` it captured |
| `TelemetryDaemon` | `rp-telemetry/src/rp_telemetry.c` | one accept loop; sensor discovery is a scan over the names, slot by slot; the response buffer is counted in characters |
| `BoardRepair` | the two repairs of `board_diagnostics.py` | each shell command of the generated scripts is an action; a reset may fall between any two; `disk` is what a reset would find |
| `AutoRelockProofs`, `LockScanProofs`, `DiagnosisProofs`, `BoardEventsProofs`, `RecordsProofs` | proofs about the module each is named for | |
| `SessionProofs` | proofs about `Session` and `Stream` | |
| `PersistenceProofs` | proofs about `LockResultWriter` and `Settings` | |
| `BoardProofs` | proofs about `TelemetryDaemon`, `BoardRepair` and `Telemetry` | |
| `MCAutoRelock`, `MCLockScan`, `MCSession`, `MCStream` | instances for TLC: settings, symmetry, a constraint | |

The modules meet where the code does.  `AutoRelock` takes the outcome of the
sweep and of the relock as inputs; `LockScan` is what happens inside that
relock (its mover `relock`) while `Session` is the connection under both.
`Stream` starts where a session thread has changed its status.  `Session`
carries a diagnosis probe in a few steps, for what it does to a session;
`Diagnosis` is that probe stage by stage against a board that reboots by
itself.  `Diagnosis` infers with the boot id the session remembers in
its Device record (diagnosis.py:716-722), which `Session` follows to the disk;
`BoardEvents` keeps a boot id of its own, and counts reboots with it.  `Settings` follows one parameter through one session
and takes the record that holds the snapshot as given; `Records` is what may
happen to such a record.  `Telemetry` sees of `TelemetryDaemon` an answer or
none.

History variables guard no action; only the properties look at them.  Some carry
what a property compares with: `lossRun`, `restOwed`; `served`, `intent`, `told`;
`opWidth`; `accepted`, `due`; `wanted`; `noted`; `touched`.  The others say that
something has happened which the property names as its exception: `orphan`,
`disturbed` (`AutoRelock`); `orphans`, `stale` (`Session`); `lost`, `crossed`,
`meddled`, `doubt` (`LockScan`); `astray`, `unsaved` (`LockResultWriter`); `doubt`
(`Settings`); `published` (`Stream`); `renamed`, `astray` (`TelemetryDaemon`); `loose`,
`overlooked`, `exposed` (`BoardRepair`).  None of these cuts a behaviour off: what the
code does in the excepted case is in the model, and section 4 shows most of these
cases as counterexamples to the property without its exception.  In `Session` the variables
`served`, `intent` and `told` are kept only when the constant `History` is TRUE: they
multiply the states, and only the properties that mention them need them.  Every
definition with a suffix (`EnterCooldown_NoDeadline`) is a mutant: a plausible bug
of the definition it is named for, put in its place to see that the property
notices.

Where two modules are proved about in one, the second prefixes what both would
call the same: `StreamInit`, `SettingsNext`, `RepairSpec`, `telemetryVars`; in
`Telemetry` also `Reads` (requests under way), `card` (the build on disk) and `Nil`
(Python's `None`).

The type invariants of all modules but `BoardRepair` (which needs none: its
state is a few flags) are proved.  Where section 4 has a wider configuration of a
module, its type invariant is checked there too: the runs are left to properties
that say more.

## 3. What is checked

Every run ends without an error.

| Run | Instance | Shows |
|---|---|---|
| `auto_relock` | three settings, holds of 0-3 units, two attempts; 7,800 states | `RetryNeverLost`: no failed attempt is forgotten. `RestIsHonoured`: no attempt before the rest after the last one is over. `NoSweepDuringRelock`: the two device actions of an attempt exclude each other unless an operator or a reconnect took the attempt away. `ImplementsEpisode`: refinement of `RelockEpisode`. `EpisodeEnds`: every episode ends. |
| `session` | one connection, one reboot, two boots, one reserved connect, boot ids read, whole records saved or swapped by other requests, saves that raise, gateway restarts; a reboot or a boot id worker (`MCSession`); 677,000 states | `RebootingBoardHasNoClient`, `ActiveHasWorker`, `LivePoller`, `WantedIsScheduled`, `KnownBootIsSaved`, `RecoveryEnds` |
| `lock_scan` | two movers, two centers, two widths, one stage, two frames wanted, sweeps fast and slow, settling times long and none, operators and disconnects at any moment; 2.5 million states | `LocksDetectedScan`, `JudgesFreshTraces`, `OperatorGeometryWins`, each with the exceptions it names; `MovesAdvance`: every step of a mover brings its move nearer to its end |
| `lock_result_writer` | two databases, one request beside the worker, three rows, a queue of one, one save of the settings that may raise, a shutdown that may give up; 960,000 states | `ColumnsExist`: a write misses its columns only behind a connection to another database; `ImplementsRowLog`: refinement of `RowLog`; `RowsHandled`: what was accepted is dealt with, or given up by a `stop` whose join ran out |
| `stream` | one tab, two publishing threads, a queue of two, three changes of the status, one frame, two faults; 306,000 states | `SettledIsCurrent`: when all is quiet an open tab shows the newest status, or the one published last; `Converges`: it comes to that |
| `settings` | two writes of the gateway, two of another client, three losses of the connection, the gateway or the board; 1.4 million states | `SettingsSurvive`: what an operator set is replayed after a reboot; `SnapshotAgrees`, `BrowserAgrees`: when nothing is under way the snapshot and the browsers have the board's value, except where the code cannot have heard of it (`doubt` says why) |
| `records` | two devices, one group, two handlers, one write, one save by a session, one crash; 128,000 states | `DevicesKept`: no device disappears but by its deletion; `ConfigTakesEffect`: what a request has stored reaches the session; `GroupsFollowDevices`: groups come to name existing devices only |
| `diagnosis` | two probes, two boots beyond the first, a threshold of two ticks; 2.6 million states | `AbsenceProvesReboot`, `SameIdMeansNoReboot`: the two inferences are sound; `VerdictsInOrder`: a probe never replaces the verdict of a later one |
| `board_events` | a history of two, three calls, two reboots, one crash or failed write; 3.1 million states | `RebootsNotOvercounted`: the timeline never has more reboots than happened; `CleanMeansWritten`: a store that thinks it is saved is |
| `telemetry` | one operator, one on-demand read, a loss after two polls, two probes of the version; 1.25 million states | `LossIsReported`: a sustained loss is reported; `OperatorsWin`: an answer older than an operator's action is dropped; `ShowsTheBoard`: once all is quiet the entry is what the board says |
| `telemetry_daemon` | two IIO devices that come, go and swap names, two clients, a request buffer of four and a response that just does not fit, counters that jump; 580,000 states | `OnlyThePsXadc`: only the sensor of the processing system is read, but for a name that has changed hands since the last scan; `EveryClientIsServed`: a client is answered or hung up on, whatever the one before it drips; `CpuFollowsLoad`: the load figure is refreshed |
| `board_repair` | two requests at once, three in all, two resets, syncs and probes that mislead, scripts that raise or are killed; 1.34 million states | `OkMeansPersistent`: "enabled" is answered only when the next boot keeps its journal; `OnlyResetsStopJournald`: no restart of journald meets a half-written file; `SlcrIsProtected`: the protection of the system registers is on again when no script is inside; each but for what it names |

### Why the bounds are enough

* `AutoRelock`: holds of up to three units against a clock that saturates at
  four let every timer be behind, at and beyond its threshold.  Two settings
  with different budgets, one without a cooldown, and the switched-off one
  cover every reconfiguration in the middle of an episode.
* `Session`: one connection and one reboot in all, before, across or after any
  number of gateway restarts, with a connect reserved beside them.  The constraint
  `OneOrTheOther` leaves out behaviours with both a reboot operation and a boot id
  worker: they meet in nothing but the record they save, and the requests that save
  whole records stand beside each.  Two connections at once are what a stale poll
  thread needs: `SessionTwoConns.cfg`.  Two boots are what a stale boot id needs.
* `LockScan`: two movers contend; two centers and two widths distinguish old, new
  and mixed traces.  One stage either recenters or narrows; `LockScanWide.cfg`
  runs both in a row and finds nothing new.
* `LockResultWriter`: one request and the worker are the two connections that
  overlap; one save moves from a database to another.  Three rows fill a queue of
  one with one in hand, and overflow.
* `Stream`: a queue of two fills, overflows and drains.  The real queue
  holds at least ten messages: its size only matters where it is full, and a snapshot
  (two messages) fits, as in the code.  Two threads and three changes let a status be
  overtaken and an older one be published last; two faults drop a tab twice.
* `Settings`: an echo is taken for another's write, or the other way round, when
  two writes of the gateway and one of another client share a value; two of
  each are more than that.  Three losses are one of each kind, or the same
  three times.
* `Records`: a lost update needs two handlers on one record, or a handler and a
  session's save; a device that nobody has sessions for is the second key.
* `Diagnosis`: a probe overtaken by another is what a second worker is for; a
  reboot before and one during a probe are two boots.  Uptimes below, at and
  above the threshold occur with a clock of two.
* `BoardEvents`: a history of two drops its oldest on the third event; two reboots
  may be counted once, twice or not at all.
* `Telemetry`: two operators' actions, one while a read is under way and one
  after it; one change of the board; a loss of two polls is one below the
  threshold and at it.
* `TelemetryDaemon`: two devices suffice for the wrong one to be found first, for
  the right one to go away, and for two to change names; one client waits behind
  another; a request comes in up to three parts, or never; the buffer is so small
  that the second metric no longer fits.
* `BoardRepair`: two requests may be anywhere in the script at once, the third
  follows one of them; a reset before, in and after each of the steps, and a second
  one on what the first has left.  The proofs cover any number of each.

### Fairness

* `AutoRelock`: frames keep arriving and time passes, and `stop_lock` and
  `auto_lock_from_scan` return or raise.  Without frames the controller is
  frozen, as the code says itself (`AUTO_RELOCK_STREAM_STALL_S`).
* `Session`: each started thread goes on.  A poll thread that is told to stop
  leaves when its call returns.  Nothing is assumed of operators, boards or
  restarts; `RecoveryEnds` rests on the deadlines of `device_recovery.py`.
* `LockScan`: none in the run: `MovesAdvance` is a property of steps.
  `LockScanLive.cfg` draws the conclusion `MovesEnd` for a mover whose thread runs
  (its waits have timeouts); frames need not arrive.
* `LockResultWriter`: the worker thread runs: it waits for the queue with a
  timeout, and a connection attempt is bounded by `connect_timeout`.  It is a daemon
  thread and runs no longer than the process.  A statement that hangs for ever is
  not modelled.
* `Stream`: the event loop runs every ready task, a publishing thread
  goes on, and an open tab reconnects (the hook has no limit).  A half-open
  socket whose sends neither succeed nor fail is not modelled.
* `Records`: a handler that has begun ends; the browsers keep asking for the
  statuses and the groups, which is when the code attaches records and prunes
  groups; somebody repairs a file a crash has cut off.
* `Telemetry`: the poll loop goes round, and a call under way returns (its
  sockets and SSH commands have timeouts).
* `TelemetryDaemon`: the daemon runs (its reads and sends have timeouts), its clock
  ticks, systemd starts it again.  Weak fairness of each is enough: the clients wait
  in a queue.

Operators, frames, boards, browsers and failures have no fairness: they may do
anything, or nothing.

### Deadlock

TLC checks for deadlock in `AutoRelock`, where frames and time never stop.  The
other models have bounded inputs and come to rest when these are used up, so
their configurations turn the check off; what must not stop there is stated
as liveness (`RecoveryEnds`, `MovesEnd`, `RowsHandled`,
`Converges`, `ConfigTakesEffect`, `GroupsFollowDevices`, `ShowsTheBoard`,
`EveryClientIsServed`).

## 4. Further configurations

Not every question is worth asking each time.  These configurations are kept
beside the runs; `tlc -config X.cfg M` runs each on its module `M`.  The first
ask the questions of section 3 of larger or other instances and find nothing:

| Configuration, module | What it adds |
|---|---|
| `SessionTwoConns`, `Session` | a second connection; the type invariant, `RecoveryExcludesConnecting`, `ConnectingHasThread`, `ConnectedForgetsDiagnosis`, `PhasesInOrder` |
| `LockScanWide`, `MCLockScan` | one mover through two stages; the type invariant, `MoverOwnsCenter`, `ScanGivenBack` |
| `LockScanLive`, `LockScan` | one center, weak fairness of the movers: `MovesEnd` |
| `StreamMore`, `MCStream` | two tabs; the type invariant, `NoLostWakeup`, `OpenMeansServed` |

The others show behaviours of the code that somebody reading its comments would
not expect.  Each ends in a counterexample (TLC stops at the first property that
fails: where a configuration is named more than once, comment out the others):

| Configuration, module | Violates | What happens |
|---|---|---|
| `AutoRelockStale`, `MCAutoRelock` | `StaleResultIgnored` | the result of a worker that outlived its attempt is applied to a later one: `complete_action` knows an action by its name only |
| `SessionClaims`, `Session` | `RebootHasWorker` | the first save of a reboot raises: the record says that it is under way, and no worker was started |
| `SessionClaims`, `Session` | `KnownBootIsAlwaysSaved` | a request puts its older copy of the Device in the place of the one with the new boot id, or the worker's save fails |
| `SessionClaims`, `Session` | `KnownBootWasServed` | the boot id worker stores the id of a boot nobody connected to |
| `SessionClaims`, `Session` | `IntentionalDisconnectIsQuiet` | a probe in flight stores its result after the disconnect |
| `SessionClaims`, `Session` | `ClearedStaysCleared` | the record of a finished reboot that a connection cleared comes back with a restart: saving the cleared one failed |
| `SessionClaims`, `Session` | `DisconnectSticks` | a disconnect before the reserved connect thread's first step is undone by it |
| `SessionClaims`, `Session` | `TornDownPollersStop` | a poll thread that outlives the one-second join of `disconnect` is revived by the next `connect`, which clears the event they share |
| `LockScanClaims`, `MCLockScan` | `SecondFramePostDatesMove` | with a sweep longer than a second the poll loop stamps the same trace twice, and a walk takes it for two; with a `settle_ms` of 0 the two frames are a stale one and a mixed one |
| `LockScanClaims`, `MCLockScan` | `OperatorAlwaysWins` | an operator's write between the lock and the deferral is overridden at the next sweep |
| `LockScanClaims`, `MCLockScan` | `LockedPointUntouched` | `start_lock` does not take the center-move lock, so a walk writes the sweep center of a board that has just been locked |
| `LockScanClaims`, `MCLockScan` | `DetectsOnOwnGeometry` | the first detection reads a trace older than the geometry it is judged against |
| `LockResultWriterSchema`, `LockResultWriter` | `SchemaReadyIsTrue` | a write that was connected when the operator changed the database raises the schema flag of the new one |
| `StreamWriters`, `MCStream` | `SettledIsAlwaysCurrent` | two threads compute their status in one order and publish it in the other |
| `SettingsClaims`, `Settings` | `DefaultsNotAdopted` | the registration after a replay adopts the value the client cached before it, a default the board came up with |
| `SettingsClaims`, `Settings` | `EarlyWritesAgree` | a `set_param` that falls into the registration reaches the board, and the registration puts the value cached before it into the snapshot |
| `RecordsClaims`, `Records` | `DeletedStaysDeleted` | a save of a record copied before its deletion adds the device again |
| `RecordsClaims`, `Records` | `MembersStay` | a listing of the groups that took its list of the devices before another was created drops the new one from its group again |
| `DiagnosisStaleId`, `Diagnosis` | `OtherIdMeansReboot` | the id stored last is of an earlier connection: the verdict is a reboot although the board has not rebooted since the connection that was lost |
| `BoardEventsClaims`, `BoardEvents` | `ClosedMeansCurrent` | an event recorded after the last flush of a shutdown stays in memory |
| `BoardEventsClaims`, `BoardEvents` | `RequestedRebootsExcluded` | a probe notes the new boot's id before the request that asked for the reboot has made the store forget the old one, and counts it as one nobody asked for |
| `TelemetryClaims`, `Telemetry` | `SettledBuildWasNamed`, `MetricsShareSample`, `InstalledIsRecorded` | a settled build is replaced by the one on the disk, which the running daemon did not name; after a start the metrics stand without their temperature; a read that a deletion overtook shows telemetry as installed |
| `TelemetryDaemonRenumbered`, `TelemetryDaemon` | `OnlyThePsXadcEver` | the cached path comes to mean the sensor of the FPGA when the devices are renumbered between two requests |
| `BoardRepairClaims`, `BoardRepair` | `SlcrIsAlwaysProtected` | the script is killed between unlocking and locking: its `finally` does not run |
| `BoardRepairClaims`, `BoardRepair` | `ScratchIsPreserved` | writing back the causes writes zeros over the scratch byte |
| `BoardRepairClaims`, `BoardRepair` | `ReadingIsKept` | a reset after the erasing and before the answer: the reading is in no timeline |

## 5. What is proved

**`AutoRelockProofs`**, for every set of settings, clock bound and budget that
satisfies `SettingsAssumption` (thresholds within the clock, budgets within
`MaxAttempts`) and with `None` outside the values it stands beside.  The
inductive invariant `IInv` is the type invariant, `RetryNeverLost`,
`ClosedEpisodeLeavesNothing`, `WaitsAreTimed` and `Bookkeeping`.  The first
four are not inductive by themselves: that no attempt is lost needs to know that
an unspent budget means no pending action (`NothingSpent`) and that a pending
relock in `lost_pending` is primed (`LostPendingShape`); the action properties
need each hold to lie behind the run of frames that backs it (`HoldIsBacked`,
`VerifyIsBacked`, `RestIsTimed`).  There is one lemma per early return of
`tick()` and per other action.  From it follow the invariants and the action
property of the run, two more (`EpisodeNeedsSustainedLoss`,
`SuccessNeedsSustainedLock`), `NoSweepDuringRelock` (with `WorkerOwnsAttempt`:
an undisturbed worker's attempt is still pending on a trace that has been seen),
and `Refinement`: every step is a step of `RelockEpisode` or a stutter.

**`SessionProofs`**, first part (`Session`), for every number of connections, reboots, boots, reserved
threads and gateway lives.  The invariant `SessionInv` is the type invariant and
two groups of facts.  `ConnectInv` says who may hold the reservation and the
connection: `RecoveryExcludesConnecting` and `ConnectingHasThread` are not
inductive without knowing that a session is connected exactly when it has a
client, without a reservation then, and that the place of the thread that
connects tells which of the two holds.  `RebootInv` ties each reboot worker to the record: operations are numbered
in the order they are accepted, the record is of the last one, and a worker that
runs is in the phase it published; hence `RebootingBoardHasNoClient`,
`ActiveHasWorker` and `PhasesInOrder`.  An operation whose first save raised is in
`orphans`: it has a record and no worker, which `ActiveHasWorker` and
`WantedIsScheduled` except and nothing else does.  Three duties have invariants of
their own: `LivePoller`, `KnownBootIsSaved` and `WantedIsScheduled`, the last with
`CallersAreFree` (a poll thread inside a call is not tearing the session down) and
`RecoveryWantsNone` (a reboot wants no diagnosis).  `KnownBootIsSaved` rests on
`BootIdKept`: but for a save under way, and unless a save failed or an older
copy took the place of the record (`stale`), memory, the session's Device and the file
agree on the id, whichever requests save or replace the whole record.  Frame lemmas say once which
actions touch which group of variables.

**`SessionProofs`**, second part (`Stream`), for every set of tabs, queue size from
two, number of publishing threads, statuses, frames and faults.  `NoLostWakeup` and
`OpenMeansServed` are inductive with the types (`Connected`).  For `SettledIsCurrent`:
once nobody is publishing, the last status among the scheduled broadcasts is the one
published last, or none is scheduled and each tab that is served has that one, or
the current one if a snapshot gave it to it since, last in its queue, in the hands of
its sender or on the screen (`CurrentIsComing`).  Two threads publish in either
order, so the one published last may be the older (`StreamWriters.cfg`).
Lemmas about the last status of a sequence (`StatusIsLast`, `HeadGone`) carry it
through appending and taking.

**`PersistenceProofs`**, first part (`LockResultWriter`), for every set of databases and requests, every
queue size, row and save bound.  `IInv` is the type invariant with the order of
the rows (`accepted = handled \o in hand \o queue`), the worker's shutdown
account, and the facts about who may be connected that `ActiveIsEnabled` and
`ColumnsExist` need.  `ColumnsExist` is about any number of connections at once: a
write misses its columns only if its connection goes to a database that is no
longer the configured one, or the flag was raised by such a connection (`astray`).
`ActiveIsEnabled` excepts a configuration whose save raised (`unsaved`): the code has
replaced it by then and not yet cleared `active`.
`WriterImplementsRowLog` proves the refinement of `RowLog` from `IInv`: only a put
accepts a row, and it finds room; only the end of a row's handling deals with one,
and by `RowsInOrder` the row in hand is the next in the log; every other step of
the operators, the worker and the databases stutters.

**`PersistenceProofs`**, second part (`Settings`), for every set of values and
any number of writes, changes by others, drops and restarts, without a
hypothesis.  `SettingsInv` is `Known`, `Tracks` and `Survives`.  `Known` holds
always: the types, who holds the connection (`OneHolder`: the poller, the setter
or the connect thread, never two), that what the client has cached and will be
told ends in what the board holds, with the browsers showing what the client has
(`Follows`), and that a setter about to record its write has its value among the
notices to come (`WriteKnown`).  `Tracks` is what each phase of a connection knows
of the snapshot, unless `doubt` says that a write fell into the making of the
connection; `Survives` is the same for what somebody wanted, while there is no
`doubt` at all.  A loss of the connection causes doubt only when a write was
running, or when the snapshot did not have the wanted value, or would lose it to an
older change that is still delivered (`Safe`): an echo of a replay, or of a setting
already recorded, may be lost without it.  `SnapshotAgrees`, `BrowserAgrees` and
`SettingsSurvive` are the cases in which nothing is under way.

**`BoardProofs`**, first part (`TelemetryDaemon`), for every set of device names and
clients and every buffer size.  `ResponseFits`: an answer never outgrows its
buffer, its newline and terminator included, whatever the metrics are; it needs
that the text written so far and what is still to be appended are accounted for
at each stage.  `OnlyThePsXadc` (invariant `SafeInv`): a cached path that no scan is
behind is one of those that have come to mean another device since (`renamed`), and
only a read by one of these goes astray.  `DaemonTypeCorrect` holds wherever the
counters of `/proc/stat` jump, below the baseline or beyond the total: the load figure
is a percentage or none because of the clamps of `cpu_percent`, which `Share`
models (`ShareIsPercent`).

**`BoardProofs`**, second part (`BoardRepair`), for every number of requests, at once
or one after the other, and of resets.  `SlcrIsProtected` (invariant `SlcrInv`): the
protection is off only while some script is between unlocking and locking, one
that raises included, or after one was killed there (`exposed`).
`OkMeansPersistent` and `OnlyResetsStopJournald` (invariant `JournalInv`): what each
place of a script knows of the files it has left behind, although another script
may truncate and rewrite them, and syncs may fail unseen.  `loose` is who has
rewritten or cut off a file since it was last whole on the disk; a place past the
verification of a file knows it whole, or loose by another request
(`LooseOrWhole`); an answer of "enabled" lists what was loose or wrongly probed
(`overlooked`), and without such an entry the board keeps its journal.

**`BoardProofs`**, third part (`Telemetry`), for every number of operators,
requests, actions and changes of the board, with deletions.  `OperatorsWin` rests
on `SeqDated`: a reader under way carries the `mutation_seq` of its entry, or an
older one if an operator has overtaken it; a deletion starts the numbers again
and takes all readers under way out of the account.  `LossIsReported` rests on
`LossBacked`, which says what the counters mean while the poll is between counting a
failure and reporting it: they are those it took with it and the report it is
about to make settles them, or they have been reset.

**`LockScanProofs`**, for every set of movers, centers and widths, any number of
stages and frames.  `ScanInv` names the owner of the scan: a mover inside
`auto_lock_from_scan` holds the center (`MoverOwnsCenter`), moves only a board
it is connected to and that is not locked, the width in the deferred geometry
belongs to a locked board and is the operator's, and in the walk the written
geometry is the snapshot's or marked to be given back (`WidthKept`,
`WalkIsMarked`, `StartsFromScan`).  `LocksDetectedScan`, `OperatorGeometryWins` and
`ScanGivenBack` follow.  Operators may act at any moment: what they do inside a move
is in `meddled` (the geometry was written since the mover last knew it) and `crossed`
(a width was chosen, or a sweep started, before the deferral), and each property
excepts only what it must (`MeddlersCross` relates the two).

`FreshInv` follows a trace through the board and the poll thread: which of the frames
that are stamped after a write were swept wholly after it; hence
`JudgesFreshTraces`, for every settling time, 0 included, and every rate of the
poll thread.  Its exception `doubt` is set where a wait begins with both a frame of
before the write to be taken and the cut sweep still running (`Clear`), and where,
while it counts, a frame is read twice, an operator writes or the connection ends.
It needs `FramesWanted >= 2`, which is what the code waits for
(`VERIFY_TRACE_FRAMES = 2`): one frame may have been swept across the write.

`MovesAdvanceHolds`: a move has a rank made of its stages, the frames it still
counts, and the retry of its first final detection; every step of the mover
lowers it and no other step raises it.

**`DiagnosisProofs`**, for every clock, number of boots, pool of workers and
number of probes.  `DiagnosisInv` is the type invariant and what the dates mean:
a session was last served by a boot no later than the board's, and if it is the
board's the board came up before that connection; each stage of a probe carries
readings that bear the same relation to the board (`ConnectionDated`,
`StagesSound`); a device has one probe at a time and verdicts are numbered by
their probes (`OneProbe`, `VerdictsNumbered`).  Hence `AbsenceProvesReboot` and
`VerdictsInOrder`, and `UnreadableWasTried` because the gate of the register and
the verdict ask the same question.  `SameIdMeansNoReboot` is proved under
`PromptDrop`: a board that is lost is noticed before it is back.  The gateway
polls several times a second and a boot takes much longer; that ratio is the
board's, so it is an assumption and not a lemma.

**`BoardEventsProofs`**, for every length of the history and number of calls,
reboots, failed and torn writes.  `WrittenInv`: when the store is clean and no
snapshot was handed over out of order, the newest snapshot is either in the
hand of one thread, which the older ones cannot overtake, or the last in the
writer's queue, or the one being written, or on disk.  It needs that only a
store whose writer is gone writes by itself (`WriterWrites`).  `CleanMeansWritten`
is its case with nobody at work.

`RebootsNotOvercounted`, in the same module, needs an account of every history there
is: the one in memory, the snapshots in hands and in the queue, the one being
written and the one on disk, since a restart may bring any of them back.
`Accounted` says of each of them that what it has counted is covered by the
reboots that nobody asked for, and that a boot id that may still be compared with
was followed by no reboot that was asked for (`RebootForgets`, `Backed`,
`Charged`).  The count is the cardinality of the positions in the history that
are detections, so that appending and dropping the oldest are facts about finite
sets and need no induction.

**`RecordsProofs`**, for every set of devices, groups, requests and values, and
any number of writes, saves and crashes.  `RecordsInv`: a save is one section of the
store lock, so that what a thread about to write has read is what the file
still holds (`SaveIsOneSection`), and each thread has the work its place calls for
(`Shapes`).  `DevicesKept` follows: a write changes one record of the file.

Every invariant, every action property and both refinements the runs check are
theorems.  Checked by TLC only: the liveness properties (`EpisodeEnds`, `RecoveryEnds`,
`MovesEnd` by `LockScanLive.cfg`, `RowsHandled`, `Converges`, `ShowsTheBoard`, `EveryClientIsServed`,
`CpuFollowsLoad`, `ConfigTakesEffect`, `GroupsFollowDevices`): liveness under
fairness is beyond the prover.

## 6. What is not modelled

* Detection, planning, indicator and PSD arithmetic: floats over arrays.  In
  `LockScan` what a detector answers is a choice among the answers the code
  tells apart; in `AutoRelock` the indicator's verdict is an input.
* The log and PSD stores: histories with drop-oldest queues; the Influx writer
  and the read-change-save of its logging state.
* Logging, wording, formatting, serialization: no state of the system depends
  on them.  `Records` reads no more of a record than its host and one block.
* A cancellation of a reboot whose save raises while the device is being deleted,
  and copies of a deleted device in a session: `Session` ends with the deletion, and
  `Records` follows the record.
* A start, stop or restart of the telemetry daemon that takes effect although its
  reply is lost is not an outcome of the operator's action in `Telemetry` but that
  of a failed one with a change of the board beside it.
* Shutdown of all sessions at once; the read-only board report and its parsing.
* The web interface except for its reconnecting stream, the simulator, the
  scripts and the images.

## 7. Plan

Next, most important first:

1. Proofs: a store of snapshots as an abstract specification of `BoardEvents` and
   `Records`, and their refinement of it.
2. Composition: `Session` with `Stream` (what a tab shows of a connection),
   `AutoRelock` with `LockScan`, `Diagnosis` with `BoardEvents`.
3. `LogFeed`: history and drop-oldest fan-out of `log_store.py` and
   `psd_store.py`; the logging state shared by handlers and the logging thread, whose
   `params_configured` follows from any "params" key (`session.py:1119`, `:1313`).
4. `LockIndicator`: hysteresis with clamped frame intervals.  `LockRefinement`:
   stage widths over scaled integers against their bounds.
