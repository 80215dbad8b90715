------------------------------ MODULE Session ------------------------------
(***************************************************************************)
(* The life of one device session (linien-gateway/app/session.py,          *)
(* DeviceSession): connecting, polling, tearing down, rebooting the board, *)
(* diagnosing it while it is away, and remembering its boot id.            *)
(*                                                                         *)
(* Threads.  HTTP handlers, one at a time (session_registry.lock_for);     *)
(* connect threads, reserved by connect_async; one poll thread per         *)
(* successful connection; one reboot worker per operation; one boot id     *)
(* worker per connection; the shared diagnosis probe.                      *)
(*                                                                         *)
(* Locks.  _lock is an RLock.  connect() holds it from start to finish, so *)
(* it is taken whenever dialing # "no"; every other holder keeps it for a  *)
(* single step, whose guard is LockFree.  _state_lock sections are single  *)
(* steps.  Readers that take no lock run between the steps of a connect.   *)
(***************************************************************************)
EXTENDS Naturals

CONSTANTS
    MaxConns,   \* bound on successful connections
    MaxOps,     \* bound on reboot operations
    MaxBoots,   \* bound on boots of the board
    MaxSpawned, \* bound on connect threads waiting for _lock
    Readable,   \* the boots in which the boot id worker's SSH read may be answered
    History     \* whether the history variables, which cost states, are kept

ASSUME BoundsAssumption ==
    /\ MaxConns \in Nat /\ MaxOps \in Nat
    /\ MaxBoots \in Nat \ {0} /\ MaxSpawned \in Nat
    /\ Readable \subseteq 1..MaxBoots /\ History \in BOOLEAN

Conns == 1..MaxConns   \* a connection, its poll thread and its boot id worker
Ops   == 1..MaxOps     \* an operation id and its worker
Boots == 1..MaxBoots   \* a kernel boot id
None  == 0

\* Threads that run _reset_connection_state without holding _lock on entry
Http      == <<"http", 0>>
Poll(c)   == <<"poll", c>>
Reboot(w) == <<"reboot", w>>
Threads   == {Http} \cup ({"poll"} \X Conns) \cup ({"reboot"} \X Ops)

Terminal == {"completed", "failed", "cancelled"}
Phases   == {"queued", "dispatching", "waiting_for_boot", "host_online"} \cup Terminal
Idle     == [op |-> None, phase |-> "cancelled"]  \* _recovery is None

\* What a gateway that starts from a stored recovery makes of it: an unfinished
\* one has failed.  The blocks kept in a Device are told apart no further.
Reloaded(r) == IF r.phase \in Terminal THEN r ELSE [r EXCEPT !.phase = "failed"]
Endings     == [op : Ops \cup {None}, phase : Terminal]
Records     == [rec : Endings, boot : Boots \cup {None}]
Blank       == [rec |-> Idle, boot |-> None]

VARIABLES
    \* guarded by _lock
    client, connected, connecting, stop, pollThread,
    dialing,    \* where the connect thread that holds _lock is, or "no"
    spawned,    \* connect threads reserved by connect_async, not yet running
    conns,      \* connections made so far
    \* teardown and polling
    tear,       \* where each thread is in _reset_connection_state
    loop,       \* each poll thread's place in _poll_loop
    \* recovery
    recovery, cancel, removed, ops,
    stage,      \* each reboot worker's place in reboot_device
    prevBoot,   \* the boot id each worker read before rebooting
    \* diagnosis
    wants, diagnosed, probe,
    \* the board and what is known of it
    boot, lastBoot,
    held,       \* the recovery and boot id blocks of the session's Device
    disk,       \* those in devices.json
    past,       \* those a request may hold a copy of: get_device comes before any lock
    bootJob,    \* each boot id worker's place
    bootRead,   \* the id it read
    \* history, read only by the properties
    orphans,    \* the operations whose first save raised: no worker was started
    stale,      \* a save of the boot id failed, or an older copy took its place
    served,     \* the boots the gateway has connected to
    intent,     \* what the last HTTP request asked for: connect or disconnect
    told        \* poll threads a disconnect took down

conVars  == <<client, connected, connecting, stop, pollThread>>
recVars  == <<recovery, cancel, removed, ops>>
workers  == <<stage, prevBoot>>
diagVars == <<wants, diagnosed, probe>>
store    == <<held, disk, past, stale>>
idVars   == <<lastBoot, bootJob, bootRead>>
bootVars == <<idVars, store>>
history  == <<served, intent, told>>
vars == <<conVars, dialing, spawned, conns, tear, loop, recVars, workers,
          diagVars, boot, bootVars, orphans, history>>

\* A history variable's next value.
Kept(new, old) == IF History THEN new ELSE old

LockFree == dialing = "no"
Active   == recovery.phase \notin Terminal
HttpFree == tear[Http] = "none" /\ ~removed

Init ==
    /\ client = None /\ connected = FALSE /\ connecting = FALSE
    /\ stop = FALSE /\ pollThread = None
    /\ dialing = "no" /\ spawned = 0 /\ conns = 0
    /\ tear = [t \in Threads |-> "none"]
    /\ loop = [c \in Conns |-> "off"]
    /\ recovery = Idle /\ cancel = FALSE /\ removed = FALSE /\ ops = 0
    /\ stage = [w \in Ops |-> "off"] /\ prevBoot = [w \in Ops |-> None]
    /\ wants = FALSE /\ diagnosed = FALSE /\ probe = "idle"
    /\ boot = 1 /\ lastBoot = None
    /\ held = Blank /\ disk = Blank /\ past = {Blank} /\ stale = FALSE /\ orphans = {}
    /\ bootJob = [c \in Conns |-> "off"] /\ bootRead = [c \in Conns |-> None]
    /\ served = {} /\ intent = "none" /\ told = {}

-----------------------------------------------------------------------------
(* Shared steps.                                                           *)

Disconnected ==
    /\ client' = None /\ connected' = FALSE /\ connecting' = FALSE
    /\ pollThread' = None

\* The part of _reset_connection_state that runs under _lock.
DropConnection == Disconnected /\ stop' = TRUE

\* request_diagnosis_probe, and the scheduler's deduplicating request().
RequestProbe ==
    IF Active
      THEN UNCHANGED diagVars
      ELSE /\ wants' = TRUE
           /\ probe' = IF probe = "idle" THEN "due" ELSE probe
           /\ UNCHANGED diagnosed

ClearDiagnosis == wants' = FALSE /\ diagnosed' = FALSE /\ UNCHANGED probe

\* The session's Device becomes h and devices.json d; the boot id is at risk from
\* the moment "lost" names until both hold it again.
Stores(h, d, lost) ==
    /\ held' = h /\ disk' = d /\ past' = past \cup {d}
    /\ stale' = ((stale \/ lost) /\ ~(h.boot = lastBoot /\ d.boot = lastBoot))

\* _persist_recovery_locked: a removed device is not saved; a save that fails
\* raises in the caller.
PersistRecovery(r, saved) ==
    IF removed THEN saved /\ UNCHANGED store
               ELSE LET h == [held EXCEPT !.rec = Reloaded(r)]
                    IN Stores(h, IF saved THEN h ELSE disk, FALSE)

Accepts(w) == recovery.op = w /\ Active /\ ~cancel /\ ~removed

\* _set_recovery_phase: the record in memory first, then the save.
SetPhase(w, phase, saved) ==
    IF Accepts(w)
      THEN /\ recovery' = [recovery EXCEPT !.phase = phase]
           /\ PersistRecovery(recovery', saved)
      ELSE saved /\ UNCHANGED <<recovery, store>>

\* Lock section of a teardown by thread t.
ResetLocked(t) ==
    /\ tear[t] = "reset"
    /\ LockFree
    /\ DropConnection
    /\ tear' = [tear EXCEPT ![t] = "closing"]
    /\ intent' = IF t = Http THEN Kept("disconnect", intent) ELSE intent
    /\ told' = IF t = Http THEN Kept(told \cup ({pollThread} \ {None}), told) ELSE told
    /\ UNCHANGED <<dialing, spawned, conns, loop, recVars, workers, diagVars,
                   boot, bootVars, orphans, served>>

\* The rest of it: the client is closed and the old poll thread joined for at
\* most a second, which may run out, so the join is no guard; then the
\* diagnosis is requested by a poll thread and cleared by the others.
Settle(t) ==
    /\ tear[t] = "closing"
    /\ tear' = [tear EXCEPT ![t] = "none"]
    /\ IF t[1] = "poll" THEN RequestProbe ELSE ClearDiagnosis
    /\ UNCHANGED <<conVars, dialing, spawned, conns, loop, recVars, workers,
                   boot, bootVars, orphans, history>>

-----------------------------------------------------------------------------
(* Connecting.                                                             *)

ConnectAsync ==
    /\ HttpFree /\ LockFree /\ ~Active /\ ~connected /\ ~connecting
    /\ spawned < MaxSpawned
    /\ connecting' = TRUE
    /\ spawned' = spawned + 1
    /\ intent' = Kept("connect", intent)
    /\ UNCHANGED <<client, connected, stop, pollThread, dialing, conns, tear, loop,
                   recVars, workers, diagVars, boot, bootVars, orphans, served, told>>

\* connect(reserved=True): a recovery or a finished connect came first.
ConnectRefused ==
    /\ spawned > 0 /\ LockFree
    /\ Active \/ connected
    /\ spawned' = spawned - 1
    /\ connecting' = IF Active THEN FALSE ELSE connecting
    /\ UNCHANGED <<client, connected, stop, pollThread, dialing, conns, tear, loop,
                   recVars, workers, diagVars, boot, bootVars, orphans, history>>

\* Mutant: connect does not look for a running recovery again.
ConnectBegin_IgnoresRecovery ==
    /\ spawned > 0 /\ LockFree /\ ~connected
    /\ spawned' = spawned - 1
    /\ connecting' = TRUE
    /\ dialing' = "dial"
    /\ UNCHANGED <<client, connected, stop, pollThread, conns, tear, loop, recVars,
                   workers, diagVars, boot, bootVars, orphans, history>>

ConnectBegin ==
    /\ spawned > 0 /\ LockFree /\ ~Active /\ ~connected
    /\ spawned' = spawned - 1
    /\ connecting' = TRUE
    /\ dialing' = "dial"
    /\ UNCHANGED <<client, connected, stop, pollThread, conns, tear, loop, recVars,
                   workers, diagVars, boot, bootVars, orphans, history>>

\* The server answered; the session is flagged connected.
ConnectUp ==
    /\ dialing = "dial" /\ conns < MaxConns
    /\ conns' = conns + 1
    /\ client' = conns + 1
    /\ connected' = TRUE /\ connecting' = FALSE
    /\ dialing' = "clear"
    /\ served' = Kept(served \cup {boot}, served)
    /\ UNCHANGED <<stop, pollThread, spawned, tear, loop, recVars, workers,
                   diagVars, boot, bootVars, orphans, intent, told>>

\* _clear_finished_recovery_locked: a run still in progress owns the record.
ClearedRecovery == IF Active THEN recovery ELSE Idle

WithoutRecord   == [held EXCEPT !.rec = IF Active \/ recovery = Idle THEN @ ELSE Idle]

\* The _state_lock section, the record saved without a finished recovery and
\* with the boot id known, and the boot id worker.
ConnectClears ==
    /\ dialing = "clear"
    /\ dialing' = "start"
    /\ ClearDiagnosis
    /\ recovery' = ClearedRecovery
    /\ LET h == [WithoutRecord EXCEPT !.boot = lastBoot]
       IN IF removed THEN UNCHANGED store ELSE Stores(h, h, FALSE)
    /\ bootJob' = [bootJob EXCEPT ![client] = IF Readable # {} THEN "reading" ELSE "off"]
    /\ UNCHANGED <<conVars, spawned, conns, tear, loop, cancel, removed, ops,
                   workers, boot, lastBoot, bootRead, orphans, history>>

\* One of the two saves raised: that of the cleared recovery, or the next one.
ConnectUnsaved ==
    /\ dialing = "clear" /\ ~removed
    /\ dialing' = "raised"
    /\ ClearDiagnosis
    /\ recovery' = ClearedRecovery
    /\ \/ WithoutRecord # held /\ Stores(WithoutRecord, disk, FALSE)
       \/ Stores([WithoutRecord EXCEPT !.boot = lastBoot],
                 IF ClearedRecovery = recovery THEN disk ELSE WithoutRecord, FALSE)
    /\ UNCHANGED <<conVars, spawned, conns, tear, loop, cancel, removed, ops,
                   workers, boot, idVars, orphans, history>>

\* Mutant: the stop event of the previous connection stays set.
ConnectStart_StopStays ==
    /\ dialing = "start"
    /\ dialing' = "no"
    /\ pollThread' = client
    /\ loop' = [loop EXCEPT ![client] = "loop"]
    /\ UNCHANGED <<client, connected, connecting, stop, spawned, conns, tear,
                   recVars, workers, diagVars, boot, bootVars, orphans, history>>

\* Callbacks registered; the poll thread starts.
ConnectStart ==
    /\ dialing = "start"
    /\ dialing' = "no"
    /\ stop' = FALSE
    /\ pollThread' = client
    /\ loop' = [loop EXCEPT ![client] = "loop"]
    /\ UNCHANGED <<client, connected, connecting, spawned, conns, tear,
                   recVars, workers, diagVars, boot, bootVars, orphans, history>>

\* Dialing, saving or registering raised: the reset re-enters _lock.
ConnectFails ==
    /\ dialing \in {"dial", "raised", "start"}
    /\ DropConnection
    /\ dialing' = "failed"
    /\ UNCHANGED <<spawned, conns, tear, loop, recVars, workers, diagVars,
                   boot, bootVars, orphans, history>>

ConnectFailed ==
    /\ dialing = "failed"
    /\ dialing' = "no"
    /\ RequestProbe
    /\ UNCHANGED <<conVars, spawned, conns, tear, loop, recVars, workers,
                   boot, bootVars, orphans, history>>

-----------------------------------------------------------------------------
(* Disconnecting, removing, restarting.                                    *)

\* A relock that is moving the centre is waited for, but not for long: no guard.
Disconnect ==
    /\ HttpFree /\ ~Active
    /\ tear' = [tear EXCEPT ![Http] = "reset"]
    /\ UNCHANGED <<conVars, dialing, spawned, conns, loop, recVars, workers,
                   diagVars, boot, bootVars, orphans, history>>

\* cancel_recovery(removed, wait): the device is marked removed after the save.
CancelRecovery ==
    /\ cancel' = TRUE /\ removed' = TRUE
    /\ IF Active THEN /\ recovery' = [recovery EXCEPT !.phase = "cancelled"]
                      /\ PersistRecovery(recovery', TRUE)
                 ELSE UNCHANGED <<recovery, store>>

\* DELETE /devices/{key}: the recovery is cancelled, then disconnect.
\* The middleware looked for a recovery before the request waited for the
\* device's locks, so one may be running by now; the wait for its worker is
\* bounded, so it is no guard.
Delete ==
    /\ HttpFree
    /\ CancelRecovery
    /\ tear' = [tear EXCEPT ![Http] = "reset"]
    /\ UNCHANGED <<conVars, dialing, spawned, conns, loop, ops, workers,
                   diagVars, boot, idVars, orphans, history>>

\* What a new process finds in devices.json is what its session holds.
ReadsDisk ==
    /\ lastBoot' = disk.boot
    /\ held' = disk /\ past' = {disk} /\ stale' = FALSE
    /\ UNCHANGED disk

\* Mutant: the record of an unfinished reboot is restored as it was.
Restart_Resumes ==
    /\ ~removed
    /\ Disconnected /\ stop' = FALSE
    /\ dialing' = "no" /\ spawned' = 0
    /\ tear' = [t \in Threads |-> "none"]
    /\ loop' = [c \in Conns |-> "off"]
    /\ recovery' = IF Active THEN recovery ELSE disk.rec
    /\ cancel' = FALSE
    /\ stage' = [w \in Ops |-> "off"]
    /\ wants' = FALSE /\ diagnosed' = FALSE /\ probe' = "idle"
    /\ ReadsDisk
    /\ bootJob' = [c \in Conns |-> "off"]
    /\ intent' = Kept("none", intent)
    /\ UNCHANGED <<conns, removed, ops, prevBoot, boot, bootRead, orphans,
                   served, told>>

\* The gateway process dies and comes back: every thread is gone, the
\* recovery record and the boot id are read from devices.json.
Restart ==
    /\ ~removed
    /\ Disconnected /\ stop' = FALSE
    /\ dialing' = "no" /\ spawned' = 0
    /\ tear' = [t \in Threads |-> "none"]
    /\ loop' = [c \in Conns |-> "off"]
    /\ recovery' = disk.rec
    /\ cancel' = FALSE
    /\ stage' = [w \in Ops |-> "off"]
    /\ wants' = FALSE /\ diagnosed' = FALSE /\ probe' = "idle"
    /\ ReadsDisk
    /\ bootJob' = [c \in Conns |-> "off"]
    /\ intent' = Kept("none", intent)
    /\ UNCHANGED <<conns, removed, ops, prevBoot, boot, bootRead, orphans,
                   served, told>>

-----------------------------------------------------------------------------
(* Polling.                                                                *)

\* check_for_changed_parameters on whatever client the session has now
PollCall(c) ==
    /\ loop[c] = "loop" /\ tear[Poll(c)] = "none" /\ ~stop /\ client # None
    /\ loop' = [loop EXCEPT ![c] = "calling"]
    /\ UNCHANGED <<conVars, dialing, spawned, conns, tear, recVars, workers,
                   diagVars, boot, bootVars, orphans, history>>

PollOk(c) ==
    /\ loop[c] = "calling"
    /\ loop' = [loop EXCEPT ![c] = "loop"]
    /\ UNCHANGED <<conVars, dialing, spawned, conns, tear, recVars, workers,
                   diagVars, boot, bootVars, orphans, history>>

\* The call raised; _handle_poll_failure tears the session down and, as it
\* does not leave the loop, the loop condition is evaluated again.
PollFails(c) ==
    /\ loop[c] = "calling"
    /\ loop' = [loop EXCEPT ![c] = "loop"]
    /\ tear' = [tear EXCEPT ![Poll(c)] = "reset"]
    /\ UNCHANGED <<conVars, dialing, spawned, conns, recVars, workers,
                   diagVars, boot, bootVars, orphans, history>>

PollExit(c) ==
    /\ loop[c] = "loop" /\ tear[Poll(c)] = "none" /\ stop
    /\ loop' = [loop EXCEPT ![c] = "off"]
    /\ UNCHANGED <<conVars, dialing, spawned, conns, tear, recVars, workers,
                   diagVars, boot, bootVars, orphans, history>>

-----------------------------------------------------------------------------
(* Rebooting the board.                                                    *)

StartReboot ==
    /\ HttpFree /\ LockFree /\ ~Active /\ ~connecting
    /\ ops < MaxOps
    /\ ops' = ops + 1
    /\ recovery' = [op |-> ops + 1, phase |-> "queued"]
    /\ PersistRecovery(recovery', TRUE)
    /\ cancel' = FALSE
    /\ ClearDiagnosis
    /\ stage' = [stage EXCEPT ![ops + 1] = "read"]
    /\ UNCHANGED <<conVars, dialing, spawned, conns, tear, loop, removed, prevBoot,
                   boot, idVars, orphans, history>>

\* The save raised: the record says queued, and the request ends before the
\* flag is cleared and the worker started.
StartRebootUnsaved ==
    /\ HttpFree /\ LockFree /\ ~Active /\ ~connecting
    /\ ops < MaxOps
    /\ ops' = ops + 1
    /\ recovery' = [op |-> ops + 1, phase |-> "queued"]
    /\ PersistRecovery(recovery', FALSE)
    /\ orphans' = orphans \cup {ops + 1}
    /\ UNCHANGED <<conVars, dialing, spawned, conns, tear, loop, cancel, removed, workers,
                   diagVars, boot, idVars, history>>

\* A worker between its teardowns
Runs(w, s) == stage[w] = s /\ tear[Reboot(w)] = "none"

\* is_cancelled() between the SSH commands
RebootCancelled(w) ==
    /\ \E s \in {"read", "dispatch", "command", "await"} : Runs(w, s)
    /\ cancel
    /\ stage' = [stage EXCEPT ![w] = "off"]
    /\ prevBoot' = [prevBoot EXCEPT ![w] = None]
    /\ UNCHANGED <<conVars, dialing, spawned, conns, tear, loop, recVars,
                   diagVars, boot, bootVars, orphans, history>>

RebootReads(w) ==
    /\ Runs(w, "read")
    /\ stage' = [stage EXCEPT ![w] = "dispatch"]
    /\ prevBoot' = [prevBoot EXCEPT ![w] = boot]
    /\ UNCHANGED <<conVars, dialing, spawned, conns, tear, loop, recVars,
                   diagVars, boot, bootVars, orphans, history>>

\* update_phase: a phase the record no longer accepts ends the worker, and
\* "dispatching" tears the connection down.
RebootPhase(w, from, phase, to) ==
    /\ Runs(w, from)
    /\ SetPhase(w, phase, TRUE)
    /\ stage' = [stage EXCEPT ![w] = IF Accepts(w) THEN to ELSE "off"]
    /\ tear' = [tear EXCEPT ![Reboot(w)] =
                    IF Accepts(w) /\ phase \in {"dispatching", "completed"}
                      THEN "reset" ELSE @]
    /\ prevBoot' = [prevBoot EXCEPT ![w] = IF stage'[w] \in {"command", "await"} THEN @ ELSE None]
    /\ UNCHANGED <<conVars, dialing, spawned, conns, loop, cancel, removed, ops,
                   diagVars, boot, idVars, orphans, history>>

\* The phase is set and its save raises: _run_reboot's handler comes next.
RebootPhaseUnsaved(w, from, phase) ==
    /\ Runs(w, from) /\ Accepts(w)
    /\ SetPhase(w, phase, FALSE)
    /\ stage' = [stage EXCEPT ![w] = "raised"]
    /\ prevBoot' = [prevBoot EXCEPT ![w] = None]
    /\ UNCHANGED <<conVars, dialing, spawned, conns, tear, loop, cancel, removed, ops,
                   diagVars, boot, idVars, orphans, history>>

\* "systemctl reboot" went through, and the board may or may not go down.
RebootCommands(w) ==
    /\ Runs(w, "command")
    /\ boot' \in {boot, boot + 1} \cap Boots
    /\ stage' = [stage EXCEPT ![w] = "announce"]
    /\ UNCHANGED <<conVars, dialing, spawned, conns, tear, loop, recVars, prevBoot,
                   diagVars, bootVars, orphans, history>>

\* Polling the boot id found another one.
RebootSees(w) ==
    /\ boot # prevBoot[w]
    /\ \/ RebootPhase(w, "await", "host_online", "complete")
       \/ RebootPhaseUnsaved(w, "await", "host_online")

\* Mutant: nothing but an answer ends the wait for the board.
RebootFails_NoDeadline(w) ==
    /\ \E s \in {"read", "command", "raised"} : Runs(w, s)
    /\ \E saved \in BOOLEAN : SetPhase(w, "failed", saved)
    /\ stage' = [stage EXCEPT ![w] = "off"]
    /\ prevBoot' = [prevBoot EXCEPT ![w] = None]
    /\ UNCHANGED <<conVars, dialing, spawned, conns, tear, loop, cancel, removed, ops,
                   diagVars, boot, idVars, orphans, history>>

\* An SSH step or a save failed, or the deadline passed while waiting; the
\* failure is in memory even if it cannot be saved.
RebootFails(w) ==
    /\ \E s \in {"read", "command", "await", "raised"} : Runs(w, s)
    /\ \E saved \in BOOLEAN : SetPhase(w, "failed", saved)
    /\ stage' = [stage EXCEPT ![w] = "off"]
    /\ prevBoot' = [prevBoot EXCEPT ![w] = None]
    /\ UNCHANGED <<conVars, dialing, spawned, conns, tear, loop, cancel, removed, ops,
                   diagVars, boot, idVars, orphans, history>>

RebootStep(w) ==
    \/ RebootCancelled(w)
    \/ RebootReads(w)
    \/ RebootPhase(w, "dispatch", "dispatching", "command")
    \/ RebootPhaseUnsaved(w, "dispatch", "dispatching")
    \/ RebootCommands(w)
    \/ RebootPhase(w, "announce", "waiting_for_boot", "await")
    \/ RebootPhaseUnsaved(w, "announce", "waiting_for_boot")
    \/ RebootSees(w)
    \/ RebootPhase(w, "complete", "completed", "off")
    \/ RebootPhaseUnsaved(w, "complete", "completed")
    \/ RebootFails(w)

\* The board restarts on its own.
BoardReboots ==
    /\ boot < MaxBoots
    /\ boot' = boot + 1
    /\ UNCHANGED <<conVars, dialing, spawned, conns, tear, loop, recVars, workers,
                   diagVars, bootVars, orphans, history>>

-----------------------------------------------------------------------------
(* The diagnosis probe (diagnosis.py, DiagnosisProbe), seen by one device:  *)
(* "due" is scheduled, "running" and "done" are in flight.                 *)

Down == ~connected /\ ~connecting

ProbeStart ==
    /\ probe = "due"
    /\ probe' = IF Down /\ wants /\ ~removed THEN "running" ELSE "done"
    /\ UNCHANGED <<conVars, dialing, spawned, conns, tear, loop, recVars, workers,
                   wants, diagnosed, boot, bootVars, orphans, history>>

\* apply_diagnosis
ProbeResult ==
    /\ probe = "running"
    /\ probe' = "done"
    /\ diagnosed' = (diagnosed \/ (~connected /\ ~Active))
    /\ UNCHANGED <<conVars, dialing, spawned, conns, tear, loop, recVars, workers,
                   wants, boot, bootVars, orphans, history>>

\* Mutant: one probe per drop.
ProbeDone_Once ==
    /\ probe = "done"
    /\ probe' = "idle"
    /\ UNCHANGED <<conVars, dialing, spawned, conns, tear, loop, recVars, workers,
                   wants, diagnosed, boot, bootVars, orphans, history>>

\* No longer in flight, and rescheduled while the device is still down.
ProbeDone ==
    /\ probe = "done"
    /\ probe' = IF Down /\ wants /\ ~removed THEN "due" ELSE "idle"
    /\ UNCHANGED <<conVars, dialing, spawned, conns, tear, loop, recVars, workers,
                   wants, diagnosed, boot, bootVars, orphans, history>>

-----------------------------------------------------------------------------
(* The boot id worker a connect leaves behind.                             *)

\* The SSH read answered, or never did.
BootIdRead(c) ==
    /\ bootJob[c] = "reading"
    /\ \/ /\ boot \in Readable
          /\ bootRead' = [bootRead EXCEPT ![c] = boot]
          /\ bootJob' = [bootJob EXCEPT ![c] = "read"]
       \/ /\ bootJob' = [bootJob EXCEPT ![c] = "off"]
          /\ UNCHANGED bootRead
    /\ UNCHANGED <<conVars, dialing, spawned, conns, tear, loop, recVars, workers,
                   diagVars, boot, lastBoot, store, orphans, history>>

\* Under _state_lock, "if not self.connected: return"
BootIdStore(c) ==
    /\ bootJob[c] = "read"
    /\ LET stores == connected /\ bootRead[c] # lastBoot
       IN /\ lastBoot' = IF stores THEN bootRead[c] ELSE lastBoot
          /\ bootJob' = [bootJob EXCEPT ![c] = IF stores THEN "saving" ELSE "off"]
    /\ bootRead' = [bootRead EXCEPT ![c] = None]
    /\ UNCHANGED <<conVars, dialing, spawned, conns, tear, loop, recVars, workers,
                   diagVars, boot, store, orphans, history>>

\* Mutant: the id is saved only while connected.
BootIdSave_IfConnected(c) ==
    /\ bootJob[c] = "saving"
    /\ bootJob' = [bootJob EXCEPT ![c] = "off"]
    /\ LET h == [held EXCEPT !.boot = lastBoot]
       IN IF removed \/ ~connected THEN UNCHANGED store ELSE Stores(h, h, FALSE)
    /\ UNCHANGED <<conVars, dialing, spawned, conns, tear, loop, recVars, workers,
                   diagVars, boot, lastBoot, bootRead, orphans, history>>

\* _persist_last_healthy: the id known by now, into the Device the session has
\* by now; a save that fails ends the worker, and nothing tries again.
BootIdSave(c) ==
    /\ bootJob[c] = "saving"
    /\ bootJob' = [bootJob EXCEPT ![c] = "off"]
    /\ LET h == [held EXCEPT !.boot = lastBoot]
       IN IF removed THEN UNCHANGED store
                     ELSE Stores(h, h, FALSE) \/ Stores(h, disk, TRUE)
    /\ UNCHANGED <<conVars, dialing, spawned, conns, tear, loop, recVars, workers,
                   diagVars, boot, lastBoot, bootRead, orphans, history>>

-----------------------------------------------------------------------------
(* Other requests of the same device, each of which saves or replaces the  *)
(* whole record for the sake of another field.                             *)

OnlyTheStore ==
    UNCHANGED <<conVars, dialing, spawned, conns, tear, loop, recVars, workers,
                diagVars, boot, idVars, orphans, history>>

\* _session_for_device hands the session the copy the request came with.
RequestSwaps ==
    /\ HttpFree
    /\ \E r \in past : Stores(r, disk, r.boot # lastBoot)
    /\ OnlyTheStore

\* ... having saved that copy, if its configuration blocks were behind.
RequestSavesCopy ==
    /\ ~removed
    /\ \E r \in past : Stores(held, r, r.boot # lastBoot)
    /\ OnlyTheStore

\* A configuration block, a PATCH or a setting of the board's: the session's
\* Device is saved as it is.
RequestSavesHeld ==
    /\ ~removed
    /\ Stores(held, held, FALSE)
    /\ OnlyTheStore

RequestStep == RequestSwaps \/ RequestSavesCopy \/ RequestSavesHeld

-----------------------------------------------------------------------------
ConnectStep ==
    \/ ConnectRefused \/ ConnectBegin \/ ConnectUp \/ ConnectClears \/ ConnectUnsaved
    \/ ConnectStart \/ ConnectFails \/ ConnectFailed

PollStep(c) == PollCall(c) \/ PollOk(c) \/ PollFails(c) \/ PollExit(c)

TearStep(t) == ResetLocked(t) \/ Settle(t)

ProbeStep == ProbeStart \/ ProbeResult \/ ProbeDone

BootIdStep(c) == BootIdRead(c) \/ BootIdStore(c) \/ BootIdSave(c)

Next ==
    \/ ConnectAsync \/ Disconnect \/ Delete \/ StartReboot \/ StartRebootUnsaved
    \/ Restart \/ BoardReboots \/ RequestStep
    \/ ConnectStep
    \/ \E t \in Threads : TearStep(t)
    \/ \E c \in Conns : PollStep(c)
    \/ \E c \in Conns : BootIdStep(c)
    \/ \E w \in Ops : RebootStep(w)
    \/ ProbeStep

Spec == Init /\ [][Next]_vars

\* Every thread the gateway has started goes on: calls on the device and
\* SSH commands return or raise, and the locks are handed over.  Nothing is
\* assumed of operators, of the board, or of the gateway's own restarts.
Fairness ==
    /\ WF_vars(ConnectStep)
    /\ \A t \in Threads : WF_vars(TearStep(t))
    /\ \A c \in Conns : WF_vars(PollOk(c) \/ PollFails(c)) /\ WF_vars(PollExit(c))
    /\ \A w \in Ops : WF_vars(RebootStep(w))
    /\ WF_vars(ProbeStep)

FairSpec == Spec /\ Fairness

-----------------------------------------------------------------------------
(* Properties.                                                             *)

\* Type invariant; the session refers only to connections it has made.
TypeOK ==
    /\ client \in 0..conns /\ pollThread \in 0..conns
    /\ connected \in BOOLEAN /\ connecting \in BOOLEAN /\ stop \in BOOLEAN
    /\ dialing \in {"no", "dial", "clear", "raised", "start", "failed"}
    /\ spawned \in 0..MaxSpawned /\ conns \in 0..MaxConns
    /\ tear \in [Threads -> {"none", "reset", "closing"}]
    /\ loop \in [Conns -> {"off", "loop", "calling"}]
    /\ recovery \in [op : Ops \cup {None},
                     phase : {"queued", "dispatching", "waiting_for_boot",
                              "host_online"} \cup Terminal]
    /\ cancel \in BOOLEAN /\ removed \in BOOLEAN /\ ops \in 0..MaxOps
    /\ stage \in [Ops -> {"off", "read", "dispatch", "command", "announce",
                          "await", "complete", "raised"}]
    /\ prevBoot \in [Ops -> Boots \cup {None}]
    /\ wants \in BOOLEAN /\ diagnosed \in BOOLEAN
    /\ probe \in {"idle", "due", "running", "done"}
    /\ boot \in Boots
    /\ lastBoot \in Boots \cup {None}
    /\ held \in Records /\ disk \in past /\ past \subseteq Records
    /\ stale \in BOOLEAN /\ orphans \subseteq Ops
    /\ bootJob \in [Conns -> {"off", "reading", "read", "saving"}]
    /\ bootRead \in [Conns -> Boots \cup {None}]
    /\ served \subseteq Boots /\ told \subseteq Conns
    /\ intent \in {"none", "connect", "disconnect"}

\* While a reboot is under way nobody is connecting: the checks that
\* connect_async, connect and start_reboot make of each other leave no gap.
RecoveryExcludesConnecting == Active => ~connecting /\ dialing = "no"

\* From the moment the reboot command may have reached the board until the
\* operation is over, the session holds no client of that board.
RebootingBoardHasNoClient ==
    recovery.phase \in {"waiting_for_boot", "host_online"} => ~connected /\ client = None

\* A reboot in progress always has its worker: otherwise every request that
\* changes the device would be refused (409) for good.  The one exception is a
\* reboot whose first save raised (start_reboot sets the record, then saves it).
ActiveHasWorker ==
    Active => \/ recovery.op \in Ops /\ stage[recovery.op] # "off"
              \/ recovery.op \in orphans

\* A reserved session has a thread that will resolve the reservation:
\* otherwise every later connect would return without doing anything.
ConnectingHasThread == connecting => spawned > 0 \/ dialing = "dial"

\* A connected session is being polled by the thread it believes is polling
\* it, and that thread has no order to stop.
LivePoller ==
    connected /\ LockFree => ~stop /\ pollThread = client /\ loop[client] # "off"

\* A diagnosis of an outage is gone once the device is connected again.
ConnectedForgetsDiagnosis == connected /\ dialing # "clear" => ~diagnosed

\* A device that is down and wants a diagnosis stays scheduled for one, unless
\* a teardown is about to decide whether it is wanted, or the session is stuck
\* in a reboot that has no worker.
WantedIsScheduled ==
    wants /\ Down /\ ~removed /\ LockFree /\ (\A t \in Threads : tear[t] # "closing")
        => probe # "idle" \/ (Active /\ recovery.op \in orphans)

\* What the session knows of the board's boot is on disk, so that a restart
\* of the gateway does not forget it, unless a worker is about to save it, its
\* save failed, or a request put an older copy of the Device in its place.
KnownBootIsSaved ==
    lastBoot # disk.boot /\ ~removed => stale \/ \E c \in Conns : bootJob[c] = "saving"

PhaseOrder == <<"queued", "dispatching", "waiting_for_boot", "host_online", "completed">>

\* The phases of one operation follow each other in order, each once; failure
\* and cancellation end it, and an ended operation stays as it ended until a
\* connection clears the record, the next operation replaces it, or the gateway
\* restarts from a file that does not hold what the session had.
PhasesInOrder ==
    [][recovery' # recovery /\ recovery'.op = recovery.op =>
        \/ disk.rec # Reloaded(recovery) /\ recovery' = disk.rec
        \/ /\ Active
           /\ \/ recovery'.phase \in {"failed", "cancelled"}
              \/ \E i \in 1..4 : /\ recovery.phase = PhaseOrder[i]
                                 /\ recovery'.phase = PhaseOrder[i + 1]]_vars

\* Every reboot operation that got its worker ends, whatever the board does and
\* whichever save fails.
RecoveryEnds == (Active /\ recovery.op \notin orphans) ~> ~Active

\* README: "a disconnect can no longer be silently undone".  A session only
\* becomes connected when connecting is what was last asked for.
DisconnectSticks == [][~connected /\ connected' => intent = "connect"]_vars

\* README: a disconnect can no longer "leak a poll thread".  A poll thread
\* that a disconnect took down does not go back to polling.
TornDownPollersStop ==
    [][\A c \in told : loop[c] = "loop" => loop'[c] # "calling"]_vars

\* "Intentional disconnect: stop probing and drop any stale diagnosis": once
\* a disconnect has returned, a session that wants no diagnosis shows none.
IntentionalDisconnectIsQuiet ==
    intent = "disconnect" /\ tear[Http] = "none" /\ ~wants => ~diagnosed

\* The remembered boot id "is only ever written while connected -- an id read
\* from an already-dead board would be the post-reboot one and would hide the
\* very reboot it was meant to detect": it is the id of a boot the gateway
\* has been connected to.
KnownBootWasServed == lastBoot \in served \cup {None}

\* The exemptions above, left out: a reboot in progress has a worker, the known
\* boot id is saved, and "a successful connection is proof the board is back",
\* so that the finished record it cleared does not come back.
RebootHasWorker      == Active => stage[recovery.op] # "off"
KnownBootIsAlwaysSaved ==
    lastBoot # disk.boot /\ ~removed => \E c \in Conns : bootJob[c] = "saving"
ClearedStaysCleared  ==
    [][recovery = Idle => recovery' = Idle \/ recovery'.phase = "queued"]_vars

=============================================================================
