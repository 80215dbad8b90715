-------------------------- MODULE LockResultWriter --------------------------
(***************************************************************************)
(* The best-effort Postgres writer of lock results                         *)
(* (linien-gateway/app/manual_lock_postgres.py,                            *)
(* LockResultPostgresService).  Handlers enqueue rows without blocking; one *)
(* worker thread writes them; the settings page changes the configuration  *)
(* and tests the connection on threads of its own, with no lock between    *)
(* them and the worker beyond the one around each short section.           *)
(*                                                                         *)
(* A connection runs in three steps, because three separate sections of    *)
(* the code make it up: read where to connect (under _lock), talk to the   *)
(* database (no lock), note that the schema is there (no lock).            *)
(***************************************************************************)
EXTENDS Naturals, Sequences

CONSTANTS
    Databases,  \* the databases an operator may configure
    Requests,   \* the HTTP threads that may change or test the settings
    MaxRows,    \* bound on rows offered to the queue
    QueueSize,  \* max_queue_size
    MaxSaves    \* bound on saved configurations

Worker == "worker"

ASSUME ConstantsAssumption ==
    /\ Databases # {} /\ Worker \notin Requests
    /\ MaxRows \in Nat /\ QueueSize \in Nat \ {0} /\ MaxSaves \in Nat

Rows   == 1..MaxRows   \* what build_manual_lock_row makes of a lock
NoRow  == 0
Clients == Requests \cup {Worker}   \* threads that open connections

VARIABLES
    enabled, database,  \* _config
    schemaReady,        \* _schema_ready
    lastTestOk,         \* _status.last_test_ok, FALSE standing for None too
    active,             \* _status.active
    queue,              \* _queue
    held,               \* the row the worker took
    shutdown,           \* "no", "stopping" once _stop_event is set; the process
                        \* has ended when "stopped" (the worker had left) or
                        \* "abandoned" (the join of stop() ran out)
    exit,               \* how the worker thread ended: "no" while it runs
    at,                 \* each thread's place
    target,             \* the database each thread's connection goes to
    \* the databases
    migrated,           \* those whose table has the columns of INSERT_SQL
    \* history
    astray,             \* whether schemaReady was raised by a connection to a
                        \* database other than the configured one
    unsaved,            \* whether the last save of the settings failed
    offered, saves,     \* rows offered and settings saved so far
    admitted,           \* handlers between the enabled check and the put
    accepted, handled,  \* rows the queue took, and rows the worker is done with
    due                 \* the rows accepted when stop() was called

config == <<enabled, database>>
status == <<lastTestOk, active>>
rows   == <<queue, held, handled, exit>>
faults == <<astray, unsaved>>
vars == <<config, schemaReady, status, rows, shutdown, at, target, migrated,
          faults, offered, admitted, saves, accepted, due>>

Init ==
    /\ enabled \in BOOLEAN /\ database \in Databases
    /\ schemaReady = FALSE /\ lastTestOk = FALSE /\ active = FALSE
    /\ queue = <<>> /\ held = NoRow /\ shutdown = "no" /\ exit = "no"
    /\ at = [c \in Clients |-> "idle"]
    /\ target \in [Clients -> {database}]
    /\ migrated \in SUBSET Databases   \* those an earlier version left behind
    /\ astray = FALSE /\ unsaved = FALSE
    /\ offered = 0 /\ saves = 0 /\ admitted = 0
    /\ accepted = <<>> /\ handled = <<>> /\ due = 0

Idle(c) == at[c] = "idle"
Go(c, place) == at' = [at EXCEPT ![c] = place]

\* The worker is a daemon thread: it, and every request, ends with the process.
Alive == shutdown \in {"no", "stopping"}

-----------------------------------------------------------------------------
(* Connections.  A worker that writes and a request that tests go through  *)
(* the same sections.                                                      *)

\* _connect_kwargs
ReadTarget(c) ==
    /\ at[c] = "target"
    /\ target' = [target EXCEPT ![c] = database]
    /\ Go(c, "connected")
    /\ UNCHANGED <<faults, config, schemaReady, status, rows, shutdown, migrated,
                   offered, admitted, saves, accepted, due>>

\* The database cannot be reached, or refuses a statement of its own accord;
\* the transaction is not committed.
ConnectionFails(c) ==
    /\ at[c] = "connected"
    /\ Go(c, "failed")
    /\ UNCHANGED <<faults, config, schemaReady, status, rows, shutdown, target, migrated,
                   offered, admitted, saves, accepted, due>>

\* _ensure_table up to its commit
ApplySchema(c) ==
    /\ c # Worker
    /\ at[c] = "connected"
    /\ migrated' = migrated \cup {target[c]}
    /\ Go(c, "committed")
    /\ UNCHANGED <<faults, config, schemaReady, status, rows, shutdown, target,
                   offered, admitted, saves, accepted, due>>

\* _write_row up to its commit.  An INSERT that names a column the table does
\* not have fails.
Insert ==
    /\ at[Worker] = "connected"
    /\ migrated' = IF schemaReady THEN migrated ELSE migrated \cup {target[Worker]}
    /\ Go(Worker, IF target[Worker] \in migrated' THEN "committed" ELSE "missing")
    /\ UNCHANGED <<faults, config, schemaReady, status, rows, shutdown, target,
                   offered, admitted, saves, accepted, due>>

\* _schema_ready = True, outside _lock
NoteSchema(c) ==
    /\ at[c] = "committed"
    /\ schemaReady' = TRUE
    /\ astray' = (target[c] # database /\ (schemaReady => astray))
    /\ Go(c, "done")
    /\ UNCHANGED <<unsaved, config, status, rows, shutdown, target, migrated,
                   offered, admitted, saves, accepted, due>>

Connection(c) ==
    \/ ReadTarget(c)
    \/ ConnectionFails(c)
    \/ ApplySchema(c)
    \/ NoteSchema(c)

-----------------------------------------------------------------------------
(* The worker thread.                                                      *)

WorkerLeaves ==
    /\ exit = "no"
    /\ Idle(Worker)
    /\ shutdown # "no" /\ queue = <<>>
    /\ exit' = "drained"
    /\ UNCHANGED <<faults, config, schemaReady, status, queue, held, handled, shutdown,
                   at, target, migrated, offered, admitted, saves, accepted, due>>

Take ==
    /\ exit = "no"
    /\ Idle(Worker)
    /\ queue # <<>>
    /\ held' = Head(queue) /\ queue' = Tail(queue)
    /\ Go(Worker, "taken")
    /\ UNCHANGED <<faults, config, schemaReady, status, handled, exit, shutdown, target,
                   migrated, offered, admitted, saves, accepted, due>>

\* The enabled check of _write_row; a row taken while disabled is let go and
\* counted as written.
CheckEnabled ==
    /\ at[Worker] = "taken"
    /\ Go(Worker, IF enabled THEN "target" ELSE "done")
    /\ UNCHANGED <<faults, config, schemaReady, status, rows, shutdown, target, migrated,
                   offered, admitted, saves, accepted, due>>

Finished ==
    /\ handled' = Append(handled, held)
    /\ held' = NoRow
    /\ Go(Worker, "idle")
    /\ UNCHANGED <<faults, config, schemaReady, lastTestOk, queue, exit, shutdown, target,
                   migrated, offered, admitted, saves, accepted, due>>

\* _mark_write(True)
MarkWritten ==
    /\ at[Worker] = "done"
    /\ active' = (enabled /\ lastTestOk)
    /\ Finished

\* Mutant: a failed write ends the thread, its row still in its hands.
MarkFailed_Dies ==
    /\ at[Worker] \in {"failed", "missing"}
    /\ active' = FALSE
    /\ Go(Worker, "dead")
    /\ UNCHANGED <<faults, config, schemaReady, lastTestOk, rows, shutdown, target,
                   migrated, offered, admitted, saves, accepted, due>>

\* _mark_write(False): the row is dropped and the thread goes on.
MarkFailed ==
    /\ at[Worker] \in {"failed", "missing"}
    /\ active' = FALSE
    /\ Finished

WorkerStep ==
    /\ Alive
    /\ \/ Take
       \/ CheckEnabled
       \/ ReadTarget(Worker)
       \/ ConnectionFails(Worker)
       \/ Insert
       \/ NoteSchema(Worker)
       \/ MarkWritten
       \/ MarkFailed
       \/ WorkerLeaves

-----------------------------------------------------------------------------
(* The settings page.                                                      *)

\* The new configuration replaces the old one before it is saved; a save that
\* raises ends the request there, with `active` as it was.
Configure(c) ==
    /\ Idle(c) /\ saves < MaxSaves
    /\ saves' = saves + 1
    /\ enabled' \in BOOLEAN /\ database' \in Databases
    /\ astray' = FALSE
    /\ \/ unsaved' = FALSE /\ active' = (active /\ enabled') /\ Go(c, "saved")
       \/ unsaved' = TRUE /\ UNCHANGED <<active, at>>
    /\ UNCHANGED <<lastTestOk, rows, shutdown, target, migrated, offered,
                   admitted, accepted, due>>

\* Mutant: the flag survives a change of database.
UpdateConfig_KeepsSchema(c) == Configure(c) /\ UNCHANGED schemaReady

\* The locked section of update_config
UpdateConfig(c) == Configure(c) /\ schemaReady' = FALSE

\* The unlocked `if self._config.enabled` of update_config
DecideTest(c) ==
    /\ at[c] = "saved"
    /\ Go(c, IF enabled THEN "target" ELSE "idle")
    /\ UNCHANGED <<faults, config, schemaReady, status, rows, shutdown, target, migrated,
                   offered, admitted, saves, accepted, due>>

\* POST .../test
TestConnection(c) ==
    /\ Idle(c)
    /\ Go(c, "target")
    /\ UNCHANGED <<faults, config, schemaReady, status, rows, shutdown, target, migrated,
                   offered, admitted, saves, accepted, due>>

\* _mark_test
MarkTest(c) ==
    /\ c # Worker
    /\ at[c] \in {"done", "failed"}
    /\ lastTestOk' = (at[c] = "done")
    /\ active' = (enabled /\ lastTestOk')
    /\ Go(c, "idle")
    /\ UNCHANGED <<faults, config, schemaReady, rows, shutdown, target, migrated,
                   offered, admitted, saves, accepted, due>>

-----------------------------------------------------------------------------
(* Rows come in, and the gateway shuts down.                               *)

\* _write_lock_result_to_postgres: a thread has the result of a lock and offers
\* its row; whether the row is taken changes nothing but what is logged.
Offer == offered < MaxRows /\ offered' = offered + 1

\* The enabled check of enqueue_lock_result, a section of its own.
Admit ==
    /\ enabled /\ Offer
    /\ admitted' = admitted + 1
    /\ UNCHANGED <<faults, config, schemaReady, status, rows, shutdown, at, target,
                   migrated, saves, accepted, due>>

Put ==
    /\ admitted > 0
    /\ admitted' = admitted - 1
    /\ UNCHANGED <<faults, config, schemaReady, status, held, handled, exit, shutdown,
                   at, target, migrated, offered, saves, due>>

\* Mutant: a full queue makes room by losing its oldest row.
Enqueue_DropsOldest ==
    /\ Put
    /\ accepted' = Append(accepted, Len(accepted) + 1)
    /\ queue' = Append(IF Len(queue) < QueueSize THEN queue ELSE Tail(queue),
                       Len(accepted) + 1)

\* put_nowait; a row that meets a full queue is dropped.
Enqueue ==
    /\ Put
    /\ \/ /\ Len(queue) < QueueSize
          /\ accepted' = Append(accepted, Len(accepted) + 1)
          /\ queue' = Append(queue, Len(accepted) + 1)
       \/ Len(queue) = QueueSize /\ UNCHANGED <<queue, accepted>>

\* stop() sets the event and joins the worker, which it stops waiting for
\* after SHUTDOWN_DRAIN_TIMEOUT_S.
Stop ==
    /\ shutdown = "no"
    /\ shutdown' = "stopping"
    /\ due' = Len(accepted)
    /\ UNCHANGED <<faults, config, schemaReady, status, rows, at, target, migrated,
                   offered, admitted, saves, accepted>>

\* The join returned because the worker left, or ran out.  The process ends
\* after it, and the worker with it, whatever it still has to write ("pending
\* lock results are lost past this", line 22); the moment in between counts as
\* part of the wait.
StopReturns ==
    /\ shutdown = "stopping"
    /\ shutdown' = IF exit = "drained" THEN "stopped" ELSE "abandoned"
    /\ active' = FALSE
    /\ UNCHANGED <<faults, config, schemaReady, lastTestOk, rows, at, target,
                   migrated, offered, admitted, saves, accepted, due>>

Request(c) ==
    \/ UpdateConfig(c)
    \/ DecideTest(c)
    \/ TestConnection(c)
    \/ Connection(c)
    \/ MarkTest(c)

Next ==
    \/ WorkerStep
    \/ Alive /\ \E c \in Requests : Request(c)
    \/ Alive /\ (Admit \/ Enqueue)
    \/ Stop
    \/ StopReturns

Spec == Init /\ [][Next]_vars

\* The worker thread runs while the process does: it polls the queue with a
\* timeout, and psycopg gives up a connection after connect_timeout.
FairSpec == Spec /\ WF_vars(WorkerStep)

-----------------------------------------------------------------------------
(* Properties.                                                             *)

ConfigTypeOK ==
    /\ enabled \in BOOLEAN /\ schemaReady \in BOOLEAN
    /\ lastTestOk \in BOOLEAN /\ active \in BOOLEAN
    /\ astray \in BOOLEAN /\ unsaved \in BOOLEAN
RowsTypeOK ==
    /\ queue \in Seq(Rows) /\ Len(queue) <= QueueSize
    /\ held \in Rows \cup {NoRow}
    /\ accepted \in Seq(Rows) /\ handled \in Seq(Rows)
    /\ offered \in 0..MaxRows /\ admitted \in 0..MaxRows /\ due \in 0..MaxRows
    /\ exit \in {"no", "drained"}
    /\ shutdown \in {"no", "stopping", "stopped", "abandoned"}
Places == {"idle", "saved", "taken", "target", "connected", "committed",
           "missing", "failed", "done"}
ThreadsTypeOK ==
    /\ database \in Databases /\ migrated \subseteq Databases
    /\ at \in [Clients -> Places] /\ target \in [Clients -> Databases]
    /\ saves \in 0..MaxSaves

\* Types; the queue stays within its bound.
TypeOK == ConfigTypeOK /\ RowsTypeOK /\ ThreadsTypeOK

\* A row the queue accepted is written, or counted as failed, exactly once and
\* in the order of acceptance, through failures, disabled settings, a full
\* queue and the shutdown.
InHand == IF held = NoRow THEN <<>> ELSE <<held>>
RowsInOrder == accepted = handled \o InHand \o queue

\* The writer, with all its threads, settings and failures, is a log of rows
\* that are dealt with in order, never more of them waiting than the queue and
\* the hands of the worker hold ("max_queue_size", manual_lock_postgres.py:202).
Log == INSTANCE RowLog WITH log <- accepted, done <- handled, Capacity <- QueueSize + 1
ImplementsRowLog == Log!Spec

\* The page shows the writer as active only after a test that succeeded and for
\* an enabled configuration, or one whose save failed before `active` could be
\* cleared: neither a late write result nor a late test result of settings since
\* switched off turns it back on.
ActiveIsEnabled == active => lastTestOk /\ (enabled \/ unsaved)

\* A worker that left on its own accord left none of the rows accepted before
\* the shutdown behind ("Give the worker time to drain queued rows before
\* exiting", manual_lock_postgres.py:240).
DrainedOnExit == exit = "drained" => Len(handled) >= due

\* A write to the configured database meets a table without the columns it
\* names only while a connection to another database holds the flag up: one
\* opened before the settings were saved, which committed after.  Whatever an
\* earlier version left behind and however often the operator moves, saving the
\* settings once more lets the next write bring the table up to date.
MissesColumns == at[Worker] = "connected" /\ at'[Worker] = "missing"
ColumnsExist == [][MissesColumns => astray \/ target[Worker] # database]_vars

\* "Whether this process has applied the schema to the configured database
\* yet" (manual_lock_postgres.py:207): while the flag is up, the configured
\* database has the columns.
SchemaReadyIsTrue == schemaReady => database \in migrated

\* A row the queue accepted before the shutdown is dealt with eventually,
\* whatever the database does, unless stop() gives the worker up with the row
\* still in its hands or in the queue.
GivenUp(n) == shutdown = "abandoned" /\ Len(handled) < n
RowsHandled ==
    \A n \in Rows : (Len(accepted) >= n /\ shutdown = "no")
                       ~> (Len(handled) >= n \/ GivenUp(n))

=============================================================================
