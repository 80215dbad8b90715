---------------------------- MODULE BoardEvents ----------------------------
(***************************************************************************)
(* The durable timeline of one board (linien-gateway/app/                  *)
(* board_event_store.py) and those who write to it: the diagnosis probe,   *)
(* which notes the kernel boot id it has read over SSH, the reboot worker  *)
(* and the reboot request, which make the store forget it, the request     *)
(* that deletes the device, and the hooks that record everything else.     *)
(*                                                                         *)
(* A section of the store's lock is one action.  A flush takes a snapshot  *)
(* under the lock, hands it to a single writer thread after releasing it,  *)
(* and the write takes place later; the gateway may be killed at any time  *)
(* and loads what is on disk.                                              *)
(***************************************************************************)
EXTENDS Naturals, Sequences, FiniteSets

CONSTANTS
    MaxPerDevice,   \* DEFAULT_MAX_PER_DEVICE
    MaxCalls,       \* bound on probes, requests and events recorded by hooks
    MaxBoots,       \* bound on reboots of the board
    MaxFaults,      \* bound on ends of the gateway process and failed writes
    None            \* Python's None

ASSUME BoundsAssumption ==
    /\ MaxPerDevice \in Nat \ {0}
    /\ MaxCalls \in Nat /\ MaxBoots \in Nat /\ MaxFaults \in Nat

\* The probe of the device (one at a time), the requests and hooks, the reboot
\* worker, and the shutdown.
Threads == {"probe", "hook", "worker", "closer"}

ASSUME NoneAssumption == None \notin Nat /\ None \notin Threads

VARIABLES
    events, bootId, dirty,  \* the store, under its lock
    writer,         \* the writer thread: open, its queue, the write it is in
    disk,           \* the file: a payload, or torn
    thread,         \* where each thread is
    board,          \* the boot the board is in
    recovery,       \* "none", "active", or "landed": the board took the command
    deleted,
    calls, faults,  \* used up of MaxCalls and MaxFaults
    \* history, read only by the properties
    spontaneous,    \* reboots nobody asked for
    crossed,        \* a boot id read before a reboot request was noted after it,
                    \* or the forgetting was lost
    inverted        \* a snapshot was handed over after a later one

store  == <<events, bootId, dirty>>
world  == <<board, recovery, deleted>>
bounds == <<calls, faults>>
past   == <<spontaneous, crossed, inverted>>
vars   == <<store, writer, disk, thread, world, bounds, past>>

Idle == [at |-> "idle"]
NoWrite == [by |-> None]

At(t, place) == thread[t].at = place
Goto(t, place) == thread' = [thread EXCEPT ![t] = place]

\* The probe has passed its check of the recovery and not yet noted its id.
NotingUnderway == thread["probe"].at \in {"noting", "detected"}

\* _prune_locked, by number; the age limit of thirty days is left out.
Prune(items) ==
    IF Len(items) > MaxPerDevice
      THEN SubSeq(items, Len(items) - MaxPerDevice + 1, Len(items)) ELSE items

Init ==
    /\ events = <<>> /\ bootId = None /\ dirty = FALSE
    /\ writer = [open |-> TRUE, queue |-> <<>>, write |-> NoWrite]
    /\ disk = [torn |-> FALSE, bootId |-> None, events |-> <<>>]
    /\ thread = [t \in Threads |-> Idle]
    /\ board = 1 /\ recovery = "none" /\ deleted = FALSE
    /\ calls = 0 /\ faults = 0
    /\ spontaneous = 0 /\ crossed = FALSE /\ inverted = FALSE

Fault == faults < MaxFaults /\ faults' = faults + 1

-----------------------------------------------------------------------------
(* The store.                                                              *)

\* A flush; what the thread does after it.
Flushing(then) == [at |-> "flush", then |-> then]

\* record: append, prune, and flush unless the last flush is less than
\* flush_interval_s ago.
Record(t, kind, id, then) ==
    /\ events' = Prune(Append(events, kind))
    /\ bootId' = IF id = None THEN bootId ELSE id
    /\ dirty' = TRUE
    /\ \/ Goto(t, Flushing(then))
       \/ Goto(t, then)

\* note_boot_id, its locked section.  The first sighting is not a reboot; a
\* change is recorded in a section of its own.
NoteBootId(t) ==
    /\ At(t, "noting")
    /\ LET id == thread[t].id IN
       /\ bootId' = id
       /\ dirty' = (dirty \/ bootId = None)
       /\ CASE bootId = id   -> Goto(t, Idle)
            [] bootId = None -> Goto(t, Flushing(Idle))
            [] OTHER         -> Goto(t, [at |-> "detected", id |-> id])
    /\ crossed' = (crossed \/ At("hook", "forgetting"))
    /\ UNCHANGED <<events, writer, disk, world, bounds, spontaneous, inverted>>

RecordDetected(t) ==
    /\ At(t, "detected")
    /\ Record(t, "reboot_detected", thread[t].id, Idle)
    /\ UNCHANGED <<writer, disk, world, bounds, past>>

\* forget_boot_id
ForgetBootId(t) ==
    /\ At(t, "forgetting")
    /\ IF bootId = None
         THEN Goto(t, Idle) /\ UNCHANGED <<bootId, dirty>>
         ELSE Goto(t, Flushing(Idle)) /\ bootId' = None /\ dirty' = TRUE
    /\ crossed' = (crossed \/ NotingUnderway)
    /\ UNCHANGED <<events, writer, disk, world, bounds, spontaneous, inverted>>

\* flush, under the lock: the snapshot, and whose older one is still in hand.
Snapshot(t) ==
    /\ At(t, "flush")
    /\ dirty' = FALSE
    /\ IF dirty
         THEN Goto(t, [at |-> "submit", then |-> thread[t].then,
                       payload |-> [bootId |-> bootId, events |-> events],
                       older |-> {u \in Threads : At(u, "submit")}])
         ELSE Goto(t, thread[t].then)
    /\ UNCHANGED <<events, bootId, writer, disk, world, bounds, past>>

\* flush, after the lock: to the writer, or written by the caller if there is
\* none any more.
Submit(t) ==
    /\ At(t, "submit")
    /\ IF writer.open
         THEN /\ writer' = [writer EXCEPT !.queue = Append(@, thread[t].payload)]
              /\ Goto(t, thread[t].then)
         ELSE /\ Goto(t, [at |-> "inline", then |-> thread[t].then,
                          payload |-> thread[t].payload])
              /\ UNCHANGED writer
    /\ inverted' = \/ inverted
                   \/ \E u \in thread[t].older : At(u, "submit")
                   \/ ~writer.open
    /\ UNCHANGED <<store, disk, world, bounds, spontaneous, crossed>>

-----------------------------------------------------------------------------
(* The file.                                                               *)

\* The next write: the head of the queue, or that of a thread without a writer.
\* _write_lock keeps them apart.
WriteEnds(t) ==
    IF t = None THEN UNCHANGED thread ELSE Goto(t, thread[t].then)

TakeNext(t, place) ==
    /\ writer.write = NoWrite
    /\ IF t = None
         THEN writer.queue # <<>> /\ writer' = [writer EXCEPT !.queue = Tail(@), !.write = place]
         ELSE At(t, "inline") /\ writer' = [writer EXCEPT !.write = place]

Payload(t) == IF t = None THEN Head(writer.queue) ELSE thread[t].payload

Written(payload) == disk' = [torn |-> FALSE, bootId |-> payload.bootId, events |-> payload.events]

\* Atomic: the rename of the temporary file.
WriteByRename(t) ==
    /\ TakeNext(t, NoWrite)
    /\ Written(Payload(t))
    /\ WriteEnds(t)
    /\ UNCHANGED <<store, world, bounds, past>>

\* The rename fails (a bind-mounted file): the fallback truncates the file
\* before it fills it.
WriteInPlace(t) ==
    /\ TakeNext(t, [by |-> t, payload |-> Payload(t)])
    /\ disk' = [disk EXCEPT !.torn = TRUE]
    /\ IF t = None THEN UNCHANGED thread ELSE Goto(t, [at |-> "writing", then |-> thread[t].then])
    /\ UNCHANGED <<store, world, bounds, past>>

WriteFills ==
    /\ writer.write # NoWrite
    /\ Written(writer.write.payload)
    /\ writer' = [writer EXCEPT !.write = NoWrite]
    /\ WriteEnds(writer.write.by)
    /\ UNCHANGED <<store, world, bounds, past>>

\* Mutant: a failed write is forgotten.
DirtyAfterFailure_Not == dirty

\* _write: "mark the state dirty again".
DirtyAfterFailure == TRUE

\* The disk is full, or read-only: the state is to be written again.
WriteFails(t) ==
    /\ Fault
    /\ TakeNext(t, NoWrite)
    /\ dirty' = DirtyAfterFailure
    /\ WriteEnds(t)
    /\ UNCHANGED <<events, bootId, disk, world, calls, past>>

FillFails ==
    /\ Fault /\ writer.write # NoWrite
    /\ dirty' = DirtyAfterFailure
    /\ writer' = [writer EXCEPT !.write = NoWrite]
    /\ WriteEnds(writer.write.by)
    /\ UNCHANGED <<events, bootId, disk, world, calls, past>>

\* close: flush(block=True), no more writer, wait for it.  The server has
\* answered its requests by then; probes and reboot workers may go on.
Close ==
    /\ At("closer", "idle") /\ At("hook", "idle")
    /\ Goto("closer", Flushing([at |-> "closing"]))
    /\ UNCHANGED <<store, writer, disk, world, bounds, past>>

CloseWriter ==
    /\ At("closer", "closing")
    /\ writer' = [writer EXCEPT !.open = FALSE]
    /\ Goto("closer", [at |-> "joining"])
    /\ UNCHANGED <<store, disk, world, bounds, past>>

Closed ==
    /\ At("closer", "joining")
    /\ writer.queue = <<>> /\ writer.write = NoWrite
    /\ Goto("closer", [at |-> "closed"])
    /\ UNCHANGED <<store, writer, disk, world, bounds, past>>

\* _load; a torn file is malformed, and ignored.
Loaded == IF disk.torn THEN [bootId |-> None, events |-> <<>>]
          ELSE [bootId |-> disk.bootId, events |-> disk.events]

\* The process ends, and starts again.
Restart ==
    /\ Fault
    /\ events' = Loaded.events /\ bootId' = Loaded.bootId
    /\ dirty' = FALSE
    /\ writer' = [open |-> TRUE, queue |-> <<>>, write |-> NoWrite]
    /\ thread' = [t \in Threads |-> Idle]
    /\ recovery' = "none"
    /\ crossed' = (crossed \/ bootId' # bootId \/ \E t \in Threads : At(t, "forgetting"))
    /\ UNCHANGED <<disk, board, deleted, calls, spontaneous, inverted>>

-----------------------------------------------------------------------------
(* The callers.                                                            *)

\* Requests and probes are stopped before the store is closed.
Call == /\ calls < MaxCalls /\ calls' = calls + 1
        /\ At("closer", "idle")

\* _probe_once: the boot id comes with the SSH probe, and is dropped if a
\* recovery is active by the time it is there.
ProbeReads ==
    /\ At("probe", "idle") /\ ~deleted /\ recovery = "none" /\ Call
    /\ Goto("probe", [at |-> "read", id |-> board])
    /\ UNCHANGED <<store, writer, disk, world, faults, past>>

\* Mutant: the recovery is not looked at.
Dropped_Never == FALSE

Dropped == recovery # "none"

ProbeChecks ==
    /\ At("probe", "read")
    /\ Goto("probe", IF Dropped THEN Idle ELSE [at |-> "noting", id |-> thread["probe"].id])
    /\ UNCHANGED <<store, writer, disk, world, bounds, past>>

\* _record_board_event
HookRecords ==
    /\ At("hook", "idle") /\ ~deleted /\ Call
    /\ Record("hook", "other", None, Idle)
    /\ UNCHANGED <<writer, disk, world, faults, past>>

\* reboot_device: the operation starts, and the boot id is forgotten.
RequestReboot ==
    /\ At("hook", "idle") /\ ~deleted /\ recovery = "none" /\ Call
    /\ recovery' = "active"
    /\ Goto("hook", [at |-> "forgetting"])
    /\ UNCHANGED <<store, writer, disk, board, deleted, faults, past>>

CommandLands ==
    /\ recovery = "active" /\ board < MaxBoots
    /\ recovery' = "landed" /\ board' = board + 1
    /\ UNCHANGED <<store, writer, disk, thread, deleted, bounds, past>>

\* It fails, times out or is cancelled, whether or not the command has landed.
RecoveryAbandoned ==
    /\ recovery # "none"
    /\ recovery' = "none"
    /\ crossed' = (crossed \/ At("probe", "read"))
    /\ UNCHANGED <<store, writer, disk, thread, board, deleted, bounds, spontaneous, inverted>>

RecoveryCompletes ==
    /\ recovery = "landed" /\ At("worker", "idle")
    /\ recovery' = "none"
    /\ Goto("worker", [at |-> "completed"])
    /\ crossed' = (crossed \/ At("probe", "read"))
    /\ UNCHANGED <<store, writer, disk, board, deleted, bounds, spontaneous, inverted>>

\* device_reboot_completed: recorded, and forgotten once more.
RecordRequested ==
    /\ At("worker", "completed")
    /\ Record("worker", "reboot_requested", None, [at |-> "forgetting"])
    /\ UNCHANGED <<writer, disk, world, bounds, past>>

SpontaneousReboot ==
    /\ board < MaxBoots
    /\ board' = board + 1 /\ spontaneous' = spontaneous + 1
    /\ UNCHANGED <<store, writer, disk, thread, recovery, deleted, bounds, crossed, inverted>>

\* delete_device and forget.
Forget ==
    /\ At("hook", "idle") /\ ~deleted /\ Call
    /\ deleted' = TRUE /\ recovery' = "none"
    /\ events' = <<>> /\ bootId' = None /\ dirty' = TRUE
    /\ Goto("hook", Flushing(Idle))
    /\ crossed' = (crossed \/ NotingUnderway \/ At("probe", "read"))
    /\ UNCHANGED <<writer, disk, board, faults, spontaneous, inverted>>

Next ==
    \/ \E t \in Threads : NoteBootId(t)
    \/ \E t \in Threads : RecordDetected(t)
    \/ \E t \in Threads : ForgetBootId(t)
    \/ \E t \in Threads : Snapshot(t)
    \/ \E t \in Threads : Submit(t)
    \/ \E t \in Threads \cup {None} : WriteByRename(t)
    \/ \E t \in Threads \cup {None} : WriteInPlace(t)
    \/ \E t \in Threads \cup {None} : WriteFails(t)
    \/ WriteFills \/ FillFails
    \/ Close \/ CloseWriter \/ Closed \/ Restart
    \/ ProbeReads \/ ProbeChecks \/ HookRecords
    \/ RequestReboot \/ CommandLands \/ RecoveryAbandoned \/ RecoveryCompletes
    \/ RecordRequested \/ SpontaneousReboot \/ Forget

Spec == Init /\ [][Next]_vars

-----------------------------------------------------------------------------
(* Properties.                                                             *)

Kinds == {"reboot_detected", "reboot_requested", "other"}
Ids == Nat \cup {None}
Payloads == [bootId : Ids, events : Seq(Kinds)]

\* Where a thread goes on after a flush, and where it can be.
Nexts == [at : {"idle", "forgetting", "closing"}]
Places ==
    [at : {"idle", "forgetting", "closing", "joining", "closed", "completed"}]
    \cup [at : {"read", "noting", "detected"}, id : Nat]
    \cup [at : {"flush", "writing"}, then : Nexts]
    \cup [at : {"submit"}, then : Nexts, payload : Payloads, older : SUBSET Threads]
    \cup [at : {"inline"}, then : Nexts, payload : Payloads]

\* The types of the variables.
TypeOK ==
    /\ events \in Seq(Kinds) /\ bootId \in Ids /\ dirty \in BOOLEAN
    /\ writer \in [open : BOOLEAN, queue : Seq(Payloads),
                  write : {NoWrite} \cup [by : Threads \cup {None}, payload : Payloads]]
    /\ disk \in [torn : BOOLEAN, bootId : Ids, events : Seq(Kinds)]
    /\ thread \in [Threads -> Places]
    /\ board \in Nat /\ recovery \in {"none", "active", "landed"} /\ deleted \in BOOLEAN
    /\ {calls, faults, spontaneous} \subseteq Nat
    /\ {crossed, inverted} \subseteq BOOLEAN

Detections(items) == Cardinality({i \in 1..Len(items) : items[i] = "reboot_detected"})

\* A reboot the operator asked for is never counted as one of the board's own,
\* and none of those twice, over completed, failed and cancelled recoveries and
\* restarts -- unless the recovery was over, or not yet begun, when the
\* probe that had read the old boot id looked for it, or the gateway was killed
\* before the forgetting was written.
RebootsNotOvercounted == ~crossed => Detections(events) <= spontaneous

Quiet ==
    /\ \A t \in Threads : thread[t].at \notin {"flush", "submit", "inline", "writing", "detected"}
    /\ writer.queue = <<>> /\ writer.write = NoWrite

\* What the store takes for written is what a restart would load, over failed and
\* torn writes and restarts -- as long as snapshots were handed over in the
\* order they were taken in.
CleanMeansWritten ==
    Quiet /\ ~dirty /\ ~inverted => Loaded = [bootId |-> bootId, events |-> events]

\* forget_boot_id: a restart an operator asked for is "exactly what the
\* instability badge is supposed to exclude".
RequestedRebootsExcluded == Detections(events) <= spontaneous

\* flush: "'Blocking' has to mean the file on disk is current, or shutdown
\* races the writer it is trying to wait for."
ClosedMeansCurrent ==
    At("closer", "closed") /\ Quiet => Loaded = [bootId |-> bootId, events |-> events]
=============================================================================
