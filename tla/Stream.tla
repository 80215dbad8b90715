------------------------------- MODULE Stream -------------------------------
(***************************************************************************)
(* The live stream of one device (linien-gateway/app/stream.py,            *)
(* WebsocketManager, with stream_device of main.py and the reconnecting    *)
(* hook of the web client).                                                *)
(*                                                                         *)
(* Session threads change the status and publish it; the poll thread       *)
(* publishes plot frames.  publish() only schedules a broadcast on the     *)
(* event loop.  A loop step runs from one suspension to the next: the      *)
(* handshake after accept() has none, a broadcast none before it drops a   *)
(* connection, and the sender task none between finding nothing to send    *)
(* and going to sleep.                                                     *)
(***************************************************************************)
EXTENDS Naturals, Sequences

CONSTANTS
    Clients,     \* browser tabs, each with at most one socket
    Writers,     \* session threads that change and publish the status
    QueueSize,   \* reliable_queue_size
    DropOld,     \* drop_old_plot_frames
    MaxChanges,  \* bound on status changes
    MaxFrames,   \* bound on plot frames
    MaxFaults    \* bound on failed sends and closed tabs

ASSUME ConstantsAssumption ==
    /\ MaxChanges \in Nat /\ MaxFrames \in Nat /\ MaxFaults \in Nat
    /\ DropOld \in BOOLEAN
    /\ QueueSize \in Nat \ {0, 1}   \* a snapshot fits; the code enforces ten

Nothing == 0   \* no frame, no message
StatusMsgs == [type : {"status"}, n : 0..MaxChanges]
PlotMsgs   == [type : {"plot"}, n : 1..MaxFrames]
Msgs       == StatusMsgs \cup PlotMsgs
Status(n) == [type |-> "status", n |-> n]
Plot(n)   == [type |-> "plot", n |-> n]

VARIABLES
    \* the session
    value,     \* what status() returns, numbered by change
    doing,     \* each writer: "idle", "changed" or "computed"
    computed,  \* the status each writer is about to publish
    frame,     \* last_plot_frame, numbered
    peeked,    \* whether the poll thread will publish it
    published, \* history: the status published last
    \* the event loop
    calls,     \* broadcasts scheduled, in order
    \* the connections
    socket,    \* "closed", "accepted" or "open", as the browser sees it
    registered,
    queue,     \* reliable_queue
    slot,      \* latest_plot_message
    wake,      \* wake_event
    sender,    \* the sender task: "none", "waiting" or "sending"
    sending,   \* the message it awaits the send of
    dropping,  \* "no", "due" (in a broadcast's stale list) or "closing"
    \* the browser
    view,      \* the last status shown
    faults

session == <<value, doing, computed, frame, peeked, published>>
conn    == <<registered, queue, slot, wake, sender, sending>>
streamVars == <<session, calls, conn, socket, dropping, view, faults>>

StreamInit ==
    /\ value = 0 /\ frame = Nothing /\ peeked = FALSE
    /\ doing = [w \in Writers |-> "idle"] /\ computed = [w \in Writers |-> 0]
    /\ calls = <<>> /\ published = 0
    /\ socket = [c \in Clients |-> "closed"]
    /\ registered = [c \in Clients |-> FALSE]
    /\ queue = [c \in Clients |-> <<>>] /\ slot = [c \in Clients |-> Nothing]
    /\ wake = [c \in Clients |-> FALSE]
    /\ sender = [c \in Clients |-> "none"] /\ sending = [c \in Clients |-> Status(0)]
    /\ dropping = [c \in Clients |-> "no"]
    /\ view = [c \in Clients |-> 0]
    /\ faults = 0

-----------------------------------------------------------------------------
(* Session threads.                                                        *)

\* A transition: connect, teardown, recovery phase or diagnosis.
Change(w) ==
    /\ doing[w] = "idle" /\ value < MaxChanges
    /\ value' = value + 1
    /\ doing' = [doing EXCEPT ![w] = "changed"]
    /\ UNCHANGED <<computed, frame, peeked, published, calls, conn, socket, dropping, view, faults>>

\* _snapshot_status_fields: one section of _state_lock.
StatusFields == value

\* The status() of _publish_status
ComputeStatus(w) ==
    /\ doing[w] = "changed"
    /\ computed' = [computed EXCEPT ![w] = StatusFields]
    /\ doing' = [doing EXCEPT ![w] = "computed"]
    /\ UNCHANGED <<value, frame, peeked, published, calls, conn, socket, dropping, view, faults>>

\* The manager.publish() of _publish_status
PublishStatus(w) ==
    /\ doing[w] = "computed"
    /\ calls' = Append(calls, Status(computed[w]))
    /\ published' = computed[w]
    /\ doing' = [doing EXCEPT ![w] = "idle"]
    /\ computed' = [computed EXCEPT ![w] = 0]
    /\ UNCHANGED <<value, frame, peeked, conn, socket, dropping, view, faults>>

\* peek_required_detail is not None
Subscribed == \E c \in Clients : registered[c]

\* _on_to_plot keeps the frame, and decides by the subscribers it saw first
\* (or because auto-relock is on) whether to publish it.
BuildFrame ==
    /\ ~peeked /\ frame < MaxFrames
    /\ frame' = frame + 1
    /\ peeked' \in {TRUE, Subscribed}
    /\ UNCHANGED <<value, doing, computed, published, calls, conn, socket, dropping, view, faults>>

PublishFrame ==
    /\ peeked
    /\ calls' = Append(calls, Plot(frame))
    /\ peeked' = FALSE
    /\ UNCHANGED <<value, doing, computed, frame, published, conn, socket, dropping, view, faults>>

-----------------------------------------------------------------------------
(* Opening a connection.                                                   *)

\* The hook's onclose timer, and the endpoint up to its accept().  The server
\* side of an earlier socket shares nothing with the new one.
Reconnect(c) ==
    /\ socket[c] = "closed" /\ ~registered[c] /\ dropping[c] = "no"
    /\ socket' = [socket EXCEPT ![c] = "accepted"]
    /\ UNCHANGED <<session, calls, conn, dropping, view, faults>>

\* What send_initial queues: the last frame, if any, and the status.
Snapshot == (IF frame = Nothing THEN <<>> ELSE <<Plot(frame)>>) \o <<Status(value)>>

\* register: the state enters _connections, its sender task is created.
Register(c) ==
    /\ registered' = [registered EXCEPT ![c] = TRUE]
    /\ sender' = [sender EXCEPT ![c] = "waiting"]

\* send_initial, once for each message: they go through the reliable queue,
\* which is new and has room for them.
SendInitial(c, messages) ==
    /\ queue' = [queue EXCEPT ![c] = messages]
    /\ wake' = [wake EXCEPT ![c] = TRUE]

\* register, snapshot and send_initial, with no suspension between them; the
\* sender task starts after them and finds the queue filled.
Handshake(c) ==
    /\ socket[c] = "accepted"
    /\ socket' = [socket EXCEPT ![c] = "open"]
    /\ Register(c)
    /\ SendInitial(c, Snapshot)
    /\ UNCHANGED <<session, calls, slot, sending, dropping, view, faults>>

-----------------------------------------------------------------------------
(* Broadcasting.                                                           *)

\* Mutant: a client whose queue is full misses the message and stays.
BroadcastStatus_SkipsFull(msg) ==
    LET fits == {c \in Clients : registered[c] /\ Len(queue[c]) < QueueSize} IN
    /\ msg.type = "status"
    /\ queue' = [c \in Clients |-> IF c \in fits THEN Append(queue[c], msg) ELSE queue[c]]
    /\ wake' = [c \in Clients |-> wake[c] \/ c \in fits]
    /\ UNCHANGED <<slot, dropping>>

\* A client whose queue is full goes on the stale list of this broadcast, to be
\* dropped after the loop over the clients.
BroadcastStatus(msg) ==
    LET fits == {c \in Clients : registered[c] /\ Len(queue[c]) < QueueSize}
        full == {c \in Clients : registered[c] /\ Len(queue[c]) >= QueueSize}
    IN
    /\ msg.type = "status"
    /\ queue' = [c \in Clients |-> IF c \in fits THEN Append(queue[c], msg) ELSE queue[c]]
    /\ wake' = [c \in Clients |-> wake[c] \/ c \in fits]
    /\ dropping' = [c \in Clients |->
                        IF c \in full /\ dropping[c] = "no" THEN "due" ELSE dropping[c]]
    /\ UNCHANGED slot

\* A frame replaces the one not sent yet, or gives way to it without DropOld;
\* the frame rate cap of a client may leave it out.
BroadcastPlot(msg) ==
    /\ msg.type = "plot"
    /\ \E sent \in SUBSET {c \in Clients : registered[c]} :
          /\ slot' = [c \in Clients |->
                         IF c \in sent /\ (DropOld \/ slot[c] = Nothing)
                           THEN msg.n ELSE slot[c]]
          /\ wake' = [c \in Clients |-> wake[c] \/ c \in sent]
    /\ UNCHANGED <<queue, dropping>>

Broadcast ==
    /\ calls # <<>>
    /\ calls' = Tail(calls)
    /\ BroadcastStatus(Head(calls)) \/ BroadcastPlot(Head(calls))
    /\ UNCHANGED <<session, registered, sender, sending, socket, view, faults>>

-----------------------------------------------------------------------------
(* Letting go of a connection.                                             *)

\* unregister: the state is popped and the sender task cancelled, with the
\* message it was sending.
Forget(c) ==
    /\ registered' = [registered EXCEPT ![c] = FALSE]
    /\ queue' = [queue EXCEPT ![c] = <<>>]
    /\ slot' = [slot EXCEPT ![c] = Nothing]
    /\ wake' = [wake EXCEPT ![c] = FALSE]
    /\ sender' = [sender EXCEPT ![c] = "none"]
    /\ sending' = [sending EXCEPT ![c] = Status(0)]

\* Mutant: a stale client is unregistered and its socket left open.
Drop_UnregisterOnly(c) ==
    /\ dropping[c] = "due"
    /\ Forget(c)
    /\ dropping' = [dropping EXCEPT ![c] = "no"]
    /\ UNCHANGED <<session, calls, socket, view, faults>>

\* The unregister of drop, after which it awaits the cancelled sender.
Drop(c) ==
    /\ dropping[c] = "due"
    /\ Forget(c)
    /\ dropping' = [dropping EXCEPT ![c] = "closing"]
    /\ UNCHANGED <<session, calls, socket, view, faults>>

\* The close of drop; the browser sees it.
CloseSocket(c) ==
    /\ dropping[c] = "closing"
    /\ socket' = [socket EXCEPT ![c] = "closed"]
    /\ dropping' = [dropping EXCEPT ![c] = "no"]
    /\ UNCHANGED <<session, calls, conn, view, faults>>

\* The tab is closed, or the network is gone.
Leave(c) ==
    /\ socket[c] = "open" /\ faults < MaxFaults
    /\ faults' = faults + 1
    /\ socket' = [socket EXCEPT ![c] = "closed"]
    /\ UNCHANGED <<session, calls, conn, dropping, view>>

\* The endpoint's receive_text() fails, and its finally unregisters.
EndpointEnds(c) ==
    /\ socket[c] = "closed" /\ registered[c]
    /\ Forget(c)
    /\ UNCHANGED <<session, calls, socket, dropping, view, faults>>

-----------------------------------------------------------------------------
(* The sender task.                                                        *)

\* From one dequeue to the next suspension: the reliable queue first, then the
\* frame; with neither, clear the event and sleep.
Pull(c) ==
    \/ /\ queue[c] # <<>>
       /\ sending' = [sending EXCEPT ![c] = Head(queue[c])]
       /\ queue' = [queue EXCEPT ![c] = Tail(queue[c])]
       /\ sender' = [sender EXCEPT ![c] = "sending"]
       /\ UNCHANGED <<slot, wake>>
    \/ /\ queue[c] = <<>> /\ slot[c] # Nothing
       /\ sending' = [sending EXCEPT ![c] = Plot(slot[c])]
       /\ slot' = [slot EXCEPT ![c] = Nothing]
       /\ sender' = [sender EXCEPT ![c] = "sending"]
       /\ UNCHANGED <<queue, wake>>
    \/ /\ queue[c] = <<>> /\ slot[c] = Nothing
       /\ wake' = [wake EXCEPT ![c] = FALSE]
       /\ sender' = [sender EXCEPT ![c] = "waiting"]
       /\ sending' = [sending EXCEPT ![c] = Status(0)]
       /\ UNCHANGED <<queue, slot>>

WakeUp(c) ==
    /\ sender[c] = "waiting" /\ wake[c]
    /\ Pull(c)
    /\ UNCHANGED <<session, calls, registered, socket, dropping, view, faults>>

Deliver(c) ==
    /\ sender[c] = "sending" /\ socket[c] = "open"
    /\ view' = IF sending[c].type = "status"
                 THEN [view EXCEPT ![c] = sending[c].n]
                 ELSE view
    /\ Pull(c)
    /\ UNCHANGED <<session, calls, registered, socket, dropping, faults>>

\* The except of _sender_loop, which drops its own connection.
SendFails(c) ==
    /\ sender[c] = "sending"
    /\ \/ socket[c] = "closed" /\ UNCHANGED faults
       \/ socket[c] = "open" /\ faults < MaxFaults /\ faults' = faults + 1
    /\ Forget(c)
    /\ dropping' = [dropping EXCEPT ![c] = "closing"]
    /\ UNCHANGED <<session, calls, socket, view>>

-----------------------------------------------------------------------------
Write(w)   == Change(w) \/ ComputeStatus(w) \/ PublishStatus(w)
Send(c)    == WakeUp(c) \/ Deliver(c) \/ SendFails(c)
Release(c) == Drop(c) \/ CloseSocket(c) \/ EndpointEnds(c)
Open(c)    == Reconnect(c) \/ Handshake(c)

StreamNext ==
    \/ \E w \in Writers : Write(w)
    \/ BuildFrame
    \/ PublishFrame
    \/ Broadcast
    \/ \E c \in Clients : Open(c) \/ Send(c) \/ Release(c) \/ Leave(c)

StreamSpec == StreamInit /\ [][StreamNext]_streamVars

\* The event loop serves every task that is ready, a thread that has begun to
\* publish goes on, and an open tab reconnects.
StreamFairSpec ==
    /\ StreamSpec
    /\ WF_streamVars(Broadcast) /\ WF_streamVars(PublishFrame)
    /\ \A w \in Writers : WF_streamVars(ComputeStatus(w)) /\ WF_streamVars(PublishStatus(w))
    /\ \A c \in Clients : WF_streamVars(Open(c)) /\ WF_streamVars(Send(c)) /\ WF_streamVars(Release(c))

-----------------------------------------------------------------------------
(* Properties.                                                             *)

\* Types; a reliable queue stays within its bound.
StreamTypeOK ==
    /\ value \in 0..MaxChanges /\ frame \in 0..MaxFrames /\ peeked \in BOOLEAN
    /\ doing \in [Writers -> {"idle", "changed", "computed"}]
    /\ computed \in [Writers -> 0..MaxChanges] /\ published \in 0..MaxChanges
    /\ calls \in Seq(Msgs)
    /\ socket \in [Clients -> {"closed", "accepted", "open"}]
    /\ registered \in [Clients -> BOOLEAN] /\ wake \in [Clients -> BOOLEAN]
    /\ queue \in [Clients -> Seq(Msgs)]
    /\ \A c \in Clients : Len(queue[c]) <= QueueSize
    /\ slot \in [Clients -> 0..MaxFrames]
    /\ sender \in [Clients -> {"none", "waiting", "sending"}]
    /\ sending \in [Clients -> Msgs]
    /\ dropping \in [Clients -> {"no", "due", "closing"}]
    /\ view \in [Clients -> 0..MaxChanges] /\ faults \in 0..MaxFaults

\* Whatever a client misses while it connects, waits or is dropped, once every
\* published status has been delivered to it, it shows the current one ("clients
\* with an open stream learn about connect/disconnect immediately",
\* session.py:1483; "ordering is preserved", main.py:2137), unless the session
\* itself published an older one last: two threads that publish at the same time
\* compute and hand over their statuses in any order.
Settled(c) ==
    /\ \A w \in Writers : doing[w] = "idle"
    /\ calls = <<>>
    /\ socket[c] = "open" /\ dropping[c] = "no"
    /\ queue[c] = <<>> /\ sender[c] # "sending"
SettledIsCurrent == \A c \in Clients : Settled(c) => view[c] \in {value, published}

\* The same without the exemption.
SettledIsAlwaysCurrent == \A c \in Clients : Settled(c) => view[c] = value

\* A sender sleeps on a cleared event only when there is nothing to send: a
\* message put between its last look and its sleep is never forgotten.
NoLostWakeup ==
    \A c \in Clients :
        sender[c] = "waiting" /\ ~wake[c] => queue[c] = <<>> /\ slot[c] = Nothing

\* A socket the browser believes open is served, or is about to be closed, so
\* that the browser's reconnect is triggered ("Every failure path must
\* therefore close the socket", stream.py:373).
OpenMeansServed ==
    \A c \in Clients : socket[c] = "open" => registered[c] \/ dropping[c] # "no"

\* However sends fail and queues overflow, every tab ends up connected and
\* showing the status the session ended up with, or published last.
Converges ==
    \A c \in Clients : <>[](socket[c] = "open" /\ view[c] \in {value, published})

=============================================================================
