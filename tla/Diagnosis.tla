----------------------------- MODULE Diagnosis -----------------------------
(***************************************************************************)
(* Why a connection was lost (linien-gateway/app/diagnosis.py): the        *)
(* scheduler that hands a disconnected device to a pool of probes, the     *)
(* probe itself (TCP, then over SSH the uptime, the FPGA state and the     *)
(* boot id, then, if a reboot is ruled out, the lock register), and the    *)
(* verdict, against one board that reboots, crashes, drops off the network *)
(* and is started again while all this goes on.                            *)
(*                                                                         *)
(* Time is a count of ticks: an uptime and an absence are differences of   *)
(* two readings of it, which a probe takes at different moments.           *)
(***************************************************************************)
EXTENDS Naturals

CONSTANTS
    Workers,    \* the threads of the pool
    Threshold,  \* uptime_threshold_s
    MaxTime,    \* bound on the clock
    MaxBoots,   \* bound on boots of the board
    MaxProbes,  \* bound on probes
    PromptDrop, \* whether the gateway notices a lost board before it is back
    None

ASSUME BoundsAssumption ==
    /\ {Threshold, MaxTime, MaxBoots, MaxProbes} \subseteq Nat
    /\ PromptDrop \in BOOLEAN
ASSUME NoneAssumption == None \notin Nat /\ None \notin Workers

VARIABLES
    now,
    board,      \* what the board is doing
    session,    \* DeviceSession: connected, _wants_diagnosis, _last_connected_at,
                \* and the boot it was connected to
    known,      \* _last_healthy_boot_id
    reading,    \* a boot id worker is about to read
    unsaved,    \* the ids boot id workers have read and not yet stored
    sched,      \* _pending and _inflight for this device
    probe,      \* each worker's probe
    diag,       \* _diagnosis_cache
    probes      \* used up of MaxProbes

bootIds == <<known, reading, unsaved>>
vars == <<now, board, session, bootIds, sched, probe, diag, probes>>

Idle == [at |-> "idle", since |-> None, known |-> None, served |-> None, number |-> 0,
         boot |-> None, uptime |-> None, fpga |-> "unknown", id |-> None,
         reached |-> "none", bit |-> "unknown"]

Init ==
    /\ now = 0
    /\ board = [boot |-> 1, bootedAt |-> 0, on |-> TRUE, server |-> TRUE, gateware |-> TRUE]
    /\ session = [connected |-> FALSE, wants |-> FALSE, connectedAt |-> None, served |-> None]
    /\ known = None /\ reading = FALSE /\ unsaved = {}
    /\ sched = [pending |-> FALSE, inflight |-> FALSE]
    /\ probe = [w \in Workers |-> Idle]
    /\ diag = None
    /\ probes = 0

-----------------------------------------------------------------------------
(* The board and the clock.                                                *)

Tick ==
    /\ now < MaxTime /\ now' = now + 1
    /\ UNCHANGED <<board, session, bootIds, sched, probe, diag, probes>>

\* A reboot loses the gateware, and a server that crashes does not; a server that
\* is started loads it anew.  "The user has NOT enabled linien-server auto-start
\* on boot."
BoardChanges ==
    /\ \/ board.server /\ board' = [board EXCEPT !.server = FALSE]
       \/ board.on /\ ~board.server
          /\ board' = [board EXCEPT !.server = TRUE, !.gateware = TRUE]
       \/ board.on
          /\ board' = [board EXCEPT !.on = FALSE, !.server = FALSE, !.gateware = FALSE]
       \/ ~board.on /\ board.boot < MaxBoots
          /\ (PromptDrop => ~session.connected)
          /\ board' = [board EXCEPT !.on = TRUE, !.boot = @ + 1, !.bootedAt = now]
    /\ UNCHANGED <<now, session, bootIds, sched, probe, diag, probes>>

-----------------------------------------------------------------------------
(* The session's side.                                                     *)

\* A successful connection: _last_connected_at, no diagnosis, a boot id worker.
Connect ==
    /\ ~session.connected /\ board.server
    /\ session' = [connected |-> TRUE, wants |-> FALSE, connectedAt |-> now,
                   served |-> board.boot]
    /\ diag' = None
    /\ reading' = TRUE
    /\ UNCHANGED <<now, board, known, unsaved, sched, probe, probes>>

\* Mutant: a probe that is running does not count.
Schedule_PendingOnly == [sched EXCEPT !.pending = TRUE]

\* request: "deduplicates against both scheduled and currently-running".
Schedule == IF sched.inflight THEN sched ELSE [sched EXCEPT !.pending = TRUE]

\* The connection is lost, to the board or to the network, or an attempt to
\* connect fails: the session asks for a probe.
Drop ==
    /\ session.connected \/ ~board.server
    /\ session' = [session EXCEPT !.connected = FALSE, !.wants = TRUE]
    /\ sched' = Schedule
    /\ UNCHANGED <<now, board, bootIds, probe, diag, probes>>

\* The operator disconnects: _clear_diagnosis.
Disconnect ==
    /\ session.connected \/ session.wants
    /\ session' = [session EXCEPT !.connected = FALSE, !.wants = FALSE]
    /\ diag' = None
    /\ UNCHANGED <<now, board, bootIds, sched, probe, probes>>

\* read_boot_id, over an SSH connection of its own; it may fail.
ReadBootId ==
    /\ reading /\ reading' = FALSE
    /\ \/ UNCHANGED unsaved
       \/ board.on /\ unsaved' = unsaved \cup {board.boot}
    /\ UNCHANGED <<now, board, session, known, sched, probe, diag, probes>>

\* Mutant: the id is stored whether or not the board is still connected.
StoresBootId_Always == TRUE

\* "Storing the id now would date it to a connection that no longer exists."
StoresBootId == session.connected

SaveBootId(id) ==
    /\ id \in unsaved /\ unsaved' = unsaved \ {id}
    /\ known' = IF StoresBootId THEN id ELSE known
    /\ UNCHANGED <<now, board, session, reading, sched, probe, diag, probes>>

-----------------------------------------------------------------------------
(* The verdict: _looks_rebooted and classify_diagnosis.                    *)

\* Mutant: the threshold is applied whatever is known.
LooksRebooted_Threshold(p) ==
    IF p.known # None /\ p.id # None THEN p.known # p.id ELSE p.uptime < Threshold

\* _looks_rebooted.
LooksRebooted(p) ==
    IF p.known # None /\ p.id # None THEN p.known # p.id
    ELSE IF p.since # None THEN p.uptime < p.since
    ELSE p.uptime < Threshold

\* "Only trust the lock register when a reboot is ruled out."
ShouldRead(p) == p.uptime # None /\ p.fpga = "yes" /\ ~LooksRebooted(p)

\* The elifs of classify_diagnosis, in their order.
Category(p) ==
    IF p.reached = "server" THEN "recovering"
    ELSE IF p.reached = "none" THEN "host_unreachable"
    ELSE IF p.uptime = None THEN "server_down_unknown"
    ELSE IF LooksRebooted(p) THEN "rebooted"
    ELSE "server_crashed"

\* Without the lock register, the gateware tells what it can.
LockState(p) ==
    IF Category(p) = "rebooted" THEN "lost"
    ELSE IF Category(p) # "server_crashed" THEN "unknown"
    ELSE IF p.bit = "yes" THEN "locked"
    ELSE IF p.bit = "no" THEN "unlocked"
    ELSE IF p.fpga = "no" THEN "lost"
    ELSE IF p.fpga = "unknown" THEN "unknown"
    ELSE "likely_held"

Evidence(p) ==
    IF p.known # None /\ p.id # None THEN "boot_id"
    ELSE IF p.since # None THEN "absence"
    ELSE "uptime_threshold"

Verdict(p) == [category |-> Category(p), lock |-> LockState(p), evidence |-> Evidence(p),
               attempted |-> p.at = "register", boot |-> p.boot, served |-> p.served,
               number |-> p.number]

\* A probe that has its answer.
Done(p) == [at |-> "apply", verdict |-> Verdict(p)]

-----------------------------------------------------------------------------
(* The scheduler and its pool.                                             *)

Probing(w, place) == probe[w].at = place

\* _pop_ready, the pool, and the beginning of _probe_once: a device that has
\* come back is left alone, and the absence is measured here.
Dispatch(w) ==
    /\ sched.pending /\ Probing(w, "idle")
    /\ probes < MaxProbes /\ probes' = probes + 1
    /\ IF session.connected \/ ~session.wants
         THEN sched' = [sched EXCEPT !.pending = FALSE] /\ UNCHANGED probe
         ELSE /\ sched' = [pending |-> FALSE, inflight |-> TRUE]
              /\ probe' = [probe EXCEPT ![w] =
                   [Idle EXCEPT !.at = "tcp", !.known = known, !.served = session.served,
                                !.number = probes + 1,
                                !.since = IF session.connectedAt = None THEN None
                                          ELSE now - session.connectedAt]]
    /\ UNCHANGED <<now, board, session, bootIds, diag>>

\* _tcp_open, on the port of the server
TcpOpen == board.server

\* probe_device begins: is the server listening again?
Tcp(w) ==
    /\ Probing(w, "tcp")
    /\ probe' = [probe EXCEPT ![w] =
                   IF TcpOpen THEN Done([@ EXCEPT !.reached = "server"])
                   ELSE [@ EXCEPT !.at = "ssh"]]
    /\ UNCHANGED <<now, board, session, bootIds, sched, diag, probes>>

\* _read_uptime_and_fpga: one compound read, a part of which may be missing.
BoardState(p) ==
    LET full == [p EXCEPT !.uptime = now - board.bootedAt, !.id = board.boot, !.boot = board.boot,
                          !.fpga = IF board.gateware THEN "yes" ELSE "no"]
    IN {p, full, [full EXCEPT !.uptime = None], [full EXCEPT !.fpga = "unknown"],
        [full EXCEPT !.id = None]}

\* The SSH session: without a login nothing is known but that the board answers.
ReadState(w) ==
    /\ Probing(w, "ssh")
    /\ LET p == [probe[w] EXCEPT !.reached = "host"]
           told(q) == IF ShouldRead(q) THEN [q EXCEPT !.at = "register"] ELSE Done(q)
       IN \/ probe' = [probe EXCEPT ![w] = Done(@)]
          \/ board.on /\ \E q \in BoardState(p) : probe' = [probe EXCEPT ![w] = told(q)]
    /\ UNCHANGED <<now, board, session, bootIds, sched, diag, probes>>

\* _read_lock_bit, over the same SSH session; every method may fail.
LockBits(p) ==
    {"unknown"} \cup
    (IF board.on /\ board.boot = p.boot /\ board.gateware THEN {"yes", "no"} ELSE {})

ReadRegister(w) ==
    /\ Probing(w, "register")
    /\ \E bit \in LockBits(probe[w]) :
         probe' = [probe EXCEPT ![w] = Done([@ EXCEPT !.bit = bit])]
    /\ UNCHANGED <<now, board, session, bootIds, sched, diag, probes>>

-----------------------------------------------------------------------------
(* The result.                                                             *)

\* apply_diagnosis drops the result of a board that has come back;
\* _probe_and_reschedule asks for the next.
Apply(w) ==
    /\ Probing(w, "apply")
    /\ diag' = IF session.connected THEN diag ELSE probe[w].verdict
    /\ probe' = [probe EXCEPT ![w] = Idle]
    /\ sched' = [pending |-> sched.pending \/ (session.wants /\ ~session.connected), inflight |-> FALSE]
    /\ UNCHANGED <<now, board, session, bootIds, probes>>

\* The gateway starts again: _restore_last_healthy keeps the time and the id.
Restart ==
    /\ \E w \in Workers : ~Probing(w, "idle")
    /\ session' = [session EXCEPT !.connected = FALSE, !.wants = FALSE]
    /\ reading' = FALSE /\ unsaved' = {}
    /\ sched' = [pending |-> FALSE, inflight |-> FALSE]
    /\ probe' = [w \in Workers |-> Idle]
    /\ diag' = None
    /\ UNCHANGED <<now, board, known, probes>>

Next ==
    \/ Tick \/ BoardChanges
    \/ Connect \/ Drop \/ Disconnect
    \/ ReadBootId \/ \E id \in 1..MaxBoots : SaveBootId(id)
    \/ \E w \in Workers : \/ Dispatch(w) \/ Tcp(w) \/ ReadState(w)
                          \/ ReadRegister(w) \/ Apply(w)
    \/ Restart

Spec == Init /\ [][Next]_vars

-----------------------------------------------------------------------------
(* Properties.                                                             *)

Number == Nat \cup {None}
Answer == {"yes", "no", "unknown"}
Verdicts ==
    [category  : {"recovering", "host_unreachable", "server_down_unknown", "rebooted",
                  "server_crashed"},
     lock      : {"lost", "locked", "unlocked", "unknown", "likely_held"},
     evidence  : {"boot_id", "absence", "uptime_threshold"},
     attempted : BOOLEAN, boot : Number, served : Number, number : Nat]
Probes ==
    [at : {"idle", "tcp", "ssh", "register"}, since : Number, known : Number,
     served : Number, number : Nat, boot : Number, uptime : Number, fpga : Answer,
     id : Number, reached : {"none", "host", "server"}, bit : Answer]

\* The types of the variables.
TypeOK ==
    /\ {now, probes} \subseteq Nat
    /\ board \in [boot : Nat, bootedAt : Nat, on : BOOLEAN, server : BOOLEAN,
                  gateware : BOOLEAN]
    /\ session \in [connected : BOOLEAN, wants : BOOLEAN, connectedAt : Number,
                    served : Number]
    /\ known \in Number /\ reading \in BOOLEAN /\ unsaved \subseteq Nat
    /\ sched \in [pending : BOOLEAN, inflight : BOOLEAN]
    /\ probe \in [Workers -> Probes \cup [at : {"apply"}, verdict : Verdicts]]
    /\ diag \in Verdicts \cup {None}

\* The gate of the register and the verdict answer the same question: a lock is
\* called likely held ("lock register unreadable") only after a try to read it
\* ("These MUST agree").
UnreadableWasTried ==
    diag # None /\ diag.lock = "likely_held" => diag.attempted

\* Without boot ids, a board is called rebooted only if it has rebooted since it
\* was last connected: "a linien-server that died on a board which had just
\* finished booting has low uptime and has not rebooted".
AbsenceProvesReboot ==
    diag # None /\ diag.category = "rebooted" /\ diag.evidence = "absence"
      => diag.boot > diag.served

\* With boot ids, a board that was found not to have rebooted had not, when it
\* was asked, since it was last connected.
SameIdMeansNoReboot ==
    diag # None /\ diag.category = "server_crashed" /\ diag.evidence = "boot_id"
      => diag.boot = diag.served

\* Of two verdicts in one outage the later is of the later probe: "a device is
\* never probed twice concurrently".
VerdictsInOrder ==
    [][diag # None /\ diag' # None => diag'.number >= diag.number]_diag

\* "Comparing the board's current one against the one it had while we were last
\* connected answers the question outright": a different id is a reboot since.
OtherIdMeansReboot ==
    diag # None /\ diag.category = "rebooted" /\ diag.evidence = "boot_id"
      => diag.boot > diag.served
=============================================================================
