----------------------------- MODULE Telemetry -----------------------------
(***************************************************************************)
(* The gateway's view of the telemetry daemon of one board                 *)
(* (linien-gateway/app/rp_telemetry.py, RpTelemetryManager).               *)
(*                                                                         *)
(* The poll coroutine and the on-demand reads run on the event loop, the   *)
(* operators' actions (install, uninstall, start, stop, restart, service   *)
(* status) on worker threads over SSH.  They share the cached entry of the *)
(* board under the manager's lock: a section of the lock is one action,    *)
(* and between two of them anything may happen.  Operators bump the        *)
(* entry's mutation_seq; readers capture it before they ask the board and  *)
(* drop their answer when it has moved.                                    *)
(*                                                                         *)
(* A temperature is only known to be there, and host metrics to be from    *)
(* the STATUS line of the temperature or from an older one.                *)
(***************************************************************************)
EXTENDS Naturals

CONSTANTS
    Operators,      \* worker threads that may be inside an action at once
    Reads,          \* on-demand reads that may be under way at once
    LossPolls,      \* SUSTAINED_LOSS_POLLS
    ProbeAttempts,  \* VERSION_PROBE_ATTEMPTS
    MaxActions,     \* bound on operators' actions and on-demand reads
    MaxBoardChanges, \* bound on what happens to the board by itself
    Deletions,      \* whether the device may be deleted
    Poll,           \* the poll coroutine
    Nil             \* Python's None

ASSUME TelemetryBounds ==
    /\ LossPolls \in Nat \ {0} /\ ProbeAttempts \in Nat \ {0}
    /\ MaxActions \in Nat /\ MaxBoardChanges \in Nat
    /\ Deletions \in BOOLEAN

ASSUME DistinctAssumption ==
    /\ Nil \notin {"old", "new"}
    /\ Poll \notin Reads

Readers == Reads \cup {Poll}
Builds  == {"old", "new"}      \* the gateway bundles "new"
Actions == {"install", "uninstall", "start", "stop", "restart", "status"}

VARIABLES
    \* TelemetryEntry
    state, temperature, metrics, installed, version,
    probed,         \* version_probed
    probeFails,     \* version_probe_failures
    seq,            \* mutation_seq
    failures,       \* consecutive_failures, counted up to LossPolls + 1
    lossReported,
    \* the device in devices.json
    stored, record,
    \* the board: its network, its unit, the build on its card and in its memory
    reachable, service, card, process,
    \* threads
    reader, op,
    acted, changed, \* used up of MaxActions and MaxBoardChanges
    \* history, read only by the properties
    overtaken,      \* the readers an operator's write has overtaken, or a deletion
    warned,         \* the outage has been reported
    answered        \* the build the daemon named when it was last asked

status  == <<state, temperature, metrics, installed>>
build   == <<version, probed, probeFails>>
health  == <<failures, lossReported, warned>>
entry   == <<status, build, seq, health, answered>>
device  == <<stored, record>>
board   == <<reachable, service, card, process>>
telemetryVars == <<entry, device, board, reader, op, acted, changed, overtaken>>

Idle == [at |-> "idle"]

TelemetryInit ==
    /\ state = "unknown" /\ temperature = FALSE /\ metrics = "none" /\ installed = FALSE
    /\ version = Nil /\ probed = FALSE /\ probeFails = 0
    /\ seq = 0 /\ failures = 0 /\ lossReported = FALSE
    /\ stored = TRUE /\ reachable = TRUE
    /\ \/ record = FALSE /\ service = "absent" /\ card = Nil
       \/ record = TRUE /\ service = "up" /\ card \in Builds
    /\ process = card
    /\ reader = [w \in Readers |-> Idle] /\ op = [o \in Operators |-> Idle]
    /\ acted = 0 /\ changed = 0
    /\ overtaken = [w \in Readers |-> "no"] /\ warned = FALSE /\ answered = Nil

-----------------------------------------------------------------------------
(* The board.                                                              *)

\* What a STATUS request comes to.
BoardAnswer ==
    CASE ~reachable -> "offline"
      [] reachable /\ service = "up" -> "running"
      [] reachable /\ service = "faulty" -> "error"
      [] OTHER -> "stopped"

\* Nobody listens on a board nothing was installed on.
Judged(answer, recorded) ==
    IF answer = "stopped" /\ ~recorded THEN "not_installed" ELSE answer

\* Networks, crashes, broken sensors, and people with a shell on the board.
BoardChanges ==
    /\ changed < MaxBoardChanges
    /\ changed' = changed + 1
    /\ \/ reachable' = ~reachable /\ UNCHANGED <<service, card, process>>
       \/ /\ service \in {"up", "faulty"}
          /\ service' \in {"down", "up", "faulty"} \ {service}
          /\ UNCHANGED <<reachable, card, process>>
       \/ /\ service = "down" /\ card # Nil        \* the unit restarts it
          /\ service' = "up" /\ process' = card
          /\ UNCHANGED <<reachable, card>>
       \/ /\ service = "up" /\ card' \in Builds \ {card}    \* copied, not restarted
          /\ UNCHANGED <<reachable, service, process>>
    /\ UNCHANGED <<entry, device, reader, op, acted, overtaken>>

-----------------------------------------------------------------------------
(* Readers.                                                                *)

At(w, place) == reader[w].at = place
Move(w, r)   == reader' = [reader EXCEPT ![w] = r]

\* poll_once lists the devices; a request fetches its own copy of one.
BeginRead(w) ==
    /\ At(w, "idle") /\ stored
    /\ Move(w, [at |-> "begun", recorded |-> record])
    /\ IF w = Poll THEN UNCHANGED acted
       ELSE acted < MaxActions /\ acted' = acted + 1
    /\ overtaken' = [overtaken EXCEPT ![w] = "no"]
    /\ UNCHANGED <<entry, device, board, op, changed>>

Capture(w) ==
    /\ At(w, "begun")
    /\ Move(w, [at |-> "asking", recorded |-> reader[w].recorded, seq |-> seq])
    /\ UNCHANGED <<entry, device, board, op, acted, changed, overtaken>>

\* A reader with its answer, and a build when it has asked for one.
Answered(w, place, answer, named, settled) ==
    [at |-> place, recorded |-> reader[w].recorded, seq |-> reader[w].seq,
     answer |-> answer, version |-> named, settled |-> settled]

\* The STATUS round trip; the poll goes on to ask a daemon it does not know
\* for its build.
Ask(w) ==
    /\ At(w, "asking")
    /\ LET answer == Judged(BoardAnswer, reader[w].recorded)
           place  == IF w = Poll /\ answer = "running" /\ ~probed
                       THEN "probing" ELSE "applying"
       IN Move(w, Answered(w, place, answer, Nil, FALSE))
    /\ UNCHANGED <<entry, device, board, op, acted, changed, overtaken>>

\* The VERSION round trip: only an answer settles it, or giving up.
ProbeAnswered ==
    /\ At(Poll, "probing")
    /\ reachable /\ service \in {"up", "faulty"}
    /\ Move(Poll, Answered(Poll, "applying", reader[Poll].answer, process, TRUE))
    /\ UNCHANGED <<entry, device, board, op, acted, changed, overtaken>>

ProbeLost ==
    /\ At(Poll, "probing")
    /\ probeFails' = probeFails + 1
    /\ Move(Poll, Answered(Poll, "applying", reader[Poll].answer, Nil,
                           probeFails + 1 >= ProbeAttempts))
    /\ UNCHANGED <<status, version, probed, seq, health, answered, device, board, op,
                   acted, changed, overtaken>>

\* Mutant: the answer is folded in whatever has happened since.
Current_Always(r) == TRUE

\* Mutant: an entry an operator has written is never refreshed.
Current_Untouched(r) == seq = 0

\* expect_seq
Current(r) == r.seq = seq

\* Mutant: on-demand reads move the counters of the poll.
Failures_Any(w, answer) ==
    IF answer = "running" THEN 0
    ELSE IF failures <= LossPolls THEN failures + 1 ELSE failures

\* track_health: only polls count.
Failures(w, answer) ==
    CASE w # Poll -> failures
      [] w = Poll /\ answer = "running" -> 0
      [] OTHER -> IF failures <= LossPolls THEN failures + 1 ELSE failures

\* Fold a current answer into the entry.  A bad one keeps the temperature but
\* forgets the metrics and that the daemon's build is known.
Fold(w, r) ==
    /\ installed' = r.recorded
    /\ version' = CASE r.version # Nil -> r.version
                    [] r.version = Nil /\ r.recorded /\ version = Nil -> "new"
                    [] OTHER -> version
    /\ state' = r.answer
    /\ failures' = Failures(w, r.answer)
    /\ IF r.answer = "running"
         THEN /\ temperature' = TRUE /\ metrics' = "same"
              /\ probed' = (probed \/ r.settled)
              /\ probeFails' = IF r.settled THEN 0 ELSE probeFails
              /\ warned' = IF w = Poll THEN FALSE ELSE warned
         ELSE /\ metrics' = "none"
              /\ probed' = FALSE /\ probeFails' = 0
              /\ UNCHANGED <<temperature, warned>>
    /\ answered' = IF r.settled THEN r.version
                   ELSE IF r.answer = "running" THEN answered ELSE Nil

Apply(w) ==
    /\ At(w, "applying")
    /\ LET r == reader[w] IN
       \/ /\ Current(r)
          /\ Fold(w, r)
          /\ Move(w, IF w # Poll THEN Idle
                     ELSE [at |-> "logging", answer |-> r.answer,
                           failures |-> Failures(w, r.answer), reported |-> lossReported])
       \/ /\ ~Current(r)
          /\ Move(w, Idle)
          /\ UNCHANGED <<status, build, failures, warned, answered>>
    /\ UNCHANGED <<seq, lossReported, device, board, op, acted, changed, overtaken>>

LossIsNew(r) == r.failures = LossPolls /\ ~r.reported

\* _log_transitions, on what _apply_reading found under the lock.
Log ==
    /\ At(Poll, "logging")
    /\ LET r == reader[Poll] IN
       IF r.answer = "running"
         THEN /\ lossReported' = IF r.reported THEN FALSE ELSE lossReported
              /\ UNCHANGED warned
         ELSE /\ lossReported' = (lossReported \/ LossIsNew(r))
              /\ warned' = (warned \/ LossIsNew(r))
    /\ Move(Poll, Idle)
    /\ UNCHANGED <<status, build, seq, failures, answered, device, board, op,
                   acted, changed, overtaken>>

-----------------------------------------------------------------------------
(* Operators.                                                              *)

Doing(o, action, place) == op[o].at = place /\ op[o].action = action
Step(o, place, result) ==
    op' = [op EXCEPT ![o] = [at |-> place, action |-> op[o].action, result |-> result]]
Done(o) == op' = [op EXCEPT ![o] = Idle]

UnderWay(w) == reader[w].at \in {"asking", "probing", "applying"}

\* A deletion outweighs a write.
Overtake(how) ==
    overtaken' = [w \in Readers |->
                    IF UnderWay(w) /\ overtaken[w] # "forgotten" THEN how ELSE overtaken[w]]

\* An operator's write: what readers asked for before it is out of date.
Bump == Overtake("yes") /\ seq' = seq + 1

Healthy == failures' = 0 /\ lossReported' = FALSE /\ warned' = FALSE
Unknown == probed' = FALSE /\ probeFails' = 0 /\ answered' = Nil

Start(o, action) ==
    /\ op[o] = Idle /\ stored /\ acted < MaxActions
    /\ acted' = acted + 1
    /\ op' = [op EXCEPT ![o] = [at |-> "ssh", action |-> action, result |-> Nil]]
    /\ UNCHANGED <<entry, device, board, reader, changed, overtaken>>

\* The SSH part fails or stops half-way; the entry is not touched.
SshFails(o) ==
    /\ op[o].at = "ssh"
    /\ \/ UNCHANGED board
       \/ /\ reachable /\ op[o].action = "install"
          /\ card' = "new" /\ service' \in {service, "down"}
          /\ UNCHANGED <<reachable, process>>
       \/ /\ reachable /\ op[o].action = "uninstall" /\ service # "absent"
          /\ service' \in {"down", "absent"}
          /\ UNCHANGED <<reachable, card, process>>
       \/ /\ reachable /\ op[o].action = "restart" /\ service # "absent"
          /\ service' = "down"
          /\ UNCHANGED <<reachable, card, process>>
    /\ Done(o)
    /\ UNCHANGED <<entry, device, reader, acted, changed, overtaken>>

\* install: upload, unit file, enable, restart, is-active.
InstallOnBoard(o) ==
    /\ Doing(o, "install", "ssh") /\ reachable
    /\ card' = "new" /\ process' = "new" /\ service' = "up"
    /\ Step(o, "recording", Nil)
    /\ UNCHANGED <<entry, device, reachable, reader, acted, changed, overtaken>>

\* uninstall: stop, disable, remove.
UninstallOnBoard(o) ==
    /\ Doing(o, "uninstall", "ssh") /\ reachable
    /\ card' = Nil /\ process' = Nil /\ service' = "absent"
    /\ Step(o, "recording", Nil)
    /\ UNCHANGED <<entry, device, reachable, reader, acted, changed, overtaken>>

\* _persist_install_record, before the entry is told.  A device that has been
\* deleted meanwhile is saved again.
Record(o) ==
    /\ op[o].at = "recording"
    /\ record' = (op[o].action = "install")
    /\ stored' = TRUE
    /\ Step(o, "telling", Nil)
    /\ UNCHANGED <<entry, board, reader, acted, changed, overtaken>>

TellInstalled(o) ==
    /\ Doing(o, "install", "telling")
    /\ installed' = TRUE /\ version' = "new"
    /\ Unknown /\ Healthy /\ Bump
    /\ Step(o, "verifying", Nil)
    /\ UNCHANGED <<state, temperature, metrics, device, board, reader, acted, changed>>

\* _verify_installed_daemon
VerifyDaemon(o) ==
    /\ Doing(o, "install", "verifying")
    /\ Step(o, "verdict", BoardAnswer)
    /\ UNCHANGED <<entry, device, board, reader, acted, changed, overtaken>>

\* A running daemon's reading is stored without its metrics.
Verdict(o) ==
    /\ Doing(o, "install", "verdict")
    /\ state' = op[o].result
    /\ IF op[o].result = "running"
         THEN temperature' = TRUE /\ metrics' = IF metrics = "none" THEN "none" ELSE "older"
         ELSE UNCHANGED <<temperature, metrics>>
    /\ Bump
    /\ Done(o)
    /\ UNCHANGED <<installed, build, health, answered, device, board, reader, acted, changed>>

TellUninstalled(o) ==
    /\ Doing(o, "uninstall", "telling")
    /\ installed' = FALSE /\ state' = "not_installed" /\ version' = Nil
    /\ temperature' = FALSE
    /\ Unknown /\ Healthy /\ Bump
    /\ Done(o)
    /\ UNCHANGED <<metrics, device, board, reader, acted, changed>>

\* systemctl start, restart, stop, and is-active.
ServiceOnBoard(o) ==
    /\ op[o].at = "ssh" /\ reachable /\ service # "absent" /\ card # Nil
    /\ \/ /\ op[o].action \in {"start", "restart"}
          /\ service' \in {"up", "down"}
          /\ Step(o, "telling", service')
          /\ process' = IF op[o].action = "start" /\ service = "up" THEN process ELSE card
       \/ /\ op[o].action = "stop"
          /\ service' = "down" /\ process' = process
          /\ Step(o, "telling", "down")
    /\ UNCHANGED <<entry, device, reachable, card, reader, acted, changed, overtaken>>

TellStopped(o) ==
    /\ Doing(o, "stop", "telling")
    /\ state' = "stopped"
    /\ Bump
    /\ Done(o)
    /\ UNCHANGED <<temperature, metrics, installed, build, health, answered, device, board,
                   reader, acted, changed>>

TellStarted(o) ==
    /\ op[o].at = "telling" /\ op[o].action \in {"start", "restart"}
    /\ Healthy /\ Bump
    /\ IF op[o].result = "up"
         THEN state' = "running" /\ temperature' = FALSE /\ Unknown
         ELSE UNCHANGED <<state, temperature, probed, probeFails, answered>>
    /\ Done(o)
    /\ UNCHANGED <<metrics, installed, version, device, board, reader, acted, changed>>

\* service_status: is-active, and --version of the build on the card.
StatusOnBoard(o) ==
    /\ Doing(o, "status", "ssh") /\ reachable
    /\ IF card = Nil THEN Done(o) ELSE Step(o, "telling", card)
    /\ UNCHANGED <<entry, device, board, reader, acted, changed, overtaken>>

TellVersion(o) ==
    /\ Doing(o, "status", "telling")
    /\ version' = op[o].result
    /\ Bump
    /\ Done(o)
    /\ UNCHANGED <<status, probed, probeFails, health, answered, device, board, reader,
                   acted, changed>>

\* delete_device, and forget: the next access finds an entry as new.
Delete ==
    /\ Deletions /\ stored
    /\ stored' = FALSE /\ record' = FALSE
    /\ UNCHANGED <<entry, board, reader, op, acted, changed, overtaken>>

Forget ==
    /\ Deletions /\ ~stored /\ state # "unknown"
    /\ state' = "unknown" /\ temperature' = FALSE /\ metrics' = "none" /\ installed' = FALSE
    /\ version' = Nil /\ Unknown /\ Healthy
    /\ seq' = 0
    /\ Overtake("forgotten")
    /\ UNCHANGED <<device, board, reader, op, acted, changed>>

OperatorStep(o) ==
    \/ SshFails(o)
    \/ InstallOnBoard(o) \/ UninstallOnBoard(o) \/ ServiceOnBoard(o) \/ StatusOnBoard(o)
    \/ Record(o)
    \/ TellInstalled(o) \/ VerifyDaemon(o) \/ Verdict(o)
    \/ TellUninstalled(o) \/ TellStopped(o) \/ TellStarted(o) \/ TellVersion(o)

ReaderStep(w) == BeginRead(w) \/ Capture(w) \/ Ask(w) \/ Apply(w)
PollStep == ReaderStep(Poll) \/ ProbeAnswered \/ ProbeLost \/ Log

TelemetryNext ==
    \/ \E w \in Readers : BeginRead(w)
    \/ \E w \in Readers : Capture(w)
    \/ \E w \in Readers : Ask(w)
    \/ \E w \in Readers : Apply(w)
    \/ ProbeAnswered \/ ProbeLost \/ Log
    \/ \E o \in Operators, a \in Actions : Start(o, a)
    \/ \E o \in Operators : OperatorStep(o)
    \/ BoardChanges \/ Delete \/ Forget

TelemetrySpec == TelemetryInit /\ [][TelemetryNext]_telemetryVars

\* The poll task runs for ever, requests on the event loop return, and an SSH
\* command ends or times out.
TelemetryFairness ==
    /\ WF_telemetryVars(PollStep)
    /\ \A w \in Reads : WF_telemetryVars(Capture(w) \/ Ask(w) \/ Apply(w))
    /\ \A o \in Operators : WF_telemetryVars(OperatorStep(o))

TelemetryFairSpec == TelemetrySpec /\ TelemetryFairness

-----------------------------------------------------------------------------
(* Properties.                                                             *)

Answers == {"unknown", "running", "stopped", "not_installed", "offline", "error"}

\* What a reader carries from place to place, and an operator.
Readings ==
    [at : {"idle"}]
    \cup [at : {"begun"}, recorded : BOOLEAN]
    \cup [at : {"asking"}, recorded : BOOLEAN, seq : Nat]
    \cup [at : {"probing", "applying"}, recorded : BOOLEAN, seq : Nat, answer : Answers,
          version : Builds \cup {Nil}, settled : BOOLEAN]
    \cup [at : {"logging"}, answer : Answers, failures : 0..(LossPolls + 1), reported : BOOLEAN]

Work ==
    [at : {"idle"}]
    \cup [at : {"ssh"}, action : Actions, result : {Nil}]
    \cup [at : {"recording", "telling"}, action : {"install", "uninstall"}, result : {Nil}]
    \cup [at : {"verifying"}, action : {"install"}, result : {Nil}]
    \cup [at : {"verdict"}, action : {"install"}, result : Answers]
    \cup [at : {"telling"}, action : {"start", "stop", "restart"}, result : {"up", "down"}]
    \cup [at : {"telling"}, action : {"status"}, result : Builds]

\* Type invariant of the entry, the device record, the board and the threads.
TelemetryTypeOK ==
    /\ state \in Answers
    /\ metrics \in {"none", "same", "older"}
    /\ temperature \in BOOLEAN /\ installed \in BOOLEAN /\ probed \in BOOLEAN
    /\ version \in Builds \cup {Nil} /\ answered \in Builds \cup {Nil}
    /\ probeFails \in Nat /\ seq \in Nat /\ failures \in 0..(LossPolls + 1)
    /\ lossReported \in BOOLEAN /\ warned \in BOOLEAN
    /\ stored \in BOOLEAN /\ record \in BOOLEAN /\ reachable \in BOOLEAN
    /\ service \in {"absent", "down", "up", "faulty"}
    /\ card \in Builds \cup {Nil} /\ process \in Builds \cup {Nil}
    /\ reader \in [Readers -> Readings] /\ op \in [Operators -> Work]
    /\ acted \in 0..MaxActions /\ changed \in 0..MaxBoardChanges
    /\ overtaken \in [Readers -> {"no", "yes", "forgotten"}]

\* A reading that was requested before an operator's action changed the entry
\* never undoes it, whichever of poll, on-demand read and action overlap.  (Unless the device was
\* deleted meanwhile: its entry starts counting anew.)
OperatorsWin ==
    [][\A w \in Readers :
        overtaken[w] = "yes" /\ At(w, "applying") /\ ~At(w, "applying")'
            => UNCHANGED <<status, build, health>>]_telemetryVars

\* A sustained loss is reported: the operator's reset of the counters, which
\* may fall between counting a failure and reporting it, never hides one.
LossIsReported == failures >= LossPolls /\ ~At(Poll, "logging") => warned

\* When operators and board come to rest, the gateway comes to show what the
\* board is: running, faulty, stopped, without telemetry or away, and whether
\* telemetry is recorded as installed.
ShowsTheBoard ==
    <>[](stored => state = Judged(BoardAnswer, record) /\ installed = record)

\* service_status: "NOT version_probed ... Display it, keep probing."  A build
\* the gateway takes for settled is the one the running daemon named.
SettledBuildWasNamed ==
    probed /\ answered # Nil => version = answered

\* TelemetryEntry: metrics are "from the same STATUS line as temperature_c, so
\* they share sampled_at and cannot disagree about how old the reading is".
MetricsShareSample == state = "running" /\ metrics # "none" => temperature /\ metrics = "same"

\* _poll_device: an action landing in the window "must win over everything this
\* cycle later computes -- the reading, installed, and version_probed".
InstalledIsRecorded ==
    [][\A w \in Readers : At(w, "applying") /\ installed' # installed => installed' = record]_telemetryVars


=============================================================================
