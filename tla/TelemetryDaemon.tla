-------------------------- MODULE TelemetryDaemon --------------------------
(***************************************************************************)
(* The telemetry daemon on the board (rp-telemetry/src/rp_telemetry.c): a  *)
(* single thread that accepts one client at a time, reads one request,     *)
(* reads the die temperature and the host metrics for it, answers and      *)
(* closes.  It finds the XADC of the processing system (PS) among the IIO  *)
(* devices by where it lives, keeps the path, and looks again only after a *)
(* read has failed; the XADC in the FPGA (PL) must not be read.            *)
(*                                                                         *)
(* Around it, IIO devices come and go while it works, the clock of         *)
(* /proc/stat runs, and clients come, drip bytes, fall silent or leave.    *)
(***************************************************************************)
EXTENDS Integers, Sequences, SequencesExt

CONSTANTS
    Slots,          \* names below /sys/bus/iio/devices
    Strict,         \* the default IIO root: a real board
    Clients,
    MaxRequest,     \* MAX_REQUEST, with the terminator
    MaxResponse,    \* MAX_RESPONSE, with the newline and the terminator
    Prefix,         \* length of "RPT1 <temperature>"
    OtherKeys,      \* metrics between cpu and vccaux
    MaxText,        \* length of the longest " key=value"
    MinDelta,       \* CPU_MIN_DELTA_JIFFIES
    MaxWindow,      \* bound on the jiffies between two samples
    MaxJump,        \* bound on how far a jump takes the counters from the baseline
    MaxChanges,     \* bound on changes of the devices and jumps of the counters
    None

ASSUME BoundsAssumption ==
    /\ Strict \in BOOLEAN
    /\ MaxRequest \in Nat \ {0, 1} /\ OtherKeys \in Nat /\ MaxText \in Nat \ {0}
    /\ Prefix \in Nat /\ MaxResponse \in Nat /\ Prefix + 2 <= MaxResponse
    /\ MinDelta \in Nat \ {0} /\ MaxWindow \in Nat /\ MinDelta <= MaxWindow
    /\ MaxJump \in 0..MaxWindow
    /\ MaxChanges \in Nat

ASSUME NoneAssumption == None \notin Slots /\ None \notin Clients /\ None \notin Int

Hardware == {"ps", "pl", "other", "none"}

VARIABLES
    sysfs,      \* what each name is at the moment
    mute,       \* names whose files exist and cannot be read
    xadc,       \* struct xadc: ready, the device of raw_path, the one of rail_raw_path
    cpu,        \* struct metrics: have_prev_cpu, cpu_pct or None
    since,      \* /proc/stat against the baseline (prev_total, prev_busy)
    load,       \* whether the processor is busy at the moment
    backlog,    \* the clients whose connection waits to be accepted
    conn,       \* the connection being handled
    daemon,     \* "starting", "running", "stopped" by a signal, "failed"
    changes,    \* used up of MaxChanges
    \* history
    touched,    \* the hardware the last read went to
    renamed,    \* names that have come to mean another device since the last scan
    astray      \* whether the last read went by one of these

devices == <<sysfs, mute, renamed>>
procs   == <<cpu, since>>
reads   == <<touched, astray>>
vars    == <<devices, changes, xadc, procs, load, backlog, conn, daemon, reads>>

NoConn == [at |-> "accept"]

-----------------------------------------------------------------------------
(* Finding the XADC.                                                       *)

\* xadc_rank, by what the resolved path names.
Rank(s) == CASE sysfs[s] = "ps" -> 0 [] sysfs[s] = "other" -> 1 [] OTHER -> -1

\* Mutant: an unclassified device is taken on a real board, too.
Acceptable_Unclassified(s) == Rank(s) >= 0 /\ s \notin mute

\* Present, safe to read, and its offset and scale can be read.
Acceptable(s) == /\ Rank(s) >= 0 /\ (Strict => Rank(s) = 0)
                 /\ s \notin mute

\* The devices a scan may settle on: the directory has no order, but the PS
\* XADC beats anything else.
Best == {s \in Slots : Acceptable(s) /\ \A t \in Slots : Acceptable(t) => Rank(s) <= Rank(t)}

\* The rail is looked for on the device just chosen and no other.
Discovered(s) == [ready |-> TRUE, raw |-> s, rail |-> s]

\* The possible outcomes of xadc_discover.
DiscoverResults ==
    IF Best = {} THEN {[xadc EXCEPT !.ready = FALSE, !.rail = None]}
    ELSE UNION {{Discovered(s), [Discovered(s) EXCEPT !.rail = None]} : s \in Best}

\* xadc_discover
Discover ==
    /\ xadc' \in DiscoverResults
    /\ renamed' = {}
    /\ UNCHANGED <<sysfs, mute, changes, reads>>

Readable(s) == s # None /\ sysfs[s] # "none" /\ s \notin mute

Touch(s) == touched' = sysfs[s] /\ astray' = (s \in renamed)

NoXadc == [ready |-> FALSE, raw |-> None, rail |-> None]
NoCpu  == [known |-> FALSE, pct |-> None]

Baseline == [all |-> 0, busy |-> 0]

Init ==
    /\ sysfs \in [Slots -> Hardware] /\ \E s \in Slots : sysfs[s] = "ps" /\ \A t \in Slots \ {s} : sysfs[t] # "ps"
    /\ mute = {} /\ renamed = {} /\ changes = 0
    /\ xadc = NoXadc
    /\ cpu = NoCpu /\ since = Baseline
    /\ load \in {0, 1}
    /\ backlog = <<>> /\ conn = NoConn
    /\ daemon = "starting" /\ touched = "none" /\ astray = FALSE

-----------------------------------------------------------------------------
(* The board and the clients.                                              *)

\* A device becomes unreadable or readable again, vanishes, or changes its name
\* with another.
DevicesChange ==
    /\ changes < MaxChanges /\ changes' = changes + 1
    /\ \/ /\ \E s \in Slots : mute' = (mute \ {s}) \cup ({s} \ mute)
          /\ UNCHANGED <<sysfs, renamed>>
       \/ /\ \E s \in Slots : sysfs[s] # "none" /\ sysfs' = [sysfs EXCEPT ![s] = "none"]
          /\ UNCHANGED <<mute, renamed>>
       \/ /\ \E s, t \in Slots : /\ sysfs' = [sysfs EXCEPT ![s] = sysfs[t], ![t] = sysfs[s]]
                                /\ renamed' = renamed \cup {s, t}
          /\ UNCHANGED mute
    /\ UNCHANGED <<xadc, procs, load, backlog, conn, daemon, reads>>

\* One more jiffy in /proc/stat.
Tick ==
    /\ since.all < MaxWindow
    /\ since' = [since EXCEPT !.all = @ + 1, !.busy = @ + load]
    /\ UNCHANGED <<devices, changes, xadc, cpu, load, backlog, conn, daemon, reads>>

LoadChanges ==
    /\ load' = 1 - load
    /\ UNCHANGED <<devices, changes, xadc, procs, backlog, conn, daemon, reads>>

\* The counters start again, or run backwards: either of them may now be below
\* its baseline or beyond it.
CountersJump ==
    /\ changes < MaxChanges /\ changes' = changes + 1
    /\ since' \in [all : (-MaxJump)..MaxJump, busy : (-MaxJump)..MaxJump]
    /\ UNCHANGED <<devices, xadc, cpu, load, backlog, conn, daemon, reads>>

Served(c) == conn.at # "accept" /\ conn.by = c

Connects(c) ==
    /\ ~Served(c) /\ c \notin ToSet(backlog) /\ daemon = "running"
    /\ backlog' = Append(backlog, c)
    /\ UNCHANGED <<devices, changes, xadc, procs, load, conn, daemon, reads>>

-----------------------------------------------------------------------------
(* The daemon.                                                             *)

\* main, up to the accept loop.  It serves without a device, too.
StartUp ==
    /\ daemon = "starting"
    /\ Discover
    /\ daemon' = "running"
    /\ UNCHANGED <<procs, load, backlog, conn>>

In(place) == daemon = "running" /\ conn.at = place
Goto(place) == conn' = [conn EXCEPT !.at = place]

Accept ==
    /\ In("accept") /\ backlog # <<>>
    /\ conn' = [at |-> "receiving", by |-> Head(backlog), used |-> 0]
    /\ backlog' = Tail(backlog)
    /\ UNCHANGED <<devices, changes, xadc, procs, load, daemon, reads>>

\* close(client), with or without an answer.
Close == conn' = NoConn /\ UNCHANGED backlog

\* recv_request: some bytes without a newline; the buffer is a cap on them,
\* and a line longer than that is refused.
ReceivePart(n) ==
    /\ In("receiving") /\ conn.used + n <= MaxRequest - 1
    /\ conn' = [conn EXCEPT !.used = @ + n,
                            !.at = IF conn.used + n = MaxRequest - 1 THEN "sending" ELSE @]
    /\ UNCHANGED <<devices, changes, xadc, procs, load, backlog, daemon, reads>>

\* A whole line, or the end of the stream after part of one.  Anything but
\* STATUS is answered from constants.
ReceiveLine ==
    /\ In("receiving")
    /\ \E place \in {"temperature", "sending"} :
         conn' = [at |-> place, by |-> conn.by, used |-> 0]
    /\ UNCHANGED <<devices, changes, xadc, procs, load, backlog, daemon, reads>>

\* The end of the stream before anything, a timeout or an error.
ReceiveNothing ==
    /\ In("receiving")
    /\ Close
    /\ UNCHANGED <<devices, changes, xadc, procs, load, daemon, reads>>

\* The line starts with the temperature, and the metrics follow one by one.
Measuring == conn' = [at |-> "metrics", by |-> conn.by, used |-> Prefix, left |-> OtherKeys]

\* xadc_read_temperature: discover if there is none, then read the cached path.
DiscoverFirst ==
    /\ In("temperature") /\ ~xadc.ready
    /\ Discover
    /\ Goto(IF xadc'.ready THEN "temperature" ELSE "sending")
    /\ UNCHANGED <<procs, load, backlog, daemon>>

ReadTemperature ==
    /\ In("temperature") /\ xadc.ready
    /\ Touch(xadc.raw)
    /\ IF Readable(xadc.raw) THEN Measuring ELSE Goto("rediscover")
    /\ UNCHANGED <<devices, changes, xadc, procs, load, backlog, daemon>>

\* Mutant: it looks until it finds one.
Rediscover_UntilFound ==
    /\ In("rediscover")
    /\ Discover
    /\ Goto(IF xadc'.ready THEN "again" ELSE "rediscover")
    /\ UNCHANGED <<procs, load, backlog, daemon>>

\* The read failed: look again, once.
Rediscover ==
    /\ In("rediscover")
    /\ Discover
    /\ Goto(IF xadc'.ready THEN "again" ELSE "sending")
    /\ UNCHANGED <<procs, load, backlog, daemon>>

ReadAgain ==
    /\ In("again")
    /\ Touch(xadc.raw)
    /\ IF Readable(xadc.raw)
         THEN Measuring /\ UNCHANGED xadc
         ELSE Goto("sending") /\ xadc' = [xadc EXCEPT !.ready = FALSE]
    /\ UNCHANGED <<devices, changes, procs, load, backlog, daemon>>

\* Mutant: every sample is a new baseline.
Rebased_Always == TRUE

\* A window long enough to mean something.
Rebased == since.all >= MinDelta

\* append_kv: the text, the newline and the terminator.
Fits(used, w) == used + w + 1 <= MaxResponse - 1

Longer(w) == IF Fits(conn.used, w) THEN conn.used + w ELSE conn.used

\* The share of the window, whatever the counters did in it.
Share ==
    LET busy == IF since.busy >= 0 THEN since.busy ELSE 0
        pct  == (100 * busy) \div since.all
    IN IF pct > 100 THEN 100 ELSE pct

\* cpu_percent, and what it leaves for the next request.
Sample ==
    \/ /\ ~cpu.known \/ since.all < 0
       /\ cpu' = [known |-> TRUE, pct |-> None] /\ since' = Baseline
    \/ /\ cpu.known /\ since.all >= 0 /\ Rebased
       /\ cpu' = [cpu EXCEPT !.pct = IF since.all >= MinDelta THEN Share ELSE @]
       /\ since' = Baseline
    \/ /\ cpu.known /\ since.all >= 0 /\ ~Rebased
       /\ UNCHANGED procs

\* The first metric; without a figure there is no text.
CpuSample ==
    /\ In("metrics")
    /\ Sample
    /\ \E w \in 1..MaxText :
         conn' = [conn EXCEPT !.used = IF cpu'.pct = None THEN @ ELSE Longer(w), !.at = "others"]
    /\ UNCHANGED <<devices, changes, xadc, load, backlog, daemon, reads>>

\* /proc/stat cannot be read: the last figure is served again.
CpuUnread ==
    /\ In("metrics")
    /\ \E w \in 1..MaxText :
         conn' = [conn EXCEPT !.used = IF cpu.pct = None THEN @ ELSE Longer(w), !.at = "others"]
    /\ UNCHANGED <<devices, changes, xadc, procs, load, backlog, daemon, reads>>

\* load1 to rootfree, each there or not.
OtherMetric ==
    /\ In("others") /\ conn.left > 0
    /\ \E w \in 0..MaxText :
         conn' = [conn EXCEPT !.left = @ - 1, !.used = IF w = 0 THEN @ ELSE Longer(w)]
    /\ UNCHANGED <<devices, changes, xadc, procs, load, backlog, daemon, reads>>

\* xadc_read_rail never looks for another device.
ReadRail ==
    /\ In("others") /\ conn.left = 0
    /\ LET there == xadc.ready /\ xadc.rail # None IN
       /\ IF there THEN Touch(xadc.rail) ELSE UNCHANGED reads
       /\ \E w \in IF there /\ Readable(xadc.rail) THEN 0..MaxText ELSE {0} :
            conn' = [conn EXCEPT !.at = "line", !.used = IF w = 0 THEN @ ELSE Longer(w)]
    /\ UNCHANGED <<devices, changes, xadc, procs, load, backlog, daemon>>

\* The newline goes where the terminator was.
FinishLine ==
    /\ In("line")
    /\ conn' = [conn EXCEPT !.at = "sending", !.used = @ + 1]
    /\ UNCHANGED <<devices, changes, xadc, procs, load, backlog, daemon, reads>>

\* send_all, as much of it as the client takes.
Respond ==
    /\ In("sending")
    /\ Close
    /\ UNCHANGED <<devices, changes, xadc, procs, load, daemon, reads>>

\* The client is closed with the process; a signal ends the loop between two
\* clients, an unexpected error of accept() ends the process with a failure.
Stop ==
    /\ In("accept")
    /\ daemon' \in {"stopped", "failed"}
    /\ backlog' = <<>>
    /\ UNCHANGED <<devices, changes, xadc, procs, load, conn, reads>>

\* The unit's Restart=on-failure; everything cached is gone.
SystemdRestarts ==
    /\ daemon = "failed"
    /\ daemon' = "starting"
    /\ xadc' = NoXadc /\ cpu' = NoCpu /\ since' = Baseline
    /\ UNCHANGED <<devices, changes, load, backlog, conn, reads>>

Serve ==
    \/ StartUp \/ Accept
    \/ \E n \in 1..(MaxRequest - 1) : ReceivePart(n)
    \/ ReceiveLine \/ ReceiveNothing
    \/ DiscoverFirst \/ ReadTemperature \/ Rediscover \/ ReadAgain
    \/ CpuSample \/ CpuUnread \/ OtherMetric \/ ReadRail \/ FinishLine \/ Respond

Next ==
    \/ StartUp
    \/ \E n \in 1..(MaxRequest - 1) : ReceivePart(n)
    \/ ReceiveLine \/ ReceiveNothing
    \/ DiscoverFirst \/ ReadTemperature \/ Rediscover \/ ReadAgain
    \/ CpuSample \/ CpuUnread \/ OtherMetric \/ ReadRail \/ FinishLine \/ Respond
    \/ Accept
    \/ \E c \in Clients : Connects(c)
    \/ Stop \/ SystemdRestarts
    \/ DevicesChange \/ Tick \/ LoadChanges \/ CountersJump

Spec == Init /\ [][Next]_vars

\* Every read and send has a timeout of two seconds, and time goes on.
Fairness == WF_vars(Serve) /\ WF_vars(Tick) /\ WF_vars(SystemdRestarts)

FairSpec == Spec /\ Fairness

-----------------------------------------------------------------------------
(* Properties.                                                             *)

\* Type invariant of the daemon and its connection.
TypeOK ==
    /\ xadc.ready \in BOOLEAN
    /\ xadc.raw \in Slots \cup {None} /\ xadc.rail \in Slots \cup {None}
    /\ cpu.known \in BOOLEAN /\ cpu.pct \in (0..100) \cup {None}
    /\ since.all \in (-MaxJump)..MaxWindow /\ since.busy \in Int
    /\ daemon \in {"starting", "running", "stopped", "failed"}
    /\ backlog \in Seq(Clients)

\* No read ever goes to a device other than the XADC of the processing system
\* ("nothing but the PS XADC is touched"), across failed reads, repeated
\* discovery and restarts, while devices come, go and change their names; but
\* for one that goes by a name that has come to mean another device since the
\* daemon last looked for it.
OnlyThePsXadc == Strict => touched \in {"ps", "none"} \/ astray

\* The same with names that change.
OnlyThePsXadcEver == Strict => touched \in {"ps", "none"}

\* Whatever metrics there are, the line, its newline and the terminator fit
\* the response buffer.
ResponseFits == conn.at = "line" => conn.used + 2 <= MaxResponse

\* A client that has connected is answered or dropped, whatever the clients
\* before it send, drip or do not send -- unless the daemon is stopped.
EveryClientIsServed ==
    \A c \in Clients : c \in ToSet(backlog) ~> c \notin ToSet(backlog) /\ ~Served(c)

\* A board that stays busy comes to be reported busy, however often clients
\* ask: windows too short to measure add up.
CpuFollowsLoad ==
    <>[](load = 1) /\ []<><<CpuSample>>_vars => <>[](cpu.pct \in {100, None})
=============================================================================
