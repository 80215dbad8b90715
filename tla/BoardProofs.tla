----------------------------- MODULE BoardProofs -----------------------------
(***************************************************************************)
(* Proofs about the programs that run on a board, and about the gateway's  *)
(* view of one of them.                                                    *)
(*                                                                         *)
(* The telemetry daemon, for every set of names and clients and every size *)
(* of the buffers: it reads nothing but the XADC of the processing system  *)
(* unless a name has changed hands since its last scan, its load figure is *)
(* a percentage wherever the counters jump, and its answer fits the        *)
(* response buffer.                                                        *)
(*                                                                         *)
(* The two changes board diagnostics make to a board, for any number of    *)
(* requests: the system registers are protected when no script runs,       *)
(* unless one was killed, and what a reported success and a restart of     *)
(* journald can rest on.                                                   *)
(*                                                                         *)
(* The telemetry manager, for every number of operators and requests: a    *)
(* reading that an operator's write has overtaken is dropped, and a loss   *)
(* that lasts has been reported.                                           *)
(***************************************************************************)
EXTENDS TelemetryDaemon, BoardRepair, Telemetry, TLAPS

-----------------------------------------------------------------------------
(* The telemetry daemon: the inductive invariants.                         *)

Early    == {"receiving", "temperature", "rediscover", "again", "sending"}
Measured == {"metrics", "others", "line", "sending"}

\* The connection: none, one being read, or one whose line is being composed;
\* a line that is composed always has room for its newline and terminator.
ConnOK ==
    \/ conn = NoConn
    \/ conn \in [at : Early, by : Clients, used : Nat]
    \/ /\ conn \in [at : Measured, by : Clients, used : Nat, left : Nat]
       /\ conn.at # "sending" => conn.used + 2 <= MaxResponse

BacklogOK == backlog \in Seq(Clients)

DevicesOK == sysfs \in [Slots -> Hardware]

XadcOK ==
    /\ xadc \in [ready : BOOLEAN, raw : Slots \cup {None}, rail : Slots \cup {None}]
    /\ xadc.ready => xadc.raw \in Slots
    /\ conn.at = "again" => xadc.ready

\* A daemon that does not run has no connection.
IdleOK == daemon = "running" \/ conn = NoConn

\* What is cached was the PS XADC when it was found: it may be gone, or the name
\* has changed hands since.
NameOK(s) == sysfs[s] \in {"ps", "none"} \/ s \in renamed

CacheOK ==
    xadc.ready => NameOK(xadc.raw) /\ (xadc.rail # None => NameOK(xadc.rail))

TouchedOK == touched \in {"ps", "none"} \/ astray

SafeInv == BacklogOK /\ ConnOK /\ IdleOK /\ DevicesOK /\ XadcOK /\ CacheOK /\ TouchedOK

-----------------------------------------------------------------------------
(* The response buffer.                                                    *)

\* append_kv never takes what the newline and the terminator need.
LEMMA AppendFits ==
    ASSUME NEW w \in Nat, conn.used \in Nat, conn.used + 2 <= MaxResponse
    PROVE  Longer(w) \in Nat /\ Longer(w) + 2 <= MaxResponse
BY BoundsAssumption DEF Longer, Fits

LEMMA ConnInit == Init => BacklogOK /\ ConnOK
BY DEF Init, BacklogOK, ConnOK

LEMMA BacklogStep == BacklogOK /\ [Next]_vars => BacklogOK'
<1> SUFFICES ASSUME BacklogOK, [Next]_vars PROVE BacklogOK'
  OBVIOUS
<1>1. CASE Accept
  BY <1>1 DEF Accept, BacklogOK
<1>2. ASSUME NEW c \in Clients, Connects(c) PROVE BacklogOK'
  BY <1>2 DEF Connects, BacklogOK
<1>3. CASE Stop
  BY <1>3 DEF Stop, BacklogOK
<1>4. CASE UNCHANGED vars \/ StartUp \/ (\E n \in 1..(MaxRequest - 1) : ReceivePart(n))
           \/ ReceiveLine \/ ReceiveNothing \/ DiscoverFirst \/ ReadTemperature \/ Rediscover
           \/ ReadAgain \/ CpuSample \/ CpuUnread \/ OtherMetric \/ ReadRail \/ FinishLine
           \/ Respond \/ SystemdRestarts \/ DevicesChange \/ Tick \/ LoadChanges \/ CountersJump
  <2>1. UNCHANGED backlog
    BY <1>4, Zenon DEF vars, StartUp, ReceivePart, ReceiveLine, ReceiveNothing, Close, DiscoverFirst,
          ReadTemperature, Rediscover, ReadAgain, CpuSample, CpuUnread, OtherMetric, ReadRail,
          FinishLine, Respond, SystemdRestarts, DevicesChange, Tick, LoadChanges, CountersJump
  <2> QED
    BY <2>1 DEF BacklogOK
<1> QED
  BY <1>1, <1>2, <1>3, <1>4 DEF Next

\* Every step keeps the shape of the connection and the room in its line.
LEMMA ConnStep == BacklogOK /\ ConnOK /\ [Next]_vars => ConnOK'
<1> SUFFICES ASSUME BacklogOK, ConnOK, [Next]_vars PROVE ConnOK'
  OBVIOUS
<1> USE BoundsAssumption
<1>1. ASSUME NEW n \in 1..(MaxRequest - 1), ReceivePart(n) PROVE ConnOK'
  <2>1. conn.at = "receiving" /\ conn \in [at : Early, by : Clients, used : Nat]
    BY <1>1 DEF ReceivePart, In, ConnOK, NoConn, Early, Measured
  <2>2. PICK place \in {"receiving", "sending"} :
          conn' = [conn EXCEPT !.used = @ + n, !.at = place]
    BY <1>1, <2>1 DEF ReceivePart
  <2>3. conn.used + n \in Nat
    BY <2>1
  <2>4. conn' \in [at : Early, by : Clients, used : Nat]
    BY <2>1, <2>2, <2>3 DEF Early
  <2> QED
    BY <2>4 DEF ConnOK
<1>2. CASE ReceiveLine
  BY <1>2 DEF ReceiveLine, In, ConnOK, NoConn, Early, Measured
<1>3. CASE ReceiveNothing
  BY <1>3 DEF ReceiveNothing, Close, ConnOK
<1>4. CASE DiscoverFirst
  BY <1>4 DEF DiscoverFirst, In, Goto, ConnOK, NoConn, Early, Measured
<1>5. CASE ReadTemperature
  BY <1>5 DEF ReadTemperature, In, Goto, Measuring, ConnOK, NoConn, Early, Measured
<1>6. CASE Rediscover
  BY <1>6 DEF Rediscover, In, Goto, ConnOK, NoConn, Early, Measured
<1>7. CASE ReadAgain
  BY <1>7 DEF ReadAgain, In, Goto, Measuring, ConnOK, NoConn, Early, Measured
<1>8. ASSUME In("metrics") \/ In("others") \/ In("line")
      PROVE  /\ conn \in [at : Measured, by : Clients, used : Nat, left : Nat]
             /\ conn.used + 2 <= MaxResponse
  BY <1>8 DEF In, ConnOK, NoConn, Early, Measured
<1>9. CASE CpuSample
  <2>1. PICK w \in 1..MaxText :
          conn' = [conn EXCEPT !.used = IF cpu'.pct = None THEN @ ELSE Longer(w), !.at = "others"]
    BY <1>9 DEF CpuSample
  <2>2. Longer(w) \in Nat /\ Longer(w) + 2 <= MaxResponse
    BY <1>8, <1>9, AppendFits DEF CpuSample
  <2> QED
    BY <1>8, <1>9, <2>1, <2>2 DEF CpuSample, ConnOK, Measured
<1>10. CASE CpuUnread
  <2>1. PICK w \in 1..MaxText :
          conn' = [conn EXCEPT !.used = IF cpu.pct = None THEN @ ELSE Longer(w), !.at = "others"]
    BY <1>10 DEF CpuUnread
  <2>2. Longer(w) \in Nat /\ Longer(w) + 2 <= MaxResponse
    BY <1>8, <1>10, AppendFits DEF CpuUnread
  <2> QED
    BY <1>8, <1>10, <2>1, <2>2 DEF CpuUnread, ConnOK, Measured
<1>11. CASE OtherMetric
  <2>1. /\ conn.at = "others" /\ conn.left > 0 /\ conn.used \in Nat /\ conn.left \in Nat
        /\ conn \in [at : Measured, by : Clients, used : Nat, left : Nat]
        /\ conn.used + 2 <= MaxResponse
    BY <1>8, <1>11 DEF OtherMetric, In
  <2>2. PICK w \in 0..MaxText :
          conn' = [conn EXCEPT !.left = @ - 1, !.used = IF w = 0 THEN @ ELSE Longer(w)]
    BY <1>11 DEF OtherMetric
  <2>3. Longer(w) \in Nat /\ Longer(w) + 2 <= MaxResponse
    BY <2>1, AppendFits
  <2>4. conn' = [conn EXCEPT !.left = @ - 1] \/ conn' = [conn EXCEPT !.left = @ - 1, !.used = Longer(w)]
    BY <2>1, <2>2
  <2>5. conn.left - 1 \in Nat
    BY <2>1
  <2>6. CASE conn' = [conn EXCEPT !.left = @ - 1]
    BY <2>1, <2>5, <2>6 DEF ConnOK
  <2>7. CASE conn' = [conn EXCEPT !.left = @ - 1, !.used = Longer(w)]
    BY <2>1, <2>3, <2>5, <2>7 DEF ConnOK
  <2> QED
    BY <2>4, <2>6, <2>7
<1>12. CASE ReadRail
  <2>1. /\ conn.used \in Nat /\ conn.used + 2 <= MaxResponse
        /\ conn \in [at : Measured, by : Clients, used : Nat, left : Nat]
    BY <1>8, <1>12 DEF ReadRail
  <2>2. \E w \in 0..MaxText :
          conn' = [conn EXCEPT !.at = "line", !.used = IF w = 0 THEN @ ELSE Longer(w)]
    <3> DEFINE there == xadc.ready /\ xadc.rail # None
    <3>1. \E w \in IF there /\ Readable(xadc.rail) THEN 0..MaxText ELSE {0} :
            conn' = [conn EXCEPT !.at = "line", !.used = IF w = 0 THEN @ ELSE Longer(w)]
      BY <1>12 DEF ReadRail
    <3>2. (IF there /\ Readable(xadc.rail) THEN 0..MaxText ELSE {0}) \subseteq 0..MaxText
      OBVIOUS
    <3> QED
      BY <3>1, <3>2
  <2>3. PICK w \in 0..MaxText :
          conn' = [conn EXCEPT !.at = "line", !.used = IF w = 0 THEN @ ELSE Longer(w)]
    BY <2>2
  <2>4. Longer(w) \in Nat /\ Longer(w) + 2 <= MaxResponse
    BY <2>1, AppendFits
  <2> QED
    BY <2>1, <2>3, <2>4 DEF ConnOK, Measured
<1>13. CASE FinishLine
  <2>1. conn' = [conn EXCEPT !.at = "sending", !.used = @ + 1]
    BY <1>13 DEF FinishLine
  <2>2. conn.used + 1 \in Nat
    BY <1>8, <1>13 DEF FinishLine
  <2> QED
    BY <1>8, <1>13, <2>1, <2>2 DEF FinishLine, ConnOK, Measured
<1>14. CASE Respond
  BY <1>14 DEF Respond, Close, ConnOK
<1>15. CASE Accept
  <2>1. Head(backlog) \in Clients
    BY <1>15 DEF Accept, BacklogOK
  <2> QED
    BY <1>15, <2>1 DEF Accept, ConnOK, Early
<1>16. ASSUME UNCHANGED conn PROVE ConnOK'
  BY <1>16 DEF ConnOK
<1>17. CASE UNCHANGED vars \/ StartUp \/ (\E c \in Clients : Connects(c)) \/ Stop
            \/ SystemdRestarts \/ DevicesChange \/ Tick \/ LoadChanges \/ CountersJump
  BY <1>16, <1>17
     DEF vars, StartUp, Discover, Connects, Stop, SystemdRestarts, DevicesChange, Tick,
         LoadChanges, CountersJump
<1> QED
  BY <1>1, <1>2, <1>3, <1>4, <1>5, <1>6, <1>7, <1>9, <1>10, <1>11, <1>12, <1>13, <1>14,
     <1>15, <1>17 DEF Next

\* Whatever metrics there are and however long they are, the line, its newline
\* and the terminator fit the response buffer (append_kv, handle_client).
THEOREM ResponseFitsHolds == Spec => []ResponseFits
<1>1. ConnOK => ResponseFits
  BY DEF ConnOK, ResponseFits, NoConn, Early, Measured
<1> QED
  BY ConnInit, BacklogStep, ConnStep, <1>1, PTL DEF Spec

-----------------------------------------------------------------------------
(* The PS XADC.                                                            *)

\* A scan of a real board settles on the PS XADC or on nothing.
LEMMA BestIsPs ==
    ASSUME Strict, NEW s \in Best PROVE s \in Slots /\ sysfs[s] = "ps"
BY DEF Best, Acceptable, Rank

\* What a scan leaves cached.
LEMMA DiscoverySafe ==
    ASSUME Strict, XadcOK, CacheOK, NEW x \in DiscoverResults
    PROVE  /\ x \in [ready : BOOLEAN, raw : Slots \cup {None}, rail : Slots \cup {None}]
           /\ x.ready => x.raw \in Slots /\ sysfs[x.raw] = "ps"
           /\ x.ready => x.rail \in {None, x.raw}
<1>1. CASE Best = {}
  <2>1. x = [xadc EXCEPT !.ready = FALSE, !.rail = None]
    BY <1>1 DEF DiscoverResults
  <2> QED
    BY <2>1 DEF XadcOK
<1>2. CASE Best # {}
  <2>1. PICK s \in Best : x \in {Discovered(s), [Discovered(s) EXCEPT !.rail = None]}
    BY <1>2 DEF DiscoverResults
  <2>2. s \in Slots /\ sysfs[s] = "ps"
    BY <2>1, BestIsPs
  <2>3. CASE x = [ready |-> TRUE, raw |-> s, rail |-> s]
    BY <2>2, <2>3
  <2>4. CASE x = [ready |-> TRUE, raw |-> s, rail |-> None]
    BY <2>2, <2>4
  <2> QED
    BY <2>1, <2>3, <2>4 DEF Discovered
<1> QED
  BY <1>1, <1>2

LEMMA SafeInit == Init => SafeInv
BY NoneAssumption
   DEF Init, SafeInv, BacklogOK, ConnOK, IdleOK, DevicesOK, XadcOK, CacheOK, TouchedOK, NoXadc,
       NoConn, Hardware

\* Only a running daemon has a connection, which a signal does not cut short.
LEMMA IdleStep == ConnOK /\ IdleOK /\ [Next]_vars => IdleOK'
<1> SUFFICES ASSUME ConnOK, IdleOK, [Next]_vars PROVE IdleOK'
  OBVIOUS
<1>1. CASE UNCHANGED <<daemon, conn>>
  BY <1>1 DEF IdleOK
<1>2. CASE daemon' = "running"
  BY <1>2 DEF IdleOK
<1>3. CASE Stop \/ SystemdRestarts
  BY <1>3 DEF Stop, SystemdRestarts, In, ConnOK, IdleOK, NoConn, Early, Measured
<1>4. CASE StartUp \/ Accept \/ (\E n \in 1..(MaxRequest - 1) : ReceivePart(n))
           \/ ReceiveLine \/ ReceiveNothing \/ DiscoverFirst \/ ReadTemperature \/ Rediscover
           \/ ReadAgain \/ CpuSample \/ CpuUnread \/ OtherMetric \/ ReadRail \/ FinishLine
           \/ Respond
  <2>1. daemon' = "running" \/ (daemon' = daemon /\ conn.at # "accept")
    BY <1>4 DEF StartUp, Accept, ReceivePart, ReceiveLine, ReceiveNothing, DiscoverFirst,
                ReadTemperature, Rediscover, ReadAgain, CpuSample, CpuUnread, OtherMetric,
                ReadRail, FinishLine, Respond, In
  <2> QED
    BY <1>2, <2>1 DEF IdleOK, NoConn
<1>5. CASE UNCHANGED vars \/ (\E c \in Clients : Connects(c)) \/ DevicesChange \/ Tick
           \/ LoadChanges \/ CountersJump
  BY <1>1, <1>5 DEF vars, Connects, DevicesChange, Tick, LoadChanges, CountersJump
<1> QED
  BY <1>3, <1>4, <1>5 DEF Next

\* No step caches anything but the PS XADC: discovery accepts nothing else, and
\* what it found can only vanish, or change its name.
LEMMA SafeStep ==
    ASSUME Strict PROVE SafeInv /\ [Next]_vars => SafeInv'
<1> SUFFICES ASSUME SafeInv, [Next]_vars PROVE SafeInv'
  OBVIOUS
<1> USE NoneAssumption DEF SafeInv
<1>1. BacklogOK' /\ ConnOK' /\ IdleOK'
  BY BacklogStep, ConnStep, IdleStep
<1>2. ASSUME Discover, conn'.at = "again" => xadc'.ready PROVE SafeInv'
  BY <1>1, <1>2, DiscoverySafe DEF Discover, reads, DevicesOK, XadcOK, CacheOK, NameOK, TouchedOK
<1>3. ASSUME UNCHANGED <<sysfs, renamed, xadc>>, conn'.at = "again" => conn.at = "again",
             TouchedOK'
      PROVE  SafeInv'
  BY <1>1, <1>3 DEF DevicesOK, XadcOK, CacheOK, NameOK
<1>4. ASSUME xadc' = NoXadc, UNCHANGED <<sysfs, touched, astray>>, conn'.at # "again"
      PROVE  SafeInv'
  BY <1>1, <1>4 DEF DevicesOK, XadcOK, CacheOK, NoXadc, TouchedOK
<1>5. CASE StartUp
  <2>1. Discover /\ UNCHANGED conn /\ conn = NoConn
    BY <1>5 DEF StartUp, IdleOK
  <2> QED
    BY <1>2, <2>1 DEF NoConn
<1>6. CASE DiscoverFirst
  <2>1. conn'.at # "again"
    BY <1>6 DEF DiscoverFirst, In, Goto, ConnOK, NoConn, Early, Measured
  <2> QED
    BY <1>2, <1>6, <2>1 DEF DiscoverFirst
<1>7. CASE Rediscover
  <2>1. conn'.at = "again" => xadc'.ready
    BY <1>7 DEF Rediscover, In, Goto, ConnOK, NoConn, Early, Measured
  <2> QED
    BY <1>2, <1>7, <2>1 DEF Rediscover
<1>8. CASE ReadTemperature
  <2>1. TouchedOK'
    BY <1>8 DEF ReadTemperature, Touch, CacheOK, NameOK, TouchedOK
  <2>2. conn'.at # "again"
    BY <1>8 DEF ReadTemperature, In, Goto, Measuring, ConnOK, NoConn, Early, Measured
  <2> QED
    BY <1>3, <1>8, <2>1, <2>2 DEF ReadTemperature, devices
<1>9. CASE ReadAgain
  <2>1. xadc.ready /\ TouchedOK' /\ UNCHANGED <<sysfs, renamed>>
    BY <1>9 DEF ReadAgain, In, Touch, XadcOK, CacheOK, NameOK, TouchedOK, devices
  <2>2. conn'.at # "again"
    BY <1>9 DEF ReadAgain, In, Goto, Measuring, ConnOK, NoConn, Early, Measured
  <2>3. xadc' = xadc \/ xadc' = [xadc EXCEPT !.ready = FALSE]
    BY <1>9 DEF ReadAgain
  <2> QED
    BY <1>1, <2>1, <2>2, <2>3 DEF DevicesOK, XadcOK, CacheOK, NameOK
<1>10. CASE ReadRail
  <2>1. TouchedOK'
    BY <1>10 DEF ReadRail, Touch, CacheOK, NameOK, TouchedOK, reads
  <2>2. conn'.at # "again"
    <3>1. \E w : conn' = [conn EXCEPT !.at = "line", !.used = IF w = 0 THEN @ ELSE Longer(w)]
      BY <1>10 DEF ReadRail
    <3>2. PICK used : conn' = [conn EXCEPT !.at = "line", !.used = used]
      BY <3>1
    <3> QED
      BY <1>10, <3>2 DEF ReadRail, In, ConnOK, NoConn, Early, Measured
  <2> QED
    BY <1>3, <1>10, <2>1, <2>2 DEF ReadRail, devices
<1>11. CASE SystemdRestarts
  <2>1. UNCHANGED conn /\ conn = NoConn
    BY <1>11 DEF SystemdRestarts, IdleOK
  <2> QED
    BY <1>4, <1>11, <2>1 DEF SystemdRestarts, devices, reads, NoConn
<1>12. CASE DevicesChange
  <2>1. UNCHANGED <<xadc, conn, touched, astray>>
    BY <1>12 DEF DevicesChange, reads
  <2>2. /\ sysfs' \in [Slots -> Hardware]
        /\ \A s \in Slots : NameOK(s) => NameOK(s)'
    <3>1. CASE UNCHANGED <<sysfs, renamed>>
      BY <3>1 DEF DevicesOK, NameOK
    <3>2. ASSUME NEW s \in Slots, sysfs' = [sysfs EXCEPT ![s] = "none"], UNCHANGED renamed
          PROVE  sysfs' \in [Slots -> Hardware] /\ \A s1 \in Slots : NameOK(s1) => NameOK(s1)'
      BY <3>2 DEF DevicesOK, NameOK, Hardware
    <3>3. ASSUME NEW s \in Slots, NEW u \in Slots, renamed' = renamed \cup {s, u},
                 sysfs' = [sysfs EXCEPT ![s] = sysfs[u], ![u] = sysfs[s]]
          PROVE  sysfs' \in [Slots -> Hardware] /\ \A s1 \in Slots : NameOK(s1) => NameOK(s1)'
      BY <3>3 DEF DevicesOK, NameOK
    <3> QED
      BY <1>12, <3>1, <3>2, <3>3 DEF DevicesChange
  <2>3. DevicesOK' /\ XadcOK' /\ TouchedOK'
    BY <2>1, <2>2 DEF DevicesOK, XadcOK, TouchedOK
  <2>4. CacheOK'
    BY <2>1, <2>2 DEF XadcOK, CacheOK
  <2> QED
    BY <1>1, <2>3, <2>4
<1>13. CASE ReceiveNothing \/ Respond
  <2>1. conn' = NoConn
    BY <1>13 DEF ReceiveNothing, Respond, Close
  <2> QED
    BY <1>3, <1>13, <2>1 DEF ReceiveNothing, Respond, NoConn, devices, reads, TouchedOK
<1>14. CASE Accept \/ (\E n \in 1..(MaxRequest - 1) : ReceivePart(n))
            \/ ReceiveLine \/ CpuSample \/ CpuUnread \/ OtherMetric \/ FinishLine
  <2>1. UNCHANGED <<sysfs, renamed, xadc, touched, astray>>
    BY <1>14 DEF Accept, ReceivePart, ReceiveLine, CpuSample, CpuUnread, OtherMetric,
                 FinishLine, devices, reads
  <2>2. conn'.at # "again"
    <3>1. ASSUME NEW n \in 1..(MaxRequest - 1), ReceivePart(n) PROVE conn'.at # "again"
      <4>1. PICK place \in {"receiving", "sending"} :
              conn' = [conn EXCEPT !.used = @ + n, !.at = place]
        BY <3>1 DEF ReceivePart, In
      <4> QED
        BY <3>1, <4>1 DEF ReceivePart, In, ConnOK, NoConn, Early, Measured
    <3>2. CASE CpuSample \/ CpuUnread
      <4>1. PICK used : conn' = [conn EXCEPT !.used = used, !.at = "others"]
        BY <3>2 DEF CpuSample, CpuUnread
      <4> QED
        BY <3>2, <4>1 DEF CpuSample, CpuUnread, In, ConnOK, NoConn, Early, Measured
    <3>3. CASE OtherMetric
      <4>1. PICK w \in 0..MaxText :
              conn' = [conn EXCEPT !.left = @ - 1, !.used = IF w = 0 THEN @ ELSE Longer(w)]
        BY <3>3 DEF OtherMetric
      <4> QED
        BY <3>3, <4>1 DEF OtherMetric, In, ConnOK, NoConn, Early, Measured
    <3>4. CASE FinishLine
      <4>1. conn' = [conn EXCEPT !.at = "sending", !.used = @ + 1]
        BY <3>4 DEF FinishLine
      <4> QED
        BY <3>4, <4>1 DEF FinishLine, In, ConnOK, NoConn, Early, Measured
    <3>5. CASE Accept \/ ReceiveLine
      BY <3>5 DEF Accept, ReceiveLine, In, ConnOK, NoConn, Early, Measured
    <3> QED
      BY <1>14, <3>1, <3>2, <3>3, <3>4, <3>5
  <2> QED
    BY <1>3, <2>1, <2>2 DEF TouchedOK
<1>15. CASE UNCHANGED vars \/ (\E c \in Clients : Connects(c)) \/ Stop \/ Tick \/ LoadChanges
            \/ CountersJump
  <2>1. UNCHANGED <<sysfs, renamed, xadc, touched, astray, conn>>
    BY <1>15 DEF vars, Connects, Stop, Tick, LoadChanges, CountersJump, devices, reads
  <2> QED
    BY <1>3, <2>1 DEF TouchedOK
<1> QED
  BY <1>5, <1>6, <1>7, <1>8, <1>9, <1>10, <1>11, <1>12, <1>13, <1>14, <1>15 DEF Next

\* No read ever goes to a device other than the XADC of the processing system
\* (xadc_rank: "nothing but the PS XADC is touched"), whatever devices appear,
\* vanish, fail or change their names, but for one by a name that has changed
\* hands since the daemon last scanned.
THEOREM OnlyThePsXadcHolds == Spec => []OnlyThePsXadc
<1>1. CASE Strict
  <2>1. Init => SafeInv
    BY SafeInit
  <2>2. SafeInv /\ [Next]_vars => SafeInv'
    BY <1>1, SafeStep
  <2>3. SafeInv => OnlyThePsXadc
    BY DEF SafeInv, TouchedOK, OnlyThePsXadc
  <2> QED
    BY <2>1, <2>2, <2>3, PTL DEF Spec
<1>2. CASE ~Strict
  <2>1. OnlyThePsXadc
    BY <1>2 DEF OnlyThePsXadc
  <2> QED
    BY <2>1, PTL
<1> QED
  BY <1>1, <1>2

-----------------------------------------------------------------------------
(* The figures of the daemon.                                              *)

XadcStates == [ready : BOOLEAN, raw : Slots \cup {None}, rail : Slots \cup {None}]

\* The load figure is that of the window since the baseline, or of an older one.
PercentOK ==
    /\ load \in {0, 1}
    /\ cpu \in [known : BOOLEAN, pct : (0..100) \cup {None}]
    /\ since \in [all : (-MaxJump)..MaxWindow, busy : Int]

DaemonInv ==
    /\ BacklogOK /\ ConnOK /\ PercentOK
    /\ xadc \in XadcStates
    /\ daemon \in {"starting", "running", "stopped", "failed"}

\* The share of a window of any jiffies at all is a percentage, by its clamps.
LEMMA ShareIsPercent ==
    ASSUME since.all \in Nat \ {0}, since.busy \in Int PROVE Share \in 0..100
<1> DEFINE busy == IF since.busy >= 0 THEN since.busy ELSE 0
<1>1. busy \in Nat
  OBVIOUS
<1> HIDE DEF busy
<1>2. (100 * busy) \div since.all \in Nat
  BY <1>1
<1>3. Share = IF (100 * busy) \div since.all > 100 THEN 100 ELSE (100 * busy) \div since.all
  BY DEF Share, busy
<1> QED
  BY <1>2, <1>3

LEMMA BaselineOK == Baseline \in [all : (-MaxJump)..MaxWindow, busy : Int]
BY BoundsAssumption DEF Baseline

LEMMA SampleIsPercent == ASSUME PercentOK, Sample, load' = load PROVE PercentOK'
<1>1. CASE UNCHANGED procs
  BY <1>1 DEF PercentOK, procs
<1>2. CASE since' = Baseline /\ cpu' = [known |-> TRUE, pct |-> None]
  BY <1>2, BaselineOK DEF PercentOK
<1>3. CASE /\ cpu.known /\ since.all >= 0 /\ Rebased /\ since' = Baseline
           /\ cpu' = [cpu EXCEPT !.pct = IF since.all >= MinDelta THEN Share ELSE @]
  <2>1. since.all \in Nat \ {0} /\ since.all >= MinDelta /\ since.busy \in Int
    BY <1>3, BoundsAssumption DEF PercentOK, Rebased
  <2>2. Share \in 0..100
    BY <2>1, ShareIsPercent
  <2>3. cpu' = [cpu EXCEPT !.pct = Share]
    BY <1>3, <2>1
  <2> QED
    BY <1>3, <2>2, <2>3, BaselineOK DEF PercentOK
<1> QED
  BY <1>1, <1>2, <1>3, Zenon DEF Sample

\* No step leaves the range of the load figure, whatever the counters do.
LEMMA PercentStep == PercentOK /\ [Next]_vars => PercentOK'
<1> SUFFICES ASSUME PercentOK, [Next]_vars PROVE PercentOK'
  OBVIOUS
<1>1. CASE CpuSample
  BY <1>1, SampleIsPercent DEF CpuSample
<1>2. CASE Tick
  <2>1. since.all + 1 \in (-MaxJump)..MaxWindow /\ since.busy + load \in Int
    BY <1>2, BoundsAssumption DEF Tick, PercentOK
  <2>2. since' = [all |-> since.all + 1, busy |-> since.busy + load]
    BY <1>2 DEF Tick, PercentOK
  <2> QED
    BY <1>2, <2>1, <2>2 DEF Tick, PercentOK
<1>3. CASE LoadChanges
  BY <1>3 DEF LoadChanges, PercentOK, procs
<1>4. CASE CountersJump
  <2>1. /\ since' \in [all : (-MaxJump)..MaxJump, busy : (-MaxJump)..MaxJump]
        /\ UNCHANGED <<cpu, load>>
    BY <1>4 DEF CountersJump
  <2>2. (-MaxJump)..MaxJump \subseteq (-MaxJump)..MaxWindow /\ (-MaxJump)..MaxJump \subseteq Int
    BY BoundsAssumption
  <2> QED
    BY <2>1, <2>2 DEF PercentOK
<1>6. CASE SystemdRestarts
  BY <1>6, BaselineOK DEF SystemdRestarts, NoCpu, PercentOK
<1>5. CASE UNCHANGED vars \/ (\E c \in Clients : Connects(c)) \/ DevicesChange \/ StartUp
           \/ Accept \/ (\E n \in 1..(MaxRequest - 1) : ReceivePart(n))
           \/ ReceiveLine \/ ReceiveNothing \/ DiscoverFirst \/ ReadTemperature \/ Rediscover
           \/ ReadAgain \/ CpuUnread \/ OtherMetric \/ ReadRail \/ FinishLine \/ Respond \/ Stop
  <2>1. UNCHANGED <<procs, load>>
    BY <1>5, Zenon DEF vars, Connects, DevicesChange, StartUp, Discover, Accept, ReceivePart, ReceiveLine,
          ReceiveNothing, DiscoverFirst, ReadTemperature, Rediscover, ReadAgain, CpuUnread,
          OtherMetric, ReadRail, FinishLine, Respond, Stop
  <2> QED
    BY <2>1 DEF PercentOK, procs
<1> QED
  BY <1>1, <1>2, <1>3, <1>4, <1>5, <1>6 DEF Next

LEMMA XadcStep == xadc \in XadcStates /\ [Next]_vars => xadc' \in XadcStates
<1> SUFFICES ASSUME xadc \in XadcStates, [Next]_vars PROVE xadc' \in XadcStates
  OBVIOUS
<1>1. ASSUME NEW x \in DiscoverResults PROVE x \in XadcStates
  <2>1. CASE Best = {}
    BY <1>1, <2>1 DEF DiscoverResults, XadcStates
  <2>2. CASE Best # {}
    <3>1. PICK s \in Best : x \in {Discovered(s), [Discovered(s) EXCEPT !.rail = None]}
      BY <1>1, <2>2 DEF DiscoverResults
    <3>2. s \in Slots
      BY DEF Best
    <3>3. x = [ready |-> TRUE, raw |-> s, rail |-> s] \/ x = [ready |-> TRUE, raw |-> s, rail |-> None]
      BY <3>1 DEF Discovered
    <3>4. CASE x = [ready |-> TRUE, raw |-> s, rail |-> s]
      BY <3>2, <3>4 DEF XadcStates
    <3>5. CASE x = [ready |-> TRUE, raw |-> s, rail |-> None]
      BY <3>2, <3>5 DEF XadcStates
    <3> QED
      BY <3>3, <3>4, <3>5
  <2> QED
    BY <2>1, <2>2
<1>2. CASE StartUp \/ DiscoverFirst \/ Rediscover
  BY <1>1, <1>2, Zenon DEF StartUp, DiscoverFirst, Rediscover, Discover
<1>3. CASE ReadAgain \/ SystemdRestarts
  <2>1. xadc' = xadc \/ xadc' = [xadc EXCEPT !.ready = FALSE] \/ xadc' = NoXadc
    BY <1>3 DEF ReadAgain, SystemdRestarts
  <2>2. NoXadc \in XadcStates
    BY DEF XadcStates, NoXadc
  <2>3. [xadc EXCEPT !.ready = FALSE] \in XadcStates
    BY DEF XadcStates
  <2> QED
    BY <2>1, <2>2, <2>3
<1>4. CASE UNCHANGED vars \/ (\E c \in Clients : Connects(c)) \/ DevicesChange \/ Tick \/ LoadChanges
           \/ CountersJump \/ Accept
           \/ (\E n \in 1..(MaxRequest - 1) : ReceivePart(n)) \/ ReceiveLine \/ ReceiveNothing
           \/ ReadTemperature \/ CpuSample \/ CpuUnread \/ OtherMetric \/ ReadRail \/ FinishLine
           \/ Respond \/ Stop
  <2>1. xadc' = xadc
    BY <1>4, Zenon DEF vars, Connects, DevicesChange, Tick, LoadChanges, CountersJump, Accept,
          ReceivePart, ReceiveLine, ReceiveNothing, ReadTemperature, CpuSample, CpuUnread,
          OtherMetric, ReadRail, FinishLine, Respond, Stop
  <2> QED
    BY <2>1
<1> QED
  BY <1>2, <1>3, <1>4 DEF Next

LEMMA RunningStep ==
    ASSUME daemon \in {"starting", "running", "stopped", "failed"}, [Next]_vars
    PROVE  daemon' \in {"starting", "running", "stopped", "failed"}
<1>1. CASE StartUp \/ Stop \/ SystemdRestarts
  BY <1>1 DEF StartUp, Stop, SystemdRestarts
<1>2. CASE UNCHANGED vars \/ DevicesChange \/ Tick \/ LoadChanges \/ CountersJump \/ Accept
           \/ (\E c \in Clients : Connects(c)) \/ (\E n \in 1..(MaxRequest - 1) : ReceivePart(n))
           \/ ReceiveLine \/ ReceiveNothing \/ DiscoverFirst \/ Rediscover \/ ReadAgain
           \/ ReadTemperature \/ CpuSample \/ CpuUnread \/ OtherMetric \/ ReadRail \/ FinishLine
           \/ Respond
  <2>1. UNCHANGED daemon
    BY <1>2, Zenon DEF vars, DevicesChange, Tick, LoadChanges, CountersJump, Accept, Connects,
          ReceivePart, ReceiveLine, ReceiveNothing, DiscoverFirst, Rediscover, ReadAgain,
          ReadTemperature, CpuSample, CpuUnread, OtherMetric, ReadRail, FinishLine, Respond
  <2> QED
    BY <2>1
<1> QED
  BY <1>1, <1>2 DEF Next

\* The load figure is a percentage wherever the counters of /proc/stat jump, and
\* what is cached of a device keeps its shape (rp_telemetry.c, cpu_percent and
\* xadc_discover).
THEOREM DaemonTypeCorrect == Spec => []TypeOK
<1>1. Init => DaemonInv
  <2> SUFFICES ASSUME Init PROVE DaemonInv
    OBVIOUS
  <2>1. PercentOK
    BY BaselineOK DEF Init, PercentOK, NoCpu
  <2>2. xadc \in XadcStates
    BY DEF Init, XadcStates, NoXadc
  <2> QED
    BY <2>1, <2>2, ConnInit DEF Init, DaemonInv
<1>2. DaemonInv /\ [Next]_vars => DaemonInv'
  BY BacklogStep, ConnStep, PercentStep, XadcStep, RunningStep DEF DaemonInv
<1>3. DaemonInv => TypeOK
  <2> SUFFICES ASSUME DaemonInv PROVE TypeOK
    OBVIOUS
  <2>1. since.all \in (-MaxJump)..MaxWindow /\ since.busy \in Int
    BY DEF DaemonInv, PercentOK
  <2> QED
    BY <2>1 DEF DaemonInv, BacklogOK, PercentOK, XadcStates, TypeOK
<1> QED
  BY <1>1, <1>2, <1>3, PTL DEF Spec

-----------------------------------------------------------------------------
(* The repairs: places and types.                                          *)

ScriptPlaces == {"register", "open", "answer"} \cup Open

\* The steps that end in a mount.
UnitPlaces == {"make_backing", "check_backing", "write_unit", "fill_unit", "sync_unit",
               "verify_unit", "mount"}

\* From the check of the drop-in on.
AfterDropin == {"make_dir", "check_fs", "confirm", "restart", "flush", "probe"} \cup UnitPlaces

Places == {"idle", "journal", "write_dropin", "fill_dropin", "sync_dropin", "verify_dropin"}
             \cup AfterDropin \cup ScriptPlaces

Registers == [causes : BOOLEAN, scratch : BOOLEAN, protected : BOOLEAN, clearByOne : BOOLEAN]

AtOK == at \in [Requests -> Places] /\ task \in {"journal", "register"}

LEMMA AtStep == AtOK /\ [RepairNext]_repairVars => AtOK'
<1> SUFFICES ASSUME AtOK, [RepairNext]_repairVars PROVE AtOK'
  OBVIOUS
<1> USE DEF AtOK, RepairGoto, Places, AfterDropin, UnitPlaces, ScriptPlaces, Open
<1>1. ASSUME NEW r \in Requests, Begin(r) PROVE AtOK'
  BY <1>1 DEF Begin
<1>2. ASSUME NEW r \in Requests, EnableJournal(r) PROVE AtOK'
  BY <1>2 DEF EnableJournal, MakeDir, Truncate, Fill, Sync, Verify, CheckFs, CheckBacking,
              StartMount, ConfirmMount, RestartJournald, Probe, Fail, GoOrFail
<1>3. ASSUME NEW r \in Requests, ClearRegister(r) PROVE AtOK'
  BY <1>3 DEF ClearRegister, ReadBefore, OpenSlcr, WriteBack, Reread, WriteZero, Raise,
              AfterRaise, Killed, Protect, Answer, ScriptVars
<1>4. CASE Reset
  BY <1>4 DEF Reset
<1>5. CASE UNCHANGED repairVars
  BY <1>5 DEF repairVars
<1> QED
  BY <1>1, <1>2, <1>3, <1>4, <1>5 DEF RepairNext

-----------------------------------------------------------------------------
(* The protection of the system registers.                                 *)

\* Registers that can be written have a script that will protect them, or one
\* was killed and nobody has protected them since.
SomebodyProtects == reg.protected \/ exposed \/ \E r \in Requests : at[r] \in Open

\* What a script has read.
SeenOK == seen \in [Requests -> [before : BOOLEAN, scratch : BOOLEAN, after : BOOLEAN]]

SlcrInv ==
    AtOK /\ reg \in Registers /\ exposed \in BOOLEAN /\ SeenOK /\ SomebodyProtects

LEMMA SlcrInit == RepairInit => SlcrInv
<1> SUFFICES ASSUME RepairInit PROVE SlcrInv
  OBVIOUS
<1>1. AtOK
  BY DEF RepairInit, AtOK, Places
<1>2. reg \in Registers /\ reg.protected /\ exposed = FALSE
  BY DEF RepairInit, Registers
<1>3. SeenOK
  BY DEF RepairInit, SeenOK
<1> QED
  BY <1>1, <1>2, <1>3 DEF SlcrInv, SomebodyProtects

\* A write to the register leaves a register.
LEMMA WrittenTyped ==
    ASSUME reg \in Registers, NEW ones \in BOOLEAN, NEW scratch \in BOOLEAN
    PROVE  WrittenBits(ones, scratch) \in Registers
<1>1. PICK causes \in BOOLEAN :
        WrittenBits(ones, scratch) \in {reg, [reg EXCEPT !.causes = causes, !.scratch = scratch]}
  <2>1. (IF reg.clearByOne THEN reg.causes /\ ~ones ELSE ones) \in BOOLEAN
    OBVIOUS
  <2> QED
    BY <2>1 DEF WrittenBits
<1> QED
  BY <1>1 DEF Registers

\* A script leaves the open places by putting the protection back, whatever it
\* raises, or by being killed.
LEMMA SlcrStep == SlcrInv /\ [RepairNext]_repairVars => SlcrInv'
<1> SUFFICES ASSUME SlcrInv, [RepairNext]_repairVars PROVE SlcrInv'
  OBVIOUS
<1> USE DEF SlcrInv
<1>1. AtOK'
  BY AtStep
<1>2. ASSUME NEW r \in Requests, Begin(r) PROVE SlcrInv'
  BY <1>1, <1>2 DEF Begin, RepairGoto, AtOK, SeenOK, SomebodyProtects, Open, regVars
<1>3. ASSUME NEW r \in Requests, EnableJournal(r) PROVE SlcrInv'
  <2>1. UNCHANGED <<reg, seen, exposed>>
    BY <1>3 DEF EnableJournal, MakeDir, Truncate, Fill, Sync, Verify, CheckFs, CheckBacking,
                StartMount, ConfirmMount, RestartJournald, Probe, regVars
  <2>2. at[r] \notin Open /\ \A s \in Requests \ {r} : at'[s] = at[s]
    BY <1>3 DEF EnableJournal, MakeDir, Truncate, Fill, Sync, Verify, CheckFs, CheckBacking,
                StartMount, ConfirmMount, RestartJournald, Probe, Fail, GoOrFail, RepairGoto,
                AtOK, Open
  <2> QED
    BY <1>1, <2>1, <2>2 DEF SeenOK, SomebodyProtects
<1>4. ASSUME NEW r \in Requests, ClearRegister(r) PROVE SlcrInv'
  <2> USE DEF RepairGoto, AtOK, Open, Registers, SeenOK, SomebodyProtects
  <2>1. CASE ReadBefore(r)
    BY <1>1, <2>1 DEF ReadBefore
  <2>2. CASE OpenSlcr(r)
    BY <1>1, <2>2 DEF OpenSlcr
  <2>3. CASE WriteBack(r)
    <3>1. reg' \in Registers
      <4>1. seen[r].before \in BOOLEAN /\ seen[r].scratch \in BOOLEAN
        OBVIOUS
      <4>2. WrittenBits(seen[r].before, FALSE) \in Registers
        BY <4>1, WrittenTyped
      <4> QED
        BY <2>3, <4>2 DEF WriteBack
    <3>2. at'[r] \in Open /\ seen' = seen /\ exposed' = exposed
      BY <2>3 DEF WriteBack
    <3> QED
      BY <1>1, <3>1, <3>2
  <2>4. CASE Reread(r)
    BY <1>1, <2>4 DEF Reread
  <2>5. CASE WriteZero(r)
    <3>1. reg' \in Registers
      <4>1. seen[r].before \in BOOLEAN /\ seen[r].scratch \in BOOLEAN
        OBVIOUS
      <4>2. WrittenBits(FALSE, seen[r].scratch) \in Registers
        BY <4>1, WrittenTyped
      <4> QED
        BY <2>5, <4>2 DEF WriteZero
    <3>2. at'[r] \in Open /\ seen' = seen /\ exposed' = exposed
      BY <2>5 DEF WriteZero
    <3> QED
      BY <1>1, <3>1, <3>2
  <2>6. CASE Raise(r)
    <3>1. UNCHANGED <<reg, exposed>> /\ at'[r] \in Open /\ SeenOK'
      BY <2>6 DEF Raise, AfterRaise
    <3> QED
      BY <1>1, <3>1
  <2>7. CASE Killed(r)
    <3>1. UNCHANGED <<reg, seen>> /\ exposed' = (exposed \/ ~reg.protected)
      BY <2>7 DEF Killed
    <3> QED
      BY <1>1, <3>1
  <2>8. CASE Protect(r)
    BY <1>1, <2>8 DEF Protect
  <2>9. CASE Answer(r)
    BY <1>1, <2>9 DEF Answer
  <2> QED
    BY <1>4, <2>1, <2>2, <2>3, <2>4, <2>5, <2>6, <2>7, <2>8, <2>9 DEF ClearRegister
<1>5. CASE Reset
  BY <1>1, <1>5 DEF Reset, Registers, SeenOK, SomebodyProtects
<1>6. CASE UNCHANGED repairVars
  BY <1>1, <1>6 DEF repairVars, regVars, SeenOK, SomebodyProtects
<1> QED
  BY <1>2, <1>3, <1>4, <1>5, <1>6 DEF RepairNext

\* Whenever no script runs, the system registers are write protected: the
\* finally clause of the script, for any number of requests at once and whatever
\* the body raises; only a script that is killed passes it by.
THEOREM SlcrIsProtectedHolds == RepairSpec => []SlcrIsProtected
<1>1. SlcrInv => SlcrIsProtected
  BY DEF SlcrInv, SomebodyProtects, SlcrIsProtected, Quiet, Open
<1> QED
  BY SlcrInit, SlcrStep, <1>1, PTL DEF RepairSpec

-----------------------------------------------------------------------------
(* The journal.                                                            *)

FilesOK ==
    /\ page \in [Files -> Contents] /\ disk \in [Files -> Contents]
    /\ mounted \in BOOLEAN /\ resets \in Nat
    /\ loose \in [Written -> SUBSET Requests]

\* A file that nobody has rewritten since it was synced whole is on the disk.
LooseOK == \A f \in Written : loose[f] = {} => page[f] = disk[f]

\* Where /var/log is no RAM disk nothing is ever mounted over it.
RealOK == image.log # "tmpfs" => ~mounted /\ page["unit"] = "none" /\ disk["unit"] = "none"

\* A mount whose unit is on the disk will be there after a reset.
MountOK ==
    mounted => /\ page["backing"] = "full"
               /\ loose["unit"] = {} => page["unit"] = "full" /\ disk["backing"] = "full"

\* journald keeps what it writes on the storage it was started on: a mount only
\* ever covers a RAM disk.
JournaldOK == journald = "persistent" => ~image.overridden /\ JournalFs(mounted) = "real"

LooseOrWhole(f) == loose[f] # {} \/ page[f] = "full"

\* What a request has established by the time it is where it is: the drop-in is
\* whole unless another has rewritten it, a mount is only prepared over a RAM
\* disk, and before it the directory behind it is on the disk, or the unit not.
PlaceOK(r) ==
    /\ at[r] \in AfterDropin => page["dropin"] = "full" \/ loose["dropin"] \ {r} # {}
    /\ at[r] \in UnitPlaces => image.log = "tmpfs"
    /\ at[r] \in UnitPlaces \ {"make_backing"} => page["backing"] = "full"
    /\ at[r] \in {"fill_unit", "sync_unit", "verify_unit", "mount"} =>
         loose["unit"] # {} \/ disk["backing"] = "full"
    /\ at[r] = "fill_dropin" => LooseOrWhole("dropin")
    /\ at[r] = "fill_unit" => LooseOrWhole("unit")

\* After a reported success: nothing that is still to be lost, once nobody else
\* is at work.
ToldOK ==
    result = "ok" /\ overlooked = {} =>
        /\ journald = "persistent" /\ page["dropin"] \in {"part", "full"}
        /\ (\A r \in Requests : at[r] \in {"idle"} \cup ScriptPlaces) =>
             page["dropin"] = "full" /\ \A f \in Written : loose[f] = {}

BoardOK == FilesOK /\ LooseOK /\ RealOK /\ MountOK /\ JournaldOK

JournalInv == AtOK /\ BoardOK /\ (\A r \in Requests : PlaceOK(r)) /\ ToldOK

\* With a whole drop-in journald runs, and persistently just where its files
\* are on real storage and no other drop-in overrides it.
LEMMA ModeOfWhole ==
    ASSUME NEW files, NEW m \in BOOLEAN, files["dropin"] = "full"
    PROVE  /\ Mode(files, m) # "down"
           /\ Mode(files, m) = "persistent" <=> ~image.overridden /\ JournalFs(m) = "real"
<1>1. files.dropin = "full"
  OBVIOUS
<1> QED
  BY <1>1 DEF Mode

\* It only ever runs persistently on real storage, and only a drop-in that is cut
\* off keeps it from starting.
LEMMA ModeOfAny ==
    ASSUME NEW files, NEW m \in BOOLEAN
    PROVE  /\ Mode(files, m) = "persistent" => ~image.overridden /\ JournalFs(m) = "real"
           /\ Mode(files, m) = "down" => files["dropin"] = "part"
<1>1. files.dropin = files["dropin"]
  OBVIOUS
<1>2. CASE files["dropin"] = "part"
  BY <1>1, <1>2 DEF Mode
<1>3. CASE files["dropin"] # "part"
  BY <1>1, <1>3 DEF Mode
<1> QED
  BY <1>2, <1>3

LEMMA JournalInit == RepairInit => JournalInv
<1> SUFFICES ASSUME RepairInit PROVE JournalInv
  OBVIOUS
<1>1. AtOK /\ \A r \in Requests : at[r] = "idle"
  BY DEF RepairInit, AtOK, Places
<1>2. FilesOK
  BY DEF RepairInit, FilesOK, Contents
<1>3. LooseOK /\ RealOK /\ MountOK /\ JournaldOK
  BY DEF RepairInit, LooseOK, RealOK, MountOK, JournaldOK, Files, Written
<1>4. ToldOK
  BY DEF RepairInit, ToldOK
<1> QED
  BY <1>1, <1>2, <1>3, <1>4 DEF JournalInv, BoardOK, PlaceOK, AfterDropin, UnitPlaces

-----------------------------------------------------------------------------
(* What a request does to the files.                                       *)

\* It keeps what the others have established.
Lasts(r) ==
    /\ \/ page'["dropin"] = "full"
       \/ loose'["dropin"] = {r}
       \/ page'["dropin"] = page["dropin"] /\ loose'["dropin"] = loose["dropin"]
    /\ page["backing"] = "full" =>
         /\ page'["backing"] = "full"
         /\ loose["unit"] # {} \/ disk["backing"] = "full" =>
              loose'["unit"] # {} \/ disk'["backing"] = "full"
    /\ \A f \in Written : LooseOrWhole(f) => LooseOrWhole(f)'

LEMMA OthersKeep ==
    ASSUME NEW r \in Requests, NEW s \in Requests, r # s, PlaceOK(s), Lasts(r),
           at'[s] = at[s], image' = image
    PROVE  PlaceOK(s)'
<1>1. at[s] \in AfterDropin => page'["dropin"] = "full" \/ loose'["dropin"] \ {s} # {}
  BY DEF PlaceOK, Lasts
<1>2. /\ at[s] \in UnitPlaces \ {"make_backing"} => page'["backing"] = "full"
      /\ at[s] \in {"fill_unit", "sync_unit", "verify_unit", "mount"} =>
           loose'["unit"] # {} \/ disk'["backing"] = "full"
  <2>1. ASSUME at[s] \in {"fill_unit", "sync_unit", "verify_unit", "mount"}
        PROVE  at[s] \in UnitPlaces \ {"make_backing"}
    BY <2>1 DEF UnitPlaces
  <2> QED
    BY <2>1 DEF PlaceOK, Lasts
<1>3. /\ at[s] = "fill_dropin" => LooseOrWhole("dropin")'
      /\ at[s] = "fill_unit" => LooseOrWhole("unit")'
  BY DEF PlaceOK, Lasts, Written
<1> QED
  BY <1>1, <1>2, <1>3 DEF PlaceOK

LEMMA JournalFsSame ==
    ASSUME image' = image, mounted' = mounted PROVE JournalFs(mounted)' = JournalFs(mounted)
BY DEF JournalFs

\* tee, having truncated a file.
LEMMA TruncateStep ==
    ASSUME BoardOK, NEW r \in Requests, NEW f \in Written, f = "unit" => image.log = "tmpfs",
           page' = [page EXCEPT ![f] = "part"], loose' = [loose EXCEPT ![f] = {r}],
           UNCHANGED <<image, disk, mounted, journald, resets>>
    PROVE  BoardOK' /\ Lasts(r)
<1> USE DEF BoardOK, FilesOK, Files, Written, Contents
<1>1. FilesOK'
  OBVIOUS
<1>2. LooseOK' /\ RealOK' /\ MountOK'
  BY DEF LooseOK, RealOK, MountOK
<1>3. JournaldOK'
  BY JournalFsSame DEF JournaldOK
<1>4. Lasts(r)
  BY DEF Lasts, LooseOrWhole
<1> QED
  BY <1>1, <1>2, <1>3, <1>4

\* tee, having written the file it truncated.
LEMMA FillStep ==
    ASSUME BoardOK, NEW r \in Requests, NEW f \in Written, f = "unit" => image.log = "tmpfs",
           LooseOrWhole(f), page' = [page EXCEPT ![f] = "full"],
           UNCHANGED <<image, disk, mounted, journald, loose, resets>>
    PROVE  BoardOK' /\ Lasts(r)
<1> USE DEF BoardOK, FilesOK, Files, Written, Contents
<1>1. FilesOK'
  OBVIOUS
<1>2. LooseOK' /\ RealOK' /\ MountOK'
  BY DEF LooseOK, RealOK, MountOK, LooseOrWhole
<1>3. JournaldOK'
  BY JournalFsSame DEF JournaldOK
<1>4. Lasts(r)
  BY DEF Lasts, LooseOrWhole
<1> QED
  BY <1>1, <1>2, <1>3, <1>4

\* mkdir of a directory that matters.
LEMMA MakeDirStep ==
    ASSUME BoardOK, NEW r \in Requests, NEW d \in {"dir", "backing"},
           page' = [page EXCEPT ![d] = "full"],
           UNCHANGED <<image, disk, mounted, journald, loose, resets>>
    PROVE  BoardOK' /\ Lasts(r)
<1> USE DEF BoardOK, FilesOK, Files, Written, Contents
<1>1. FilesOK'
  OBVIOUS
<1>2. LooseOK' /\ RealOK' /\ MountOK'
  BY DEF LooseOK, RealOK, MountOK
<1>3. JournaldOK'
  BY JournalFsSame DEF JournaldOK
<1>4. Lasts(r)
  BY DEF Lasts, LooseOrWhole
<1> QED
  BY <1>1, <1>2, <1>3, <1>4

\* A sync that has put everything on the disk.
LEMMA SyncedStep ==
    ASSUME BoardOK, NEW r \in Requests, disk' = page,
           loose' = [f \in Written |-> IF page[f] = "full" THEN {} ELSE loose[f]],
           UNCHANGED <<image, page, mounted, journald, resets>>
    PROVE  BoardOK' /\ Lasts(r)
<1> USE DEF BoardOK, FilesOK, Files, Written, Contents
<1>1. FilesOK'
  OBVIOUS
<1>2. LooseOK' /\ RealOK' /\ MountOK'
  BY DEF LooseOK, RealOK, MountOK
<1>3. JournaldOK'
  BY JournalFsSame DEF JournaldOK
<1>4. Lasts(r)
  BY DEF Lasts, LooseOrWhole
<1> QED
  BY <1>1, <1>2, <1>3, <1>4

\* A sync that has left the file cut off.
LEMMA CutOffStep ==
    ASSUME BoardOK, NEW r \in Requests, NEW f \in Written, f = "unit" => image.log = "tmpfs",
           page' = [page EXCEPT ![f] = "part"], disk' = page', loose' = [loose EXCEPT ![f] = {r}],
           UNCHANGED <<image, mounted, journald, resets>>
    PROVE  BoardOK' /\ Lasts(r)
<1> USE DEF BoardOK, FilesOK, Files, Written, Contents
<1>1. FilesOK'
  OBVIOUS
<1>2. LooseOK' /\ RealOK' /\ MountOK'
  BY DEF LooseOK, RealOK, MountOK
<1>3. JournaldOK'
  BY JournalFsSame DEF JournaldOK
<1>4. Lasts(r)
  BY DEF Lasts, LooseOrWhole
<1> QED
  BY <1>1, <1>2, <1>3, <1>4

\* A command that leaves the files and journald alone.
LEMMA QuietStep ==
    ASSUME BoardOK, NEW r \in Requests,
           UNCHANGED <<image, page, disk, mounted, journald, loose, resets>>
    PROVE  BoardOK' /\ Lasts(r)
<1>1. JournaldOK'
  BY JournalFsSame DEF BoardOK, JournaldOK
<1> QED
  BY <1>1 DEF BoardOK, FilesOK, LooseOK, RealOK, MountOK, Lasts, LooseOrWhole

-----------------------------------------------------------------------------
(* The procedure that enables the journal.                                 *)

\* A request that goes on, or fails.
Goes(r, to) ==
    \/ at'[r] = to /\ UNCHANGED answer
    \/ at'[r] = "idle" /\ result' = "failed"

JournalPlaces == Places \ ({"idle"} \cup ScriptPlaces)

\* Nothing is told by a request that is not at its end.
LEMMA GoesTold ==
    ASSUME ToldOK, NEW r \in Requests, NEW to \in JournalPlaces, Goes(r, to),
           UNCHANGED journald, page'["dropin"] \in {page["dropin"], "part", "full"}
    PROVE  ToldOK'
BY DEF ToldOK, Goes, answer, JournalPlaces

\* The invariant after a step, from the state of the board, what the request
\* knows and what has been told.
LEMMA EnableDone ==
    ASSUME JournalInv, NEW r \in Requests, AtOK', BoardOK', Lasts(r), PlaceOK(r)', ToldOK',
           image' = image, \A s \in Requests \ {r} : at'[s] = at[s]
    PROVE  JournalInv'
<1>1. ASSUME NEW s \in Requests, s # r PROVE PlaceOK(s)'
  BY <1>1, OthersKeep DEF JournalInv
<1> QED
  BY <1>1 DEF JournalInv

LEMMA EnableStep ==
    ASSUME JournalInv, NEW r \in Requests, EnableJournal(r), AtOK'
    PROVE  JournalInv'
<1>1. UNCHANGED <<image, resets>> /\ \A s \in Requests \ {r} : at'[s] = at[s]
  BY DEF JournalInv, AtOK, EnableJournal, MakeDir, Truncate, Fill, Sync, Verify, CheckFs,
         CheckBacking, StartMount, ConfirmMount, RestartJournald, Probe, Fail, GoOrFail,
         RepairGoto, bounds
<1>2. BoardOK /\ PlaceOK(r) /\ ToldOK /\ at \in [Requests -> Places]
  BY DEF JournalInv, AtOK
<1>3. ASSUME BoardOK', Lasts(r), PlaceOK(r)', ToldOK' PROVE JournalInv'
  BY <1>1, <1>3, EnableDone
<1>4. ASSUME NEW to \in JournalPlaces, Goes(r, to), UNCHANGED journald, BoardOK', Lasts(r),
             page'["dropin"] \in {page["dropin"], "part", "full"}, at'[r] = to => PlaceOK(r)'
      PROVE  JournalInv'
  <2>1. ToldOK'
    BY <1>2, <1>4, GoesTold
  <2>2. at'[r] = "idle" => PlaceOK(r)'
    BY DEF PlaceOK, AfterDropin, UnitPlaces
  <2> QED
    BY <1>3, <1>4, <2>1, <2>2 DEF Goes
<1>5. ASSUME NEW to \in JournalPlaces, Goes(r, to), at'[r] = to => PlaceOK(r)',
             UNCHANGED <<page, disk, mounted, journald, loose>>
      PROVE  JournalInv'
  BY <1>1, <1>2, <1>4, <1>5, QuietStep
<1> USE DEF RepairGoto, Fail, GoOrFail, Goes
<1>6. CASE MakeDir(r, "journal", "journald.conf.d", "write_dropin")
  <2>1. "write_dropin" \in JournalPlaces
    BY DEF JournalPlaces, Places, AfterDropin, UnitPlaces, ScriptPlaces, Open
  <2>2. Goes(r, "write_dropin") /\ UNCHANGED <<page, disk, mounted, journald, loose>>
    BY <1>2, <1>6 DEF MakeDir, Files, Written
  <2>3. at'[r] = "write_dropin" => PlaceOK(r)'
    BY DEF PlaceOK, AfterDropin, UnitPlaces
  <2> QED
    BY <1>5, <2>1, <2>2, <2>3
<1>7. CASE Truncate(r, "write_dropin", "dropin", "fill_dropin")
  <2>1. "fill_dropin" \in JournalPlaces /\ "dropin" \in Written
    BY DEF JournalPlaces, Places, AfterDropin, UnitPlaces, ScriptPlaces, Open, Written
  <2>2. /\ at[r] = "write_dropin" /\ Goes(r, "fill_dropin") /\ UNCHANGED <<disk, mounted, journald>>
        /\ page' = [page EXCEPT !["dropin"] = "part"] /\ loose' = [loose EXCEPT !["dropin"] = {r}]
    BY <1>2, <1>7 DEF Truncate
  <2>3. BoardOK' /\ Lasts(r)
    BY <1>1, <1>2, <2>1, <2>2, TruncateStep DEF PlaceOK, UnitPlaces
  <2>4. /\ page'["dropin"] \in {page["dropin"], "part"} /\ page'["backing"] = page["backing"]
        /\ loose'["dropin"] = {r}
    BY <1>2, <2>1, <2>2 DEF BoardOK, FilesOK, Files, Written
  <2>5. at'[r] = "fill_dropin" => PlaceOK(r)'
    BY <1>1, <1>2, <2>2, <2>4 DEF PlaceOK, AfterDropin, UnitPlaces, LooseOrWhole
  <2> QED
    BY <1>4, <2>1, <2>2, <2>3, <2>4, <2>5
<1>8. CASE Fill(r, "fill_dropin", "dropin", "sync_dropin")
  <2>1. "sync_dropin" \in JournalPlaces /\ "dropin" \in Written
    BY DEF JournalPlaces, Places, AfterDropin, UnitPlaces, ScriptPlaces, Open, Written
  <2>2. /\ at[r] = "fill_dropin" /\ Goes(r, "sync_dropin") /\ UNCHANGED <<disk, mounted, journald, loose>>
        /\ page' = [page EXCEPT !["dropin"] = "full"] \/ UNCHANGED page
    BY <1>2, <1>8 DEF Fill
  <2>3. BoardOK' /\ Lasts(r)
    BY <1>1, <1>2, <2>1, <2>2, FillStep, QuietStep DEF PlaceOK, UnitPlaces
  <2>4. /\ page'["dropin"] \in {page["dropin"], "full"} /\ page'["backing"] = page["backing"]
    BY <1>2, <2>1, <2>2 DEF BoardOK, FilesOK, Files, Written
  <2>5. at'[r] = "sync_dropin" => PlaceOK(r)'
    BY <1>1, <1>2, <2>2, <2>4 DEF PlaceOK, AfterDropin, UnitPlaces
  <2> QED
    BY <1>4, <2>1, <2>2, <2>3, <2>4, <2>5
<1>9. CASE Sync(r, "sync_dropin", "dropin", "verify_dropin")
  <2>1. "verify_dropin" \in JournalPlaces
    BY DEF JournalPlaces, Places, AfterDropin, UnitPlaces, ScriptPlaces, Open
  <2>2. /\ at[r] = "sync_dropin" /\ at'[r] = "verify_dropin" /\ Goes(r, "verify_dropin") /\ UNCHANGED <<mounted, journald>>
        /\ image.log = "tmpfs" \/ "dropin" # "unit"
    BY <1>2, <1>9 DEF Sync, PlaceOK, UnitPlaces
  <2>3. CASE /\ disk' = page /\ UNCHANGED page
             /\ loose' = [g \in Written |-> IF page[g] = "full" THEN {} ELSE loose[g]]
    <3>1. BoardOK' /\ Lasts(r)
      BY <1>1, <1>2, <2>2, <2>3, SyncedStep
    <3>2. PlaceOK(r)'
      BY <1>1, <1>2, <2>2, <2>3 DEF PlaceOK, AfterDropin, UnitPlaces, Written
    <3> QED
      BY <1>4, <2>1, <2>2, <2>3, <3>1, <3>2
  <2>4. CASE UNCHANGED <<page, disk, loose>>
    <3>1. PlaceOK(r)'
      BY <1>1, <1>2, <2>2, <2>4 DEF PlaceOK, AfterDropin, UnitPlaces
    <3> QED
      BY <1>5, <2>1, <2>2, <2>4, <3>1
  <2>5. CASE /\ "dropin" \in Written
             /\ page' = [page EXCEPT !["dropin"] = "part"] /\ disk' = page'
             /\ loose' = [loose EXCEPT !["dropin"] = {r}]
    <3>1. BoardOK' /\ Lasts(r)
      BY <1>1, <1>2, <2>2, <2>5, CutOffStep
    <3>2. /\ page'["dropin"] \in {page["dropin"], "part"} /\ page'["backing"] = page["backing"]
          /\ disk'["backing"] = page["backing"]
      BY <1>2, <2>5 DEF BoardOK, FilesOK, Files, Written
    <3>3. PlaceOK(r)'
      BY <1>1, <1>2, <2>2, <2>5, <3>2 DEF PlaceOK, AfterDropin, UnitPlaces, BoardOK, FilesOK, Files, Written
    <3> QED
      BY <1>4, <2>1, <2>2, <3>1, <3>2, <3>3
  <2> QED
    BY <1>9, <2>3, <2>4, <2>5 DEF Sync, Synced
<1>10. CASE Verify(r, "verify_dropin", "dropin", "make_dir")
  <2>1. "make_dir" \in JournalPlaces
    BY DEF JournalPlaces, Places, AfterDropin, UnitPlaces, ScriptPlaces, Open
  <2>2. Goes(r, "make_dir") /\ UNCHANGED <<page, disk, mounted, journald, loose>>
    BY <1>2, <1>10 DEF Verify, Verified
  <2>3. at'[r] = "make_dir" => PlaceOK(r)'
    BY <1>1, <1>2, <1>10, <2>2 DEF Verify, Verified, PlaceOK, AfterDropin, UnitPlaces
  <2> QED
    BY <1>5, <2>1, <2>2, <2>3
<1>11. CASE MakeDir(r, "make_dir", "dir", "check_fs")
  <2>1. "check_fs" \in JournalPlaces
    BY DEF JournalPlaces, Places, AfterDropin, UnitPlaces, ScriptPlaces, Open
  <2>2. /\ at[r] = "make_dir" /\ Goes(r, "check_fs") /\ UNCHANGED <<disk, mounted, journald, loose>>
        /\ page' = [page EXCEPT !["dir"] = "full"] \/ (UNCHANGED page /\ at'[r] = "idle")
    BY <1>2, <1>11 DEF MakeDir, Files, Written
  <2>3. BoardOK' /\ Lasts(r)
    BY <1>1, <1>2, <2>2, MakeDirStep, QuietStep
  <2>4. page'["dropin"] = page["dropin"] /\ (at'[r] = "check_fs" => page'["dir"] = "full")
    BY <1>2, <2>2 DEF BoardOK, FilesOK, Files, Written
  <2>5. at'[r] = "check_fs" => PlaceOK(r)'
    BY <1>1, <1>2, <2>2, <2>4 DEF PlaceOK, AfterDropin, UnitPlaces
  <2> QED
    BY <1>4, <2>1, <2>2, <2>3, <2>4, <2>5
<1>12. CASE CheckFs(r)
  <2>1. {"restart", "make_backing"} \subseteq JournalPlaces
    BY DEF JournalPlaces, Places, AfterDropin, UnitPlaces, ScriptPlaces, Open
  <2>2. /\ UNCHANGED <<page, disk, mounted, journald, loose>> /\ at[r] = "check_fs"
        /\ Goes(r, "restart") \/ (Goes(r, "make_backing") /\ JournalFs(mounted) = "tmpfs")
    BY <1>2, <1>12 DEF CheckFs
  <2>3. JournalFs(mounted) = "tmpfs" => image.log = "tmpfs"
    BY <1>2 DEF BoardOK, RealOK, JournalFs
  <2>4. /\ Goes(r, "restart") /\ at'[r] = "restart" => PlaceOK(r)'
        /\ Goes(r, "make_backing") /\ at'[r] = "make_backing" /\ JournalFs(mounted) = "tmpfs" => PlaceOK(r)'
    BY <1>1, <1>2, <2>2, <2>3 DEF PlaceOK, AfterDropin, UnitPlaces
  <2> QED
    BY <1>5, <2>1, <2>2, <2>4
<1>13. CASE MakeDir(r, "make_backing", "backing", "check_backing")
  <2>1. "check_backing" \in JournalPlaces
    BY DEF JournalPlaces, Places, AfterDropin, UnitPlaces, ScriptPlaces, Open
  <2>2. /\ at[r] = "make_backing" /\ Goes(r, "check_backing") /\ UNCHANGED <<disk, mounted, journald, loose>>
        /\ page' = [page EXCEPT !["backing"] = "full"] \/ (UNCHANGED page /\ at'[r] = "idle")
    BY <1>2, <1>13 DEF MakeDir, Files, Written
  <2>3. BoardOK' /\ Lasts(r)
    BY <1>1, <1>2, <2>2, MakeDirStep, QuietStep
  <2>4. page'["dropin"] = page["dropin"] /\ (at'[r] = "check_backing" => page'["backing"] = "full")
    BY <1>2, <2>2 DEF BoardOK, FilesOK, Files, Written
  <2>5. at'[r] = "check_backing" => PlaceOK(r)'
    BY <1>1, <1>2, <2>2, <2>4 DEF PlaceOK, AfterDropin, UnitPlaces
  <2> QED
    BY <1>4, <2>1, <2>2, <2>3, <2>4, <2>5
<1>14. CASE CheckBacking(r)
  <2>1. "write_unit" \in JournalPlaces
    BY DEF JournalPlaces, Places, AfterDropin, UnitPlaces, ScriptPlaces, Open
  <2>2. Goes(r, "write_unit") /\ UNCHANGED <<page, disk, mounted, journald, loose>>
    BY <1>2, <1>14 DEF CheckBacking
  <2>3. at'[r] = "write_unit" => PlaceOK(r)'
    BY <1>1, <1>2, <1>14, <2>2 DEF CheckBacking, PlaceOK, AfterDropin, UnitPlaces
  <2> QED
    BY <1>5, <2>1, <2>2, <2>3
<1>15. CASE Truncate(r, "write_unit", "unit", "fill_unit")
  <2>1. "fill_unit" \in JournalPlaces /\ "unit" \in Written
    BY DEF JournalPlaces, Places, AfterDropin, UnitPlaces, ScriptPlaces, Open, Written
  <2>2. /\ at[r] = "write_unit" /\ Goes(r, "fill_unit") /\ UNCHANGED <<disk, mounted, journald>>
        /\ page' = [page EXCEPT !["unit"] = "part"] /\ loose' = [loose EXCEPT !["unit"] = {r}]
    BY <1>2, <1>15 DEF Truncate
  <2>3. BoardOK' /\ Lasts(r)
    BY <1>1, <1>2, <2>1, <2>2, TruncateStep DEF PlaceOK, UnitPlaces
  <2>4. /\ page'["dropin"] \in {page["dropin"], "part"} /\ page'["backing"] = page["backing"]
        /\ loose'["unit"] = {r}
        /\ page'["dropin"] = page["dropin"] /\ loose'["dropin"] = loose["dropin"]
    BY <1>2, <2>1, <2>2 DEF BoardOK, FilesOK, Files, Written
  <2>5. at'[r] = "fill_unit" => PlaceOK(r)'
    BY <1>1, <1>2, <2>2, <2>4 DEF PlaceOK, AfterDropin, UnitPlaces, LooseOrWhole
  <2> QED
    BY <1>4, <2>1, <2>2, <2>3, <2>4, <2>5
<1>16. CASE Fill(r, "fill_unit", "unit", "sync_unit")
  <2>1. "sync_unit" \in JournalPlaces /\ "unit" \in Written
    BY DEF JournalPlaces, Places, AfterDropin, UnitPlaces, ScriptPlaces, Open, Written
  <2>2. /\ at[r] = "fill_unit" /\ Goes(r, "sync_unit") /\ UNCHANGED <<disk, mounted, journald, loose>>
        /\ page' = [page EXCEPT !["unit"] = "full"] \/ UNCHANGED page
    BY <1>2, <1>16 DEF Fill
  <2>3. BoardOK' /\ Lasts(r)
    BY <1>1, <1>2, <2>1, <2>2, FillStep, QuietStep DEF PlaceOK, UnitPlaces
  <2>4. /\ page'["dropin"] \in {page["dropin"], "full"} /\ page'["backing"] = page["backing"]
        /\ page'["dropin"] = page["dropin"]
    BY <1>2, <2>1, <2>2 DEF BoardOK, FilesOK, Files, Written
  <2>5. at'[r] = "sync_unit" => PlaceOK(r)'
    BY <1>1, <1>2, <2>2, <2>4 DEF PlaceOK, AfterDropin, UnitPlaces
  <2> QED
    BY <1>4, <2>1, <2>2, <2>3, <2>4, <2>5
<1>17. CASE Sync(r, "sync_unit", "unit", "verify_unit")
  <2>1. "verify_unit" \in JournalPlaces
    BY DEF JournalPlaces, Places, AfterDropin, UnitPlaces, ScriptPlaces, Open
  <2>2. /\ at[r] = "sync_unit" /\ at'[r] = "verify_unit" /\ Goes(r, "verify_unit") /\ UNCHANGED <<mounted, journald>>
        /\ image.log = "tmpfs" \/ "unit" # "unit"
    BY <1>2, <1>17 DEF Sync, PlaceOK, UnitPlaces
  <2>3. CASE /\ disk' = page /\ UNCHANGED page
             /\ loose' = [g \in Written |-> IF page[g] = "full" THEN {} ELSE loose[g]]
    <3>1. BoardOK' /\ Lasts(r)
      BY <1>1, <1>2, <2>2, <2>3, SyncedStep
    <3>2. PlaceOK(r)'
      BY <1>1, <1>2, <2>2, <2>3 DEF PlaceOK, AfterDropin, UnitPlaces, Written
    <3> QED
      BY <1>4, <2>1, <2>2, <2>3, <3>1, <3>2
  <2>4. CASE UNCHANGED <<page, disk, loose>>
    <3>1. PlaceOK(r)'
      BY <1>1, <1>2, <2>2, <2>4 DEF PlaceOK, AfterDropin, UnitPlaces
    <3> QED
      BY <1>5, <2>1, <2>2, <2>4, <3>1
  <2>5. CASE /\ "unit" \in Written
             /\ page' = [page EXCEPT !["unit"] = "part"] /\ disk' = page'
             /\ loose' = [loose EXCEPT !["unit"] = {r}]
    <3>1. BoardOK' /\ Lasts(r)
      BY <1>1, <1>2, <2>2, <2>5, CutOffStep
    <3>2. /\ page'["dropin"] \in {page["dropin"], "part"} /\ page'["backing"] = page["backing"]
          /\ disk'["backing"] = page["backing"]
      BY <1>2, <2>5 DEF BoardOK, FilesOK, Files, Written
    <3>3. PlaceOK(r)'
      BY <1>1, <1>2, <2>2, <2>5, <3>2 DEF PlaceOK, AfterDropin, UnitPlaces, BoardOK, FilesOK, Files, Written
    <3> QED
      BY <1>4, <2>1, <2>2, <3>1, <3>2, <3>3
  <2> QED
    BY <1>17, <2>3, <2>4, <2>5 DEF Sync, Synced
<1>18. CASE Verify(r, "verify_unit", "unit", "mount")
  <2>1. "mount" \in JournalPlaces
    BY DEF JournalPlaces, Places, AfterDropin, UnitPlaces, ScriptPlaces, Open
  <2>2. Goes(r, "mount") /\ UNCHANGED <<page, disk, mounted, journald, loose>>
    BY <1>2, <1>18 DEF Verify, Verified
  <2>3. at'[r] = "mount" => PlaceOK(r)'
    BY <1>1, <1>2, <1>18, <2>2 DEF Verify, Verified, PlaceOK, AfterDropin, UnitPlaces
  <2> QED
    BY <1>5, <2>1, <2>2, <2>3
<1>19. CASE StartMount(r)
  <2>1. "confirm" \in JournalPlaces
    BY DEF JournalPlaces, Places, AfterDropin, UnitPlaces, ScriptPlaces, Open
  <2>2. CASE UNCHANGED mounted /\ at'[r] = "idle" /\ result' = "failed"
    BY <1>5, <1>19, <2>1, <2>2 DEF StartMount
  <2>3. CASE page["unit"] = "full" /\ mounted' = TRUE /\ at'[r] = "confirm" /\ UNCHANGED answer
    <3>1. UNCHANGED <<page, disk, journald, loose>> /\ at[r] = "mount"
      BY <1>19 DEF StartMount
    <3>2. /\ image.log = "tmpfs" /\ page["backing"] = "full"
          /\ loose["unit"] # {} \/ disk["backing"] = "full"
      BY <1>2, <3>1 DEF PlaceOK, UnitPlaces
    <3>3. JournaldOK'
      <4>1. journald = "persistent" => mounted = TRUE
        BY <1>2, <3>2 DEF BoardOK, FilesOK, JournaldOK, JournalFs
      <4> QED
        BY <1>1, <1>2, <2>3, <3>1, <4>1 DEF BoardOK, JournaldOK, JournalFs
    <3>4. BoardOK' /\ Lasts(r)
      BY <1>1, <1>2, <2>3, <3>1, <3>2, <3>3
         DEF BoardOK, FilesOK, LooseOK, RealOK, MountOK, Lasts, LooseOrWhole
    <3>5. PlaceOK(r)'
      BY <1>2, <2>3, <3>1 DEF PlaceOK, AfterDropin, UnitPlaces
    <3> QED
      BY <1>4, <2>1, <2>3, <3>1, <3>4, <3>5
  <2> QED
    BY <1>2, <1>19, <2>2, <2>3 DEF StartMount
<1>20. CASE ConfirmMount(r)
  <2>1. "restart" \in JournalPlaces
    BY DEF JournalPlaces, Places, AfterDropin, UnitPlaces, ScriptPlaces, Open
  <2>2. Goes(r, "restart") /\ UNCHANGED <<page, disk, mounted, journald, loose>>
    BY <1>2, <1>20 DEF ConfirmMount
  <2>3. at'[r] = "restart" => PlaceOK(r)'
    BY <1>1, <1>2, <1>20, <2>2 DEF ConfirmMount, PlaceOK, AfterDropin, UnitPlaces
  <2> QED
    BY <1>5, <2>1, <2>2, <2>3
<1>21. CASE RestartJournald(r)
  <2>1. /\ UNCHANGED <<page, disk, mounted, loose>> /\ at[r] = "restart"
        /\ journald' = Mode(page, mounted) /\ Goes(r, "flush")
        /\ journald' = "down" => at'[r] = "idle" /\ result' = "failed"
    BY <1>2, <1>21 DEF RestartJournald
  <2>2. mounted \in BOOLEAN /\ JournalFs(mounted)' = JournalFs(mounted)
    BY <1>1, <1>2, <2>1 DEF BoardOK, FilesOK, JournalFs
  <2>3. BoardOK' /\ Lasts(r)
    BY <1>1, <1>2, <2>1, <2>2, ModeOfAny
       DEF BoardOK, FilesOK, LooseOK, RealOK, MountOK, JournaldOK, Lasts, LooseOrWhole
  <2>4. PlaceOK(r)'
    BY <1>1, <1>2, <2>1 DEF PlaceOK, AfterDropin, UnitPlaces
  <2>5. ToldOK'
    <3> SUFFICES ASSUME result' = "ok", overlooked' = {} PROVE ToldOK'
      BY DEF ToldOK
    <3>1. result = "ok" /\ overlooked = {} /\ at'[r] = "flush"
      BY <2>1 DEF answer
    <3>2. journald = "persistent" /\ page["dropin"] \in {"part", "full"}
      BY <1>2, <3>1 DEF ToldOK
    <3>3. page["dropin"] = "full"
      <4>1. page["dropin"] = "part" => Mode(page, mounted) = "down"
        BY DEF Mode
      <4> QED
        BY <2>1, <3>1, <3>2, <4>1
    <3>4. journald' = "persistent"
      BY <1>2, <2>1, <2>2, <3>2, <3>3, ModeOfWhole DEF BoardOK, JournaldOK
    <3> QED
      BY <2>1, <3>1, <3>3, <3>4 DEF ToldOK, ScriptPlaces, Open
  <2> QED
    BY <1>3, <2>3, <2>4, <2>5
<1>22. CASE Sync(r, "flush", "logs", "probe")
  <2>1. "probe" \in JournalPlaces
    BY DEF JournalPlaces, Places, AfterDropin, UnitPlaces, ScriptPlaces, Open
  <2>2. /\ at[r] = "flush" /\ at'[r] = "probe" /\ Goes(r, "probe") /\ UNCHANGED <<mounted, journald>>
        /\ image.log = "tmpfs" \/ "logs" # "unit"
    BY <1>2, <1>22 DEF Sync, PlaceOK, UnitPlaces
  <2>3. CASE /\ disk' = page /\ UNCHANGED page
             /\ loose' = [g \in Written |-> IF page[g] = "full" THEN {} ELSE loose[g]]
    <3>1. BoardOK' /\ Lasts(r)
      BY <1>1, <1>2, <2>2, <2>3, SyncedStep
    <3>2. PlaceOK(r)'
      BY <1>1, <1>2, <2>2, <2>3 DEF PlaceOK, AfterDropin, UnitPlaces, Written
    <3> QED
      BY <1>4, <2>1, <2>2, <2>3, <3>1, <3>2
  <2>4. CASE UNCHANGED <<page, disk, loose>>
    <3>1. PlaceOK(r)'
      BY <1>1, <1>2, <2>2, <2>4 DEF PlaceOK, AfterDropin, UnitPlaces
    <3> QED
      BY <1>5, <2>1, <2>2, <2>4, <3>1
  <2>5. CASE /\ "logs" \in Written
             /\ page' = [page EXCEPT !["logs"] = "part"] /\ disk' = page'
             /\ loose' = [loose EXCEPT !["logs"] = {r}]
    BY <2>5 DEF Written
  <2> QED
    BY <1>22, <2>3, <2>4, <2>5 DEF Sync, Synced
<1>23. CASE Probe(r)
  <2>1. /\ UNCHANGED <<page, disk, mounted, journald, loose>> /\ at[r] = "probe" /\ at'[r] = "idle"
        /\ \/ result' = "failed"
           \/ /\ result' = "ok"
              /\ overlooked' = {f \in Written : loose[f] # {}}
                                  \cup (IF journald = "persistent" THEN {} ELSE {"probe"})
    BY <1>2, <1>23 DEF Probe
  <2>2. BoardOK' /\ Lasts(r)
    BY <1>1, <1>2, <2>1, QuietStep
  <2>3. PlaceOK(r)'
    BY <2>1 DEF PlaceOK, AfterDropin, UnitPlaces
  <2>4. ToldOK'
    <3> SUFFICES ASSUME result' = "ok", overlooked' = {} PROVE ToldOK'
      BY DEF ToldOK
    <3>1. journald = "persistent" /\ \A f \in Written : loose[f] = {}
      BY <2>1
    <3>2. page["dropin"] = "full"
      BY <1>2, <2>1, <3>1 DEF PlaceOK, AfterDropin, Written
    <3> QED
      BY <2>1, <3>1, <3>2 DEF ToldOK
  <2> QED
    BY <1>3, <2>2, <2>3, <2>4
<1> QED
  BY <1>6, <1>7, <1>8, <1>9, <1>10, <1>11, <1>12, <1>13, <1>14, <1>15, <1>16, <1>17, <1>18, <1>19, <1>20, <1>21, <1>22, <1>23 DEF EnableJournal

\* A reset finds the files of a successful run as they were written, and mounts
\* what they say.
LEMMA ResetStep == ASSUME JournalInv, Reset, AtOK' PROVE JournalInv'
<1>1. BoardOK /\ ToldOK
  BY DEF JournalInv
<1>2. PICK found \in [Files -> Contents] :
        /\ \A x \in Files : found[x] \in AfterReset(x) \cup ({disk[x]} \cap {"none"})
        /\ LET up == found.unit = "full" /\ found.backing = "full"
               left == [found EXCEPT !.dir = IF image.log = "tmpfs" /\ ~up THEN "none" ELSE @]
           IN /\ page' = left /\ disk' = left
              /\ mounted' = up
              /\ journald' = Mode(left, up)
  BY DEF Reset
<1> DEFINE up == found["unit"] = "full" /\ found["backing"] = "full"
           left == [found EXCEPT !["dir"] = IF image.log = "tmpfs" /\ ~up THEN "none" ELSE @]
<1>3. page' = left /\ disk' = left /\ mounted' = up /\ journald' = Mode(left, up)
  BY <1>2
<1>4. left \in [Files -> Contents] /\ \A f \in Files \ {"dir"} : left[f] = found[f]
  BY DEF Contents, Files, Written
<1>5. /\ image' = image /\ resets' \in Nat /\ loose' = [f \in Written |-> {}]
      /\ \A r \in Requests : at'[r] = "idle"
  BY <1>1, RepairBounds DEF Reset, BoardOK, FilesOK
<1>6. up \in BOOLEAN /\ JournalFs(up)' = JournalFs(up)
  BY <1>5 DEF JournalFs
<1>7. FilesOK'
  BY <1>3, <1>4, <1>5 DEF FilesOK
<1>8. LooseOK' /\ MountOK'
  BY <1>3, <1>4, <1>5 DEF LooseOK, MountOK, Files, Written
<1>9. image.log # "tmpfs" => left["unit"] = "none" /\ ~up
  <2>1. found["unit"] \in AfterReset("unit") \cup ({disk["unit"]} \cap {"none"})
    BY <1>2 DEF Files, Written
  <2> QED
    BY <1>1, <1>4, <2>1 DEF BoardOK, RealOK, AfterReset, Files, Written
<1>10. RealOK'
  BY <1>3, <1>5, <1>9 DEF RealOK
<1>11. JournaldOK'
  <2>1. Mode(left, up) = "persistent" => ~image.overridden /\ JournalFs(up) = "real"
    BY <1>6, ModeOfAny
  <2>2. JournalFs(mounted)' = JournalFs(up)
    BY <1>3, <1>5 DEF JournalFs
  <2> QED
    BY <1>3, <1>5, <2>1, <2>2 DEF JournaldOK
<1>12. ToldOK'
  <2> SUFFICES ASSUME result' = "ok", overlooked' = {} PROVE ToldOK'
    BY DEF ToldOK
  <2>1. result = "ok" /\ overlooked = {} /\ \A r \in Requests : at[r] = "idle"
    BY DEF Reset, answer
  <2>2. /\ journald = "persistent" /\ page["dropin"] = "full"
        /\ page["dropin"] = disk["dropin"] /\ page["unit"] = disk["unit"]
        /\ loose["unit"] = {}
    BY <1>1, <2>1 DEF ToldOK, BoardOK, LooseOK, Written
  <2>3. ASSUME NEW f \in Files, page[f] = "full", disk[f] = "full" PROVE found[f] = "full"
    BY <1>2, <2>3 DEF AfterReset
  <2>4. left["dropin"] = "full"
    BY <1>4, <2>2, <2>3 DEF Files, Written
  <2>5. ~image.overridden /\ JournalFs(mounted) = "real"
    BY <1>1, <2>2 DEF BoardOK, JournaldOK
  <2>6. JournalFs(up) = "real"
    <3>1. CASE image.log # "tmpfs"
      BY <1>1, <1>9, <2>5, <3>1 DEF BoardOK, RealOK, JournalFs
    <3>2. CASE image.log = "tmpfs"
      <4>1. mounted = TRUE
        BY <1>1, <2>5, <3>2 DEF BoardOK, FilesOK, JournalFs
      <4>2. page["unit"] = "full" /\ page["backing"] = "full" /\ disk["backing"] = "full"
        BY <1>1, <2>2, <4>1 DEF BoardOK, MountOK
      <4>3. up
        BY <2>2, <2>3, <4>2 DEF Files, Written
      <4> QED
        BY <2>5, <4>1, <4>3 DEF JournalFs
    <3> QED
      BY <3>1, <3>2
  <2>7. Mode(left, up) = "persistent"
    BY <1>6, <2>4, <2>5, <2>6, ModeOfWhole
  <2> QED
    BY <1>3, <1>5, <2>4, <2>7 DEF ToldOK
<1> QED
  BY <1>5, <1>7, <1>8, <1>10, <1>11, <1>12 DEF JournalInv, BoardOK, PlaceOK, AfterDropin, UnitPlaces

LEMMA JournalStep == JournalInv /\ [RepairNext]_repairVars => JournalInv'
<1> SUFFICES ASSUME JournalInv, [RepairNext]_repairVars PROVE JournalInv'
  OBVIOUS
<1>1. AtOK'
  BY AtStep DEF JournalInv
<1>2. BoardOK /\ ToldOK /\ at \in [Requests -> Places]
  BY DEF JournalInv, AtOK
<1>3. ASSUME NEW r \in Requests, UNCHANGED <<image, page, disk, mounted, journald, loose, resets>>,
             at'[r] \in {"idle", "journal"} \cup ScriptPlaces, ToldOK',
             \A s \in Requests \ {r} : at'[s] = at[s]
      PROVE  JournalInv'
  <2>1. BoardOK' /\ Lasts(r)
    BY <1>2, <1>3, QuietStep
  <2>2. PlaceOK(r)'
    BY <1>3 DEF PlaceOK, AfterDropin, UnitPlaces, ScriptPlaces, Open
  <2> QED
    BY <1>1, <1>3, <2>1, <2>2, EnableDone
<1>4. ASSUME NEW r \in Requests, Begin(r) PROVE JournalInv'
  <2>1. /\ UNCHANGED <<image, page, disk, mounted, journald, loose, resets>> /\ result' = "none"
        /\ at'[r] \in {"journal", "register"} /\ \A s \in Requests \ {r} : at'[s] = at[s]
    BY <1>2, <1>4 DEF Begin, RepairGoto, JournalInv, AtOK
  <2>2. ToldOK'
    BY <2>1 DEF ToldOK
  <2> QED
    BY <1>3, <2>1, <2>2 DEF ScriptPlaces
<1>5. ASSUME NEW r \in Requests, EnableJournal(r) PROVE JournalInv'
  BY <1>1, <1>5, EnableStep
<1>6. ASSUME NEW r \in Requests, ClearRegister(r) PROVE JournalInv'
  <2>1. UNCHANGED <<image, page, disk, mounted, journald, loose, answer, resets>>
    BY <1>6 DEF ClearRegister, ReadBefore, OpenSlcr, WriteBack, Reread, WriteZero, Raise, Killed,
                Protect, Answer, ScriptVars, journalVars, bounds
  <2>2. /\ at[r] \in ScriptPlaces /\ at'[r] \in ScriptPlaces \cup {"idle"}
        /\ \A s \in Requests \ {r} : at'[s] = at[s]
    BY <1>2, <1>6 DEF ClearRegister, ReadBefore, OpenSlcr, WriteBack, Reread, WriteZero, Raise,
                AfterRaise, Killed, Protect, Answer, RepairGoto, ScriptPlaces, Open
  <2>3. ToldOK'
    BY <1>2, <2>1, <2>2 DEF ToldOK, answer
  <2> QED
    BY <1>3, <2>1, <2>2, <2>3
<1>7. CASE Reset
  BY <1>1, <1>7, ResetStep
<1>8. CASE UNCHANGED repairVars
  <2>1. UNCHANGED <<image, page, disk, mounted, journald, loose, resets, answer, at>>
    BY <1>8 DEF repairVars, journalVars, bounds
  <2>2. BoardOK'
    <3>1. JournaldOK'
      BY <1>2, <2>1, JournalFsSame DEF BoardOK, JournaldOK
    <3> QED
      BY <1>2, <2>1, <3>1 DEF BoardOK, FilesOK, LooseOK, RealOK, MountOK
  <2>3. \A s \in Requests : PlaceOK(s)'
    BY <2>1 DEF JournalInv, PlaceOK, LooseOrWhole
  <2>4. ToldOK'
    BY <1>2, <2>1 DEF ToldOK, answer
  <2> QED
    BY <1>1, <2>2, <2>3, <2>4 DEF JournalInv
<1> QED
  BY <1>4, <1>5, <1>6, <1>7, <1>8 DEF RepairNext

\* Once the operator is told that logs survive a reboot they do, on every image,
\* after every reset and for any number of requests at once
\* (enable_persistent_journal), except for a file that no successful sync found
\* whole and a probe that was deceived.
THEOREM OkMeansPersistentHolds == RepairSpec => []OkMeansPersistent
<1>1. JournalInv => OkMeansPersistent
  BY DEF JournalInv, ToldOK, OkMeansPersistent
<1> QED
  BY JournalInit, JournalStep, <1>1, PTL DEF RepairSpec

\* No step of the procedure stops journald, which a half-written drop-in would
\* (enable_persistent_journal verifies it first): only a reset in between, or a
\* request that has rewritten the drop-in since, can.
THEOREM OnlyResetsStopJournaldHolds == RepairSpec => OnlyResetsStopJournald
<1>1. ASSUME JournalInv, [RepairNext]_repairVars
      PROVE  [journald # "down" /\ journald' = "down" =>
                resets' > resets \/ \E r \in Requests : RestartsBesideAnother(r)]_repairVars
  <2> SUFFICES ASSUME journald # "down", journald' = "down"
               PROVE  resets' > resets \/ \E r \in Requests : RestartsBesideAnother(r)
    OBVIOUS
  <2>1. CASE Reset
    BY <1>1, <2>1 DEF Reset, JournalInv, BoardOK, FilesOK
  <2>2. ASSUME NEW r \in Requests, RestartJournald(r) PROVE RestartsBesideAnother(r)
    <3>1. mounted \in BOOLEAN /\ journald' = Mode(page, mounted) /\ at[r] = "restart" /\ at'[r] = "idle"
      BY <1>1, <2>2 DEF RestartJournald, Fail, RepairGoto, JournalInv, AtOK, BoardOK, FilesOK
    <3>2. page["dropin"] = "part"
      BY <3>1, ModeOfAny
    <3> QED
      BY <1>1, <3>1, <3>2 DEF JournalInv, PlaceOK, AfterDropin, RestartsBesideAnother
  <2>3. ASSUME NEW r \in Requests, Begin(r) \/ ClearRegister(r) \/ EnableJournal(r),
               ~RestartJournald(r)
        PROVE  FALSE
    BY <2>3 DEF Begin, ClearRegister, ReadBefore, OpenSlcr, WriteBack, Reread, WriteZero, Raise,
            Killed, Protect, Answer, ScriptVars, journalVars, EnableJournal, MakeDir, Truncate,
            Fill, Sync, Verify, CheckFs, CheckBacking, StartMount, ConfirmMount, Probe
  <2> QED
    BY <1>1, <2>1, <2>2, <2>3 DEF RepairNext, repairVars, journalVars
<1> QED
  BY JournalInit, JournalStep, <1>1, PTL DEF RepairSpec, OnlyResetsStopJournald

-----------------------------------------------------------------------------
(***************************************************************************)
(* The telemetry manager: a reading is dated by the mutation_seq it was    *)
(* asked under, and the counters of the poll by what was said of them.     *)
(***************************************************************************)

\* The counters of the poll and what has been said of the loss they count: the
\* poll may be between counting a failure and saying so.
LossBacked ==
    LET r == reader[Poll] IN
    IF ~At(Poll, "logging")
      THEN /\ lossReported => warned
           /\ failures >= LossPolls => warned
      ELSE /\ lossReported => r.reported
           /\ IF r.answer = "running" THEN failures = 0
              ELSE \/ failures = 0 /\ ~lossReported
                   \/ /\ failures = r.failures
                      /\ r.reported => warned
                      /\ r.failures > LossPolls => warned

\* A reader under way holds the mutation_seq of its entry, or was overtaken.
SeqDated ==
    \A w \in Readers :
        /\ At(w, "begun") => overtaken[w] = "no"
        /\ UnderWay(w) /\ overtaken[w] = "yes" => reader[w].seq < seq
        /\ UnderWay(w) /\ overtaken[w] = "no" => reader[w].seq = seq

-----------------------------------------------------------------------------
(* Shapes.                                                                 *)

LEMMA ReadingShapes ==
    ASSUME NEW r \in Readings
    PROVE  /\ r.at \in {"idle", "begun", "asking", "probing", "applying", "logging"}
           /\ r.at # "idle" /\ r.at # "logging" => r.recorded \in BOOLEAN
           /\ r.at \in {"asking", "probing", "applying"} => r.seq \in Nat
           /\ r.at \in {"probing", "applying"} =>
                r.answer \in Answers /\ r.version \in Builds \cup {Nil} /\ r.settled \in BOOLEAN
           /\ r.at = "logging" =>
                r.answer \in Answers /\ r.failures \in 0..(LossPolls + 1) /\ r.reported \in BOOLEAN
BY DEF Readings

LEMMA ReadingsMade ==
    /\ Idle \in Readings
    /\ \A a \in BOOLEAN : [at |-> "begun", recorded |-> a] \in Readings
    /\ \A a \in BOOLEAN, n \in Nat : [at |-> "asking", recorded |-> a, seq |-> n] \in Readings
    /\ \A a \in BOOLEAN, n \in Nat, b \in Answers, v \in Builds \cup {Nil}, c \in BOOLEAN,
          p \in {"probing", "applying"} :
        [at |-> p, recorded |-> a, seq |-> n, answer |-> b, version |-> v, settled |-> c] \in Readings
    /\ \A b \in Answers, n \in 0..(LossPolls + 1), c \in BOOLEAN :
        [at |-> "logging", answer |-> b, failures |-> n, reported |-> c] \in Readings
<1>1. Idle \in Readings
  BY DEF Idle, Readings
<1>2. \A a \in BOOLEAN : [at |-> "begun", recorded |-> a] \in Readings
  BY DEF Readings
<1>3. \A a \in BOOLEAN, n \in Nat : [at |-> "asking", recorded |-> a, seq |-> n] \in Readings
  BY DEF Readings
<1>4. \A a \in BOOLEAN, n \in Nat, b \in Answers, v \in Builds \cup {Nil}, c \in BOOLEAN,
          p \in {"probing", "applying"} :
        [at |-> p, recorded |-> a, seq |-> n, answer |-> b, version |-> v, settled |-> c] \in Readings
  BY DEF Readings
<1>5. \A b \in Answers, n \in 0..(LossPolls + 1), c \in BOOLEAN :
        [at |-> "logging", answer |-> b, failures |-> n, reported |-> c] \in Readings
  BY DEF Readings
<1> QED
  BY <1>1, <1>2, <1>3, <1>4, <1>5

LEMMA WorkShapes ==
    ASSUME NEW o \in Work
    PROVE  /\ o.at \in {"idle", "ssh", "recording", "telling", "verifying", "verdict"}
           /\ o.at # "idle" => o.action \in Actions
           /\ o.at = "recording" => o.action \in {"install", "uninstall"}
           /\ o.at = "verdict" => o.result \in Answers
           /\ o.at = "telling" /\ o.action = "status" => o.result \in Builds
BY DEF Work, Actions

LEMMA WorkMade ==
    /\ Idle \in Work
    /\ \A a \in Actions : [at |-> "ssh", action |-> a, result |-> Nil] \in Work
    /\ \A a \in {"install", "uninstall"}, p \in {"recording", "telling"} :
          [at |-> p, action |-> a, result |-> Nil] \in Work
    /\ \A a \in {"install"} : [at |-> "verifying", action |-> a, result |-> Nil] \in Work
    /\ \A a \in {"install"}, b \in Answers : [at |-> "verdict", action |-> a, result |-> b] \in Work
    /\ \A a \in {"start", "stop", "restart"}, b \in {"up", "down"} :
          [at |-> "telling", action |-> a, result |-> b] \in Work
    /\ \A a \in {"status"}, b \in Builds : [at |-> "telling", action |-> a, result |-> b] \in Work
<1>1. Idle \in Work
  BY DEF Idle, Work
<1>2. \A a \in Actions : [at |-> "ssh", action |-> a, result |-> Nil] \in Work
  BY DEF Work
<1>3. \A a \in {"install", "uninstall"}, p \in {"recording", "telling"} :
          [at |-> p, action |-> a, result |-> Nil] \in Work
  BY DEF Work
<1>4. \A a \in {"install"} : [at |-> "verifying", action |-> a, result |-> Nil] \in Work
  BY DEF Work
<1>5. \A a \in {"install"}, b \in Answers : [at |-> "verdict", action |-> a, result |-> b] \in Work
  BY DEF Work
<1>6. \A a \in {"start", "stop", "restart"}, b \in {"up", "down"} :
          [at |-> "telling", action |-> a, result |-> b] \in Work
  BY DEF Work
<1>7. \A a \in {"status"}, b \in Builds : [at |-> "telling", action |-> a, result |-> b] \in Work
  BY DEF Work
<1> QED
  BY <1>1, <1>2, <1>3, <1>4, <1>5, <1>6, <1>7

LEMMA AnswersMade ==
    /\ BoardAnswer \in Answers
    /\ \A a \in Answers, b \in BOOLEAN : Judged(a, b) \in Answers
BY DEF BoardAnswer, Judged, Answers

-----------------------------------------------------------------------------
(* Types.                                                                  *)

LEMMA ReadersTyped ==
    ASSUME TelemetryTypeOK, NEW w \in Readers, BeginRead(w) \/ Capture(w) \/ Ask(w)
    PROVE  TelemetryTypeOK'
<1>1. CASE BeginRead(w)
  <2>1. reader' = [reader EXCEPT ![w] = [at |-> "begun", recorded |-> record]]
    BY <1>1 DEF BeginRead, Move
  <2>2. reader' \in [Readers -> Readings]
    BY <2>1, ReadingsMade DEF TelemetryTypeOK
  <2>3. acted' \in 0..MaxActions
    BY <1>1, TelemetryBounds DEF BeginRead, TelemetryTypeOK
  <2>4. overtaken' \in [Readers -> {"no", "yes", "forgotten"}]
    BY <1>1 DEF BeginRead, TelemetryTypeOK
  <2>5. UNCHANGED <<entry, device, board, op, changed>>
    BY <1>1 DEF BeginRead
  <2> QED
    BY <2>2, <2>3, <2>4, <2>5 DEF TelemetryTypeOK, entry, status, build, health, device, board
<1>2. CASE Capture(w)
  <2>1. /\ reader[w].recorded \in BOOLEAN /\ seq \in Nat
        /\ reader' = [reader EXCEPT ![w] = [at |-> "asking", recorded |-> reader[w].recorded, seq |-> seq]]
    BY <1>2, ReadingShapes DEF Capture, Move, At, TelemetryTypeOK
  <2>2. reader' \in [Readers -> Readings]
    BY <2>1, ReadingsMade DEF TelemetryTypeOK
  <2>3. UNCHANGED <<entry, device, board, op, acted, changed, overtaken>>
    BY <1>2 DEF Capture
  <2> QED
    BY <2>2, <2>3 DEF TelemetryTypeOK, entry, status, build, health, device, board
<1>3. CASE Ask(w)
  <2>1. reader[w].recorded \in BOOLEAN /\ reader[w].seq \in Nat
    BY <1>3, ReadingShapes DEF Ask, At, TelemetryTypeOK
  <2> DEFINE reply == Judged(BoardAnswer, reader[w].recorded)
  <2>2. reply \in Answers
    BY <2>1, AnswersMade
  <2>3. PICK p \in {"probing", "applying"} :
            reader' = [reader EXCEPT ![w] = Answered(w, p, reply, Nil, FALSE)]
    <3> HIDE DEF reply
    <3> QED
      BY <1>3 DEF Ask, Move, reply
  <2>4. Answered(w, p, reply, Nil, FALSE) \in Readings
    <3> HIDE DEF reply
    <3> QED
      BY <2>1, <2>2, <2>3, ReadingsMade DEF Answered
  <2>5. reader' \in [Readers -> Readings]
    BY <2>3, <2>4 DEF TelemetryTypeOK
  <2>6. UNCHANGED <<entry, device, board, op, acted, changed, overtaken>>
    BY <1>3 DEF Ask
  <2> QED
    BY <2>5, <2>6 DEF TelemetryTypeOK, entry, status, build, health, device, board
<1> QED
  BY <1>1, <1>2, <1>3

LEMMA ProbesTyped ==
    ASSUME TelemetryTypeOK, ProbeAnswered \/ ProbeLost PROVE TelemetryTypeOK'
<1> DEFINE r == reader[Poll]
<1>1. /\ Poll \in Readers /\ r.recorded \in BOOLEAN /\ r.seq \in Nat /\ r.answer \in Answers
  BY ReadingShapes DEF ProbeAnswered, ProbeLost, At, TelemetryTypeOK, Readers
<1>2. PICK v \in Builds \cup {Nil}, b \in BOOLEAN :
          reader' = [reader EXCEPT ![Poll] = Answered(Poll, "applying", r.answer, v, b)]
  <2>1. CASE ProbeAnswered
    <3>1. reader' = [reader EXCEPT ![Poll] = Answered(Poll, "applying", r.answer, process, TRUE)]
      BY <2>1 DEF ProbeAnswered, Move
    <3>2. process \in Builds \cup {Nil}
      BY DEF TelemetryTypeOK
    <3> QED
      BY <3>1, <3>2
  <2>2. CASE ProbeLost
    <3>1. reader' = [reader EXCEPT ![Poll] = Answered(Poll, "applying", r.answer, Nil,
                                                      probeFails + 1 >= ProbeAttempts)]
      BY <2>2 DEF ProbeLost, Move
    <3>2. (probeFails + 1 >= ProbeAttempts) \in BOOLEAN
      OBVIOUS
    <3> QED
      BY <3>1, <3>2
  <2> QED
    BY <2>1, <2>2
<1>3. Answered(Poll, "applying", r.answer, v, b) \in Readings
  BY <1>1, <1>2, ReadingsMade DEF Answered
<1>4. reader' \in [Readers -> Readings]
  BY <1>2, <1>3 DEF TelemetryTypeOK
<1>5. probeFails' \in Nat
  <2>1. probeFails' \in {probeFails, probeFails + 1}
    BY DEF ProbeAnswered, ProbeLost, entry, build
  <2> QED
    BY <2>1 DEF TelemetryTypeOK
<1>6. UNCHANGED <<status, version, probed, seq, health, answered, device, board, op, acted, changed,
                  overtaken>>
  BY DEF ProbeAnswered, ProbeLost, entry, build
<1> QED
  BY <1>4, <1>5, <1>6 DEF TelemetryTypeOK, status, health, device, board

LEMMA FailuresTyped ==
    ASSUME TelemetryTypeOK, NEW w \in Readers, NEW a
    PROVE  Failures(w, a) \in 0..(LossPolls + 1)
BY TelemetryBounds DEF Failures, TelemetryTypeOK

LEMMA ApplyTyped ==
    ASSUME TelemetryTypeOK, NEW w \in Readers, Apply(w) PROVE TelemetryTypeOK'
<1> DEFINE r == reader[w]
<1>1. /\ r.recorded \in BOOLEAN /\ r.answer \in Answers
      /\ r.version \in Builds \cup {Nil} /\ r.settled \in BOOLEAN
  BY ReadingShapes DEF Apply, At, TelemetryTypeOK
<1>2. UNCHANGED <<seq, lossReported, device, board, op, acted, changed, overtaken>>
  BY DEF Apply
<1>3. reader' \in [Readers -> Readings]
  <2>1. PICK m : m \in Readings /\ reader' = [reader EXCEPT ![w] = m]
    <3>1. [at |-> "logging", answer |-> r.answer, failures |-> Failures(w, r.answer),
           reported |-> lossReported] \in Readings
      BY <1>1, FailuresTyped, ReadingsMade DEF TelemetryTypeOK
    <3> QED
      BY <3>1, ReadingsMade DEF Apply, Move
  <2> QED
    BY <2>1 DEF TelemetryTypeOK
<1>4. CASE Fold(w, r)
  <2>1. installed' \in BOOLEAN /\ state' \in Answers
    BY <1>1, <1>4 DEF Fold
  <2>2. version' \in Builds \cup {Nil}
    BY <1>1, <1>4 DEF Fold, TelemetryTypeOK, Builds
  <2>3. failures' \in 0..(LossPolls + 1)
    BY <1>4, FailuresTyped DEF Fold
  <2>4. /\ temperature' \in BOOLEAN /\ metrics' \in {"none", "same", "older"}
        /\ warned' \in BOOLEAN
    <3>1. CASE r.answer = "running"
      BY <1>4, <3>1 DEF Fold, TelemetryTypeOK
    <3>2. CASE r.answer # "running"
      BY <1>4, <3>2 DEF Fold, TelemetryTypeOK
    <3> QED
      BY <3>1, <3>2
  <2>5. probed' \in BOOLEAN /\ probeFails' \in Nat
    <3>1. CASE r.answer = "running"
      <4>1. probed' = (probed \/ r.settled) /\ probeFails' = IF r.settled THEN 0 ELSE probeFails
        BY <1>4, <3>1 DEF Fold
      <4>2. probed' \in BOOLEAN
        BY <4>1, Zenon
      <4> QED
        BY <4>1, <4>2 DEF TelemetryTypeOK
    <3>2. CASE r.answer # "running"
      <4>1. probed' = FALSE /\ probeFails' = 0
        BY <1>4, <3>2 DEF Fold
      <4> QED
        BY <4>1
    <3> QED
      BY <3>1, <3>2
  <2>6. answered' \in Builds \cup {Nil}
    BY <1>1, <1>4 DEF Fold, TelemetryTypeOK
  <2> QED
    BY <1>2, <1>3, <2>1, <2>2, <2>3, <2>4, <2>5, <2>6 DEF TelemetryTypeOK, device, board
<1>5. CASE UNCHANGED <<status, build, failures, warned, answered>>
  BY <1>2, <1>3, <1>5 DEF TelemetryTypeOK, status, build, device, board
<1> QED
  BY <1>4, <1>5 DEF Apply

LEMMA LogTyped ==
    ASSUME TelemetryTypeOK, Log PROVE TelemetryTypeOK'
<1>1. reader' \in [Readers -> Readings]
  BY ReadingsMade DEF Log, Move, TelemetryTypeOK
<1>2. lossReported' \in BOOLEAN /\ warned' \in BOOLEAN
  <2>1. CASE reader[Poll].answer = "running"
    BY <2>1 DEF Log, TelemetryTypeOK
  <2>2. CASE reader[Poll].answer # "running"
    <3>1. /\ lossReported' = (lossReported \/ LossIsNew(reader[Poll]))
          /\ warned' = (warned \/ LossIsNew(reader[Poll]))
      BY <2>2 DEF Log
    <3> QED
      BY <3>1, Zenon
  <2> QED
    BY <2>1, <2>2
<1>3. UNCHANGED <<status, build, seq, failures, answered, device, board, op, acted, changed, overtaken>>
  BY DEF Log
<1> QED
  BY <1>1, <1>2, <1>3 DEF TelemetryTypeOK, status, build, device, board

LEMMA OperatorsTyped ==
    ASSUME TelemetryTypeOK, NEW o \in Operators,
           OperatorStep(o) \/ \E a \in Actions : Start(o, a)
    PROVE  op' \in [Operators -> Work]
<1> DEFINE w == op[o]
<1>1. ASSUME NEW m \in Work, op' = [op EXCEPT ![o] = m] PROVE op' \in [Operators -> Work]
  BY <1>1 DEF TelemetryTypeOK
<1>2. w \in Work
  BY DEF TelemetryTypeOK
<1>3. ASSUME NEW a \in Actions, Start(o, a) PROVE op' \in [Operators -> Work]
  <2>1. op' = [op EXCEPT ![o] = [at |-> "ssh", action |-> a, result |-> Nil]]
    BY <1>3 DEF Start
  <2>2. [at |-> "ssh", action |-> a, result |-> Nil] \in Work
    BY WorkMade
  <2> QED
    BY <2>1, <2>2, <1>1
<1>4. ASSUME Done(o) PROVE op' \in [Operators -> Work]
  BY <1>1, <1>4, WorkMade DEF Done
<1>5. ASSUME NEW p, NEW b, Step(o, p, b), [at |-> p, action |-> w.action, result |-> b] \in Work
      PROVE  op' \in [Operators -> Work]
  BY <1>1, <1>5 DEF Step
<1>6. CASE SshFails(o) \/ Verdict(o) \/ TellUninstalled(o) \/ TellStopped(o) \/ TellStarted(o)
           \/ TellVersion(o)
  BY <1>4, <1>6, Zenon DEF SshFails, Verdict, TellUninstalled, TellStopped, TellStarted, TellVersion
<1>7. CASE InstallOnBoard(o) \/ UninstallOnBoard(o)
  <2>1. Step(o, "recording", Nil) /\ w.action \in {"install", "uninstall"}
    BY <1>7 DEF InstallOnBoard, UninstallOnBoard, Doing
  <2> QED
    BY <2>1, <1>5, WorkMade
<1>8. CASE ServiceOnBoard(o)
  <2>1. PICK b \in {"up", "down"} : Step(o, "telling", b) /\ w.action \in {"start", "stop", "restart"}
    BY <1>8 DEF ServiceOnBoard
  <2> QED
    BY <2>1, <1>5, WorkMade
<1>9. CASE StatusOnBoard(o)
  <2>1. CASE card = Nil
    BY <1>4, <1>9, <2>1 DEF StatusOnBoard
  <2>2. CASE card # Nil
    <3>1. Step(o, "telling", card) /\ w.action \in {"status"} /\ card \in Builds
      BY <1>9, <2>2 DEF StatusOnBoard, Doing, TelemetryTypeOK
    <3> QED
      BY <3>1, <1>5, WorkMade
  <2> QED
    BY <2>1, <2>2
<1>10. CASE Record(o)
  <2>1. Step(o, "telling", Nil) /\ w.action \in {"install", "uninstall"}
    BY <1>2, <1>10, WorkShapes DEF Record
  <2> QED
    BY <2>1, <1>5, WorkMade
<1>11. CASE TellInstalled(o)
  <2>1. Step(o, "verifying", Nil) /\ w.action \in {"install"}
    BY <1>11 DEF TellInstalled, Doing
  <2> QED
    BY <2>1, <1>5, WorkMade
<1>12. CASE VerifyDaemon(o)
  <2>1. Step(o, "verdict", BoardAnswer) /\ w.action \in {"install"}
    BY <1>12 DEF VerifyDaemon, Doing
  <2> QED
    BY <2>1, <1>5, WorkMade, AnswersMade
<1> QED
  BY <1>3, <1>6, <1>7, <1>8, <1>9, <1>10, <1>11, <1>12 DEF OperatorStep

LEMMA OvertakeTyped ==
    ASSUME NEW how \in {"yes", "forgotten"}, overtaken \in [Readers -> {"no", "yes", "forgotten"}],
           Overtake(how)
    PROVE  overtaken' \in [Readers -> {"no", "yes", "forgotten"}]
BY DEF Overtake

LEMMA EntryTyped ==
    ASSUME TelemetryTypeOK, NEW o \in Operators, OperatorStep(o)
    PROVE  /\ state' \in Answers /\ metrics' \in {"none", "same", "older"}
           /\ temperature' \in BOOLEAN /\ installed' \in BOOLEAN /\ probed' \in BOOLEAN
           /\ version' \in Builds \cup {Nil} /\ answered' \in Builds \cup {Nil}
           /\ probeFails' \in Nat /\ seq' \in Nat /\ failures' \in 0..(LossPolls + 1)
           /\ lossReported' \in BOOLEAN /\ warned' \in BOOLEAN
           /\ overtaken' \in [Readers -> {"no", "yes", "forgotten"}]
<1> USE DEF TelemetryTypeOK
<1>1. CASE SshFails(o) \/ InstallOnBoard(o) \/ UninstallOnBoard(o) \/ ServiceOnBoard(o) \/ StatusOnBoard(o)
           \/ Record(o) \/ VerifyDaemon(o)
  <2>1. UNCHANGED <<entry, overtaken>>
    BY <1>1, Zenon DEF SshFails, InstallOnBoard, UninstallOnBoard, ServiceOnBoard, StatusOnBoard, Record,
                VerifyDaemon
  <2> QED
    BY <2>1 DEF entry, status, build, health
<1>2. CASE TellInstalled(o) \/ Verdict(o) \/ TellUninstalled(o) \/ TellStopped(o) \/ TellStarted(o)
           \/ TellVersion(o)
  <2>1. Bump
    BY <1>2, Zenon DEF TellInstalled, Verdict, TellUninstalled, TellStopped, TellStarted, TellVersion
  <2>2. seq' \in Nat
    BY <2>1 DEF Bump
  <2>3. overtaken' \in [Readers -> {"no", "yes", "forgotten"}]
    BY <2>1, OvertakeTyped DEF Bump
  <2>4. failures' \in 0..(LossPolls + 1) /\ lossReported' \in BOOLEAN /\ warned' \in BOOLEAN
    <3>1. Healthy \/ UNCHANGED health
      BY <1>2, Zenon DEF TellInstalled, Verdict, TellUninstalled, TellStopped, TellStarted, TellVersion
    <3>2. CASE Healthy
      <4>1. failures' = 0 /\ lossReported' = FALSE /\ warned' = FALSE /\ 0 \in 0..(LossPolls + 1)
        BY <3>2, TelemetryBounds DEF Healthy
      <4> QED
        BY <4>1
    <3>3. CASE UNCHANGED health
      <4>1. failures' = failures /\ lossReported' = lossReported /\ warned' = warned
        BY <3>3 DEF health
      <4> QED
        BY <4>1
    <3> QED
      BY <3>1, <3>2, <3>3
  <2>5. probed' \in BOOLEAN /\ probeFails' \in Nat /\ answered' \in Builds \cup {Nil}
    <3>1. Unknown \/ UNCHANGED <<probed, probeFails, answered>>
      BY <1>2 DEF TellInstalled, Verdict, TellUninstalled, TellStopped, TellStarted, TellVersion, build
    <3>2. CASE Unknown
      <4>1. probed' = FALSE /\ probeFails' = 0 /\ answered' = Nil
        BY <3>2 DEF Unknown
      <4> QED
        BY <4>1
    <3>3. CASE UNCHANGED <<probed, probeFails, answered>>
      BY <3>3
    <3> QED
      BY <3>1, <3>2, <3>3
  <2>6. version' \in Builds \cup {Nil}
    <3>1. version' \in {version, "new", Nil} \/ (Doing(o, "status", "telling") /\ version' = op[o].result)
      BY <1>2 DEF TellInstalled, Verdict, TellUninstalled, TellStopped, TellStarted, TellVersion, build
    <3>2. Doing(o, "status", "telling") => op[o].result \in Builds
      BY WorkShapes DEF Doing
    <3> QED
      BY <3>1, <3>2 DEF Builds
  <2>7. state' \in Answers
    <3>1. state' \in {state, "not_installed", "stopped", "running"}
          \/ (Doing(o, "install", "verdict") /\ state' = op[o].result)
      BY <1>2 DEF TellInstalled, Verdict, TellUninstalled, TellStopped, TellStarted, TellVersion, status
    <3>2. Doing(o, "install", "verdict") => op[o].result \in Answers
      BY WorkShapes DEF Doing
    <3> QED
      BY <3>1, <3>2 DEF Answers
  <2>8. temperature' \in BOOLEAN /\ installed' \in BOOLEAN /\ metrics' \in {"none", "same", "older"}
    BY <1>2 DEF TellInstalled, Verdict, TellUninstalled, TellStopped, TellStarted, TellVersion, status
  <2> QED
    BY <2>2, <2>3, <2>4, <2>5, <2>6, <2>7, <2>8
<1> QED
  BY <1>1, <1>2 DEF OperatorStep

LEMMA OperatorTyped ==
    ASSUME TelemetryTypeOK, NEW o \in Operators, OperatorStep(o) PROVE TelemetryTypeOK'
<1>1. UNCHANGED <<reader, acted, changed>>
  BY Zenon DEF OperatorStep, SshFails, InstallOnBoard, UninstallOnBoard, ServiceOnBoard, StatusOnBoard, Record,
        VerifyDaemon, TellInstalled, Verdict, TellUninstalled, TellStopped, TellStarted, TellVersion
<1>2. stored' \in BOOLEAN /\ record' \in BOOLEAN
  <2>1. UNCHANGED device \/ Record(o)
    BY Zenon DEF OperatorStep, SshFails, InstallOnBoard, UninstallOnBoard, ServiceOnBoard, StatusOnBoard,
          VerifyDaemon, TellInstalled, Verdict, TellUninstalled, TellStopped, TellStarted, TellVersion
  <2> QED
    BY <2>1 DEF device, Record, TelemetryTypeOK
<1>3. /\ reachable' \in BOOLEAN /\ service' \in {"absent", "down", "up", "faulty"}
      /\ card' \in Builds \cup {Nil} /\ process' \in Builds \cup {Nil}
  <2>1. \/ UNCHANGED board
        \/ SshFails(o) \/ InstallOnBoard(o) \/ UninstallOnBoard(o) \/ ServiceOnBoard(o)
    BY Zenon DEF OperatorStep, StatusOnBoard, Record, VerifyDaemon, TellInstalled, Verdict, TellUninstalled,
          TellStopped, TellStarted, TellVersion
  <2>2. CASE UNCHANGED board
    BY <2>2 DEF board, TelemetryTypeOK
  <2>3. CASE SshFails(o)
    BY <2>3 DEF SshFails, board, TelemetryTypeOK, Builds
  <2>4. CASE InstallOnBoard(o) \/ UninstallOnBoard(o)
    BY <2>4 DEF InstallOnBoard, UninstallOnBoard, TelemetryTypeOK, Builds
  <2>5. CASE ServiceOnBoard(o)
    BY <2>5 DEF ServiceOnBoard, TelemetryTypeOK
  <2> QED
    BY <2>1, <2>2, <2>3, <2>4, <2>5
<1>4. op' \in [Operators -> Work]
  BY OperatorsTyped
<1> QED
  BY <1>1, <1>2, <1>3, <1>4, EntryTyped DEF TelemetryTypeOK

LEMMA OthersTyped ==
    ASSUME TelemetryTypeOK,
           BoardChanges \/ Delete \/ Forget \/ \E o \in Operators, a \in Actions : Start(o, a)
    PROVE  TelemetryTypeOK'
<1>1. CASE BoardChanges
  <2>1. changed' \in 0..MaxBoardChanges
    BY <1>1, TelemetryBounds DEF BoardChanges, TelemetryTypeOK
  <2>2. /\ reachable' \in BOOLEAN /\ service' \in {"absent", "down", "up", "faulty"}
        /\ card' \in Builds \cup {Nil} /\ process' \in Builds \cup {Nil}
    BY <1>1 DEF BoardChanges, TelemetryTypeOK
  <2>3. UNCHANGED <<entry, device, reader, op, acted, overtaken>>
    BY <1>1 DEF BoardChanges
  <2> QED
    BY <2>1, <2>2, <2>3 DEF TelemetryTypeOK, entry, status, build, health, device
<1>2. CASE Delete
  <2>1. stored' \in BOOLEAN /\ record' \in BOOLEAN
    BY <1>2 DEF Delete
  <2>2. UNCHANGED <<entry, board, reader, op, acted, changed, overtaken>>
    BY <1>2 DEF Delete
  <2> QED
    BY <2>1, <2>2 DEF TelemetryTypeOK, entry, status, build, health, board
<1>3. CASE Forget
  <2>1. overtaken' \in [Readers -> {"no", "yes", "forgotten"}]
    BY <1>3, OvertakeTyped DEF Forget, TelemetryTypeOK
  <2>2. /\ state' = "unknown" /\ temperature' = FALSE /\ metrics' = "none" /\ installed' = FALSE
        /\ version' = Nil /\ probed' = FALSE /\ probeFails' = 0 /\ answered' = Nil
        /\ seq' = 0 /\ failures' = 0 /\ lossReported' = FALSE /\ warned' = FALSE
    BY <1>3 DEF Forget, Unknown, Healthy
  <2>3. UNCHANGED <<device, board, reader, op, acted, changed>>
    BY <1>3 DEF Forget
  <2>4. "unknown" \in Answers /\ 0 \in 0..(LossPolls + 1)
    BY TelemetryBounds DEF Answers
  <2> QED
    BY <2>1, <2>2, <2>3, <2>4 DEF TelemetryTypeOK, device, board
<1>4. ASSUME NEW o \in Operators, NEW a \in Actions, Start(o, a) PROVE TelemetryTypeOK'
  <2>1. op' \in [Operators -> Work]
    BY <1>4, OperatorsTyped
  <2>2. acted' \in 0..MaxActions
    BY <1>4, TelemetryBounds DEF Start, TelemetryTypeOK
  <2>3. UNCHANGED <<entry, device, board, reader, changed, overtaken>>
    BY <1>4 DEF Start
  <2> QED
    BY <2>1, <2>2, <2>3 DEF TelemetryTypeOK, entry, status, build, health, device, board
<1> QED
  BY <1>1, <1>2, <1>3, <1>4

LEMMA TelemetryTyped ==
    ASSUME TelemetryTypeOK, [TelemetryNext]_telemetryVars PROVE TelemetryTypeOK'
<1>1. CASE UNCHANGED telemetryVars
  BY <1>1 DEF telemetryVars, TelemetryTypeOK, entry, status, build, health, device, board
<1> QED
  BY <1>1, ReadersTyped, ProbesTyped, ApplyTyped, LogTyped, OperatorTyped, OthersTyped DEF TelemetryNext

-----------------------------------------------------------------------------
(* The mutation_seq of a reading.                                          *)

LEMMA SeqKept ==
    ASSUME TelemetryTypeOK, SeqDated, [TelemetryNext]_telemetryVars PROVE SeqDated'
<1>1. ASSUME UNCHANGED <<reader, seq, overtaken>> PROVE SeqDated'
  BY <1>1 DEF SeqDated, At, UnderWay
<1>2. ASSUME Bump, reader' = reader PROVE SeqDated'
  <2> SUFFICES ASSUME NEW w \in Readers
               PROVE  /\ At(w, "begun") => overtaken'[w] = "no"
                      /\ UnderWay(w) /\ overtaken'[w] = "yes" => reader[w].seq < seq'
                      /\ UnderWay(w) => overtaken'[w] # "no"
    BY <1>2 DEF SeqDated, At, UnderWay
  <2>1. /\ overtaken'[w] = IF UnderWay(w) /\ overtaken[w] # "forgotten" THEN "yes" ELSE overtaken[w]
        /\ seq' = seq + 1 /\ overtaken[w] \in {"no", "yes", "forgotten"}
    BY <1>2 DEF Bump, Overtake, TelemetryTypeOK
  <2>2. UnderWay(w) => reader[w].seq \in Nat /\ seq \in Nat
    BY ReadingShapes DEF UnderWay, TelemetryTypeOK
  <2>3. At(w, "begun") => overtaken[w] = "no" /\ ~UnderWay(w)
    BY DEF SeqDated, At, UnderWay
  <2>4. UnderWay(w) /\ overtaken[w] # "forgotten" => reader[w].seq < seq \/ reader[w].seq = seq
    BY <2>1 DEF SeqDated
  <2> QED
    BY <2>1, <2>2, <2>3, <2>4
<1>3. CASE Forget
  <2>1. /\ reader' = reader
        /\ \A w \in Readers : UnderWay(w) \/ overtaken'[w] = overtaken[w]
        /\ \A w \in Readers : UnderWay(w) => overtaken'[w] = "forgotten"
    BY <1>3 DEF Forget, Overtake
  <2> QED
    BY <2>1 DEF SeqDated, At, UnderWay
<1>4. ASSUME NEW w \in Readers, NEW m, reader' = [reader EXCEPT ![w] = m], seq' = seq,
             \A d \in Readers \ {w} : overtaken'[d] = overtaken[d],
             m.at = "begun" => overtaken'[w] = "no",
             m.at \in {"asking", "probing", "applying"} =>
                /\ overtaken'[w] = "yes" => m.seq < seq
                /\ overtaken'[w] = "no" => m.seq = seq
      PROVE  SeqDated'
  <2>1. reader'[w] = m /\ \A d \in Readers \ {w} : reader'[d] = reader[d]
    BY <1>4 DEF TelemetryTypeOK
  <2> QED
    BY <1>4, <2>1 DEF SeqDated, At, UnderWay
<1>5. ASSUME NEW w \in Readers, BeginRead(w) PROVE SeqDated'
  <2> DEFINE m == [at |-> "begun", recorded |-> record]
  <2>1. reader' = [reader EXCEPT ![w] = m] /\ m.at = "begun" /\ seq' = seq
    BY <1>5 DEF BeginRead, Move, entry
  <2>2. overtaken'[w] = "no" /\ \A d \in Readers \ {w} : overtaken'[d] = overtaken[d]
    BY <1>5 DEF BeginRead, TelemetryTypeOK
  <2> HIDE DEF m
  <2> QED
    BY <2>1, <2>2, <1>4
<1>6. ASSUME NEW w \in Readers, Capture(w) PROVE SeqDated'
  <2> DEFINE m == [at |-> "asking", recorded |-> reader[w].recorded, seq |-> seq]
  <2>1. /\ reader' = [reader EXCEPT ![w] = m] /\ m.at = "asking" /\ m.seq = seq
        /\ seq' = seq /\ overtaken' = overtaken /\ overtaken[w] = "no"
    BY <1>6 DEF Capture, Move, entry, SeqDated
  <2> HIDE DEF m
  <2> QED
    BY <2>1, <1>4
<1>7. ASSUME NEW w \in Readers, NEW m, UnderWay(w), reader' = [reader EXCEPT ![w] = m],
             m.at \in {"probing", "applying"}, m.seq = reader[w].seq, UNCHANGED <<seq, overtaken>>
      PROVE  SeqDated'
  BY <1>4, <1>7 DEF SeqDated
<1>8. ASSUME NEW w \in Readers, Ask(w) PROVE SeqDated'
  <2>1. PICK p \in {"probing", "applying"} :
            reader' = [reader EXCEPT ![w] = Answered(w, p, Judged(BoardAnswer, reader[w].recorded), Nil, FALSE)]
    BY <1>8 DEF Ask, Move
  <2> DEFINE m == Answered(w, p, Judged(BoardAnswer, reader[w].recorded), Nil, FALSE)
  <2>2. m.at = p /\ m.seq = reader[w].seq
    BY DEF Answered
  <2> HIDE DEF m
  <2>3. UnderWay(w) /\ UNCHANGED <<seq, overtaken>>
    BY <1>8 DEF Ask, At, UnderWay, entry
  <2> QED
    BY <2>1, <2>2, <2>3, <1>7 DEF m
<1>9. CASE ProbeAnswered \/ ProbeLost
  <2>1. PICK v, b : reader' = [reader EXCEPT ![Poll] = Answered(Poll, "applying", reader[Poll].answer, v, b)]
    BY <1>9 DEF ProbeAnswered, ProbeLost, Move
  <2> DEFINE m == Answered(Poll, "applying", reader[Poll].answer, v, b)
  <2>2. m.at = "applying" /\ m.seq = reader[Poll].seq
    BY DEF Answered
  <2> HIDE DEF m
  <2>3. UnderWay(Poll) /\ Poll \in Readers /\ UNCHANGED <<seq, overtaken>>
    BY <1>9 DEF ProbeAnswered, ProbeLost, At, UnderWay, entry, Readers
  <2> QED
    BY <2>1, <2>2, <2>3, <1>7 DEF m
<1>10. ASSUME NEW w \in Readers, Apply(w) PROVE SeqDated'
  <2>1. PICK m : m.at \in {"idle", "logging"} /\ reader' = [reader EXCEPT ![w] = m]
    <3> DEFINE r == reader[w]
               m == [at |-> "logging", answer |-> r.answer, failures |-> Failures(w, r.answer),
                     reported |-> lossReported]
    <3>1. Move(w, Idle) \/ Move(w, m)
      BY <1>10 DEF Apply
    <3>2. Idle.at = "idle" /\ m.at = "logging"
      BY DEF Idle
    <3> HIDE DEF m
    <3> QED
      BY <3>1, <3>2 DEF Move
  <2>2. UNCHANGED <<seq, overtaken>>
    BY <1>10 DEF Apply
  <2> QED
    BY <2>1, <2>2, <1>4
<1>11. CASE Log
  <2>1. reader' = [reader EXCEPT ![Poll] = Idle] /\ Idle.at = "idle" /\ UNCHANGED <<seq, overtaken>>
        /\ Poll \in Readers
    BY <1>11 DEF Log, Move, Idle, Readers
  <2> QED
    BY <2>1, <1>4
<1>12. ASSUME NEW o \in Operators, OperatorStep(o)
       PROVE  reader' = reader /\ (Bump \/ UNCHANGED <<seq, overtaken>>)
  BY <1>12, Zenon DEF OperatorStep, SshFails, InstallOnBoard, UninstallOnBoard, ServiceOnBoard,
        StatusOnBoard, Record, VerifyDaemon, TellInstalled, Verdict, TellUninstalled, TellStopped,
        TellStarted, TellVersion, entry
<1>13. ASSUME BoardChanges \/ Delete \/ (\E o \in Operators, a \in Actions : Start(o, a))
              \/ UNCHANGED telemetryVars
       PROVE  UNCHANGED <<reader, seq, overtaken>>
  BY <1>13, Zenon DEF BoardChanges, Delete, Start, telemetryVars, entry
<1> QED
  BY <1>1, <1>2, <1>3, <1>5, <1>6, <1>8, <1>9, <1>10, <1>11, <1>12, <1>13 DEF TelemetryNext

-----------------------------------------------------------------------------
(* The counters of the poll.                                               *)

LEMMA LossKept ==
    ASSUME TelemetryTypeOK, LossBacked, [TelemetryNext]_telemetryVars PROVE LossBacked'
<1>1. ASSUME UNCHANGED <<failures, lossReported, warned>>,
             \/ reader'[Poll] = reader[Poll]
             \/ ~At(Poll, "logging") /\ ~At(Poll, "logging")'
      PROVE  LossBacked'
  BY <1>1 DEF LossBacked, At
<1>2. ASSUME Healthy, reader' = reader PROVE LossBacked'
  BY <1>2, TelemetryBounds DEF Healthy, LossBacked, At
<1>3. ASSUME NEW w \in Readers, NEW m, reader' = [reader EXCEPT ![w] = m],
             w # Poll \/ (~At(Poll, "logging") /\ m.at # "logging"),
             UNCHANGED <<failures, lossReported, warned>>
      PROVE  LossBacked'
  <2>1. CASE w = Poll
    <3>1. ~At(Poll, "logging")'
      BY <1>3, <2>1 DEF At, TelemetryTypeOK
    <3> QED
      BY <1>1, <1>3, <2>1, <3>1
  <2>2. CASE w # Poll
    <3>1. reader'[Poll] = reader[Poll]
      BY <1>3, <2>2 DEF TelemetryTypeOK, Readers
    <3> QED
      BY <1>1, <1>3, <3>1
  <2> QED
    BY <2>1, <2>2
<1>4. ASSUME NEW w \in Readers, BeginRead(w) \/ Capture(w) \/ Ask(w) PROVE LossBacked'
  <2>1. PICK m : reader' = [reader EXCEPT ![w] = m] /\ m.at # "logging"
    <3>1. ASSUME NEW n, Move(w, n), n.at # "logging"
          PROVE  \E m : reader' = [reader EXCEPT ![w] = m] /\ m.at # "logging"
      BY <3>1 DEF Move
    <3>2. CASE BeginRead(w)
      BY <3>1, <3>2 DEF BeginRead
    <3>3. CASE Capture(w)
      BY <3>1, <3>3 DEF Capture
    <3>4. CASE Ask(w)
      <4>1. PICK p \in {"probing", "applying"} :
                Move(w, Answered(w, p, Judged(BoardAnswer, reader[w].recorded), Nil, FALSE))
        BY <3>4 DEF Ask
      <4>2. Answered(w, p, Judged(BoardAnswer, reader[w].recorded), Nil, FALSE).at = p
        BY DEF Answered
      <4> QED
        BY <4>1, <4>2, <3>1
    <3> QED
      BY <1>4, <3>2, <3>3, <3>4
  <2>2. ~At(w, "logging") /\ UNCHANGED <<failures, lossReported, warned>>
    BY <1>4 DEF BeginRead, Capture, Ask, At, entry, health
  <2> QED
    BY <2>1, <2>2, <1>3
<1>5. CASE ProbeAnswered \/ ProbeLost
  <2>1. PICK m : reader' = [reader EXCEPT ![Poll] = m] /\ m.at # "logging"
    <3>1. PICK v, b : Move(Poll, Answered(Poll, "applying", reader[Poll].answer, v, b))
      BY <1>5 DEF ProbeAnswered, ProbeLost
    <3>2. Answered(Poll, "applying", reader[Poll].answer, v, b).at = "applying"
      BY DEF Answered
    <3> QED
      BY <3>1, <3>2 DEF Move
  <2>2. ~At(Poll, "logging") /\ Poll \in Readers /\ UNCHANGED <<failures, lossReported, warned>>
    BY <1>5 DEF ProbeAnswered, ProbeLost, At, entry, health, Readers
  <2> QED
    BY <2>1, <2>2, <1>3
<1>6. ASSUME NEW w \in Readers, Apply(w), w # Poll PROVE LossBacked'
  <2>1. PICK m : reader' = [reader EXCEPT ![w] = m]
    BY <1>6 DEF Apply, Move
  <2>2. failures' = failures /\ lossReported' = lossReported
    BY <1>6 DEF Apply, Fold, Failures
  <2>3. warned' = warned
    BY <1>6 DEF Apply, Fold
  <2> QED
    BY <1>3, <1>6, <2>1, <2>2, <2>3
<1>7. CASE Apply(Poll)
  <2> DEFINE r == reader[Poll]
             m == [at |-> "logging", answer |-> r.answer, failures |-> Failures(Poll, r.answer),
                   reported |-> lossReported]
  <2>1. ~At(Poll, "logging") /\ Poll \in Readers /\ lossReported' = lossReported
    BY <1>7 DEF Apply, At, Readers
  <2>2. CASE Move(Poll, Idle) /\ UNCHANGED <<status, build, failures, warned, answered>>
    BY <2>1, <2>2, <1>3 DEF Move, Idle
  <2>3. CASE Fold(Poll, r) /\ Move(Poll, m)
    <3>1. reader'[Poll] = m
      BY <2>1, <2>3 DEF Move, TelemetryTypeOK
    <3>2. /\ m.at = "logging" /\ m.answer = r.answer /\ m.failures = failures'
          /\ m.reported = lossReported
      BY <2>3 DEF Fold
    <3>3. CASE r.answer = "running"
      <4>1. failures' = 0
        BY <2>3, <3>3 DEF Fold, Failures
      <4> QED
        BY <2>1, <3>1, <3>2, <3>3, <4>1 DEF LossBacked, At
    <3>4. CASE r.answer # "running"
      <4>1. warned' = warned /\ failures' = IF failures <= LossPolls THEN failures + 1 ELSE failures
        BY <2>3, <3>4 DEF Fold, Failures
      <4>2. failures' > LossPolls => failures >= LossPolls
        BY <4>1, TelemetryBounds DEF TelemetryTypeOK
      <4>3. lossReported => warned
        BY <2>1 DEF LossBacked
      <4>4. failures' > LossPolls => warned
        BY <2>1, <4>2 DEF LossBacked
      <4> QED
        BY <2>1, <3>1, <3>2, <3>4, <4>1, <4>3, <4>4 DEF LossBacked, At
    <3> QED
      BY <3>3, <3>4
  <2> QED
    BY <1>7, <2>2, <2>3 DEF Apply
<1>8. CASE Log
  <2> DEFINE r == reader[Poll]
  <2>1. ~At(Poll, "logging")' /\ At(Poll, "logging") /\ failures' = failures
    BY <1>8 DEF Log, Move, At, Idle, TelemetryTypeOK, Readers
  <2>2. CASE r.answer = "running"
    <3>1. lossReported' = IF r.reported THEN FALSE ELSE lossReported
      BY <1>8, <2>2 DEF Log
    <3>2. failures = 0 /\ (lossReported => r.reported)
      BY <2>1, <2>2 DEF LossBacked
    <3>3. ~lossReported'
      BY <3>1, <3>2
    <3>4. ~(failures' >= LossPolls)
      BY <2>1, <3>2, TelemetryBounds
    <3> QED
      BY <2>1, <3>3, <3>4 DEF LossBacked
  <2>3. CASE r.answer # "running"
    <3>1. /\ lossReported' = (lossReported \/ LossIsNew(r))
          /\ warned' = (warned \/ LossIsNew(r))
      BY <1>8, <2>3 DEF Log
    <3>2. CASE failures = 0 /\ ~lossReported
      <4>1. ~(failures' >= LossPolls)
        BY <2>1, <3>2, TelemetryBounds
      <4>2. lossReported' => warned'
        BY <3>1, <3>2, Zenon
      <4> QED
        BY <2>1, <4>1, <4>2 DEF LossBacked
    <3>3. CASE failures = r.failures /\ (r.reported => warned) /\ (r.failures > LossPolls => warned)
      <4>1. lossReported => r.reported
        BY <2>1 DEF LossBacked
      <4>2. lossReported' => warned'
        BY <3>1, <3>3, <4>1, Zenon
      <4>3. failures >= LossPolls => r.failures = LossPolls \/ r.failures > LossPolls
        BY <3>3, TelemetryBounds DEF TelemetryTypeOK
      <4>4. failures >= LossPolls => warned'
        BY <3>1, <3>3, <4>3, Zenon DEF LossIsNew
      <4> QED
        BY <2>1, <4>2, <4>4 DEF LossBacked
    <3> QED
      BY <2>1, <2>3, <3>2, <3>3 DEF LossBacked
  <2> QED
    BY <2>2, <2>3
<1>9. ASSUME NEW o \in Operators, OperatorStep(o)
      PROVE  reader' = reader /\ (Healthy \/ UNCHANGED <<failures, lossReported, warned>>)
  BY <1>9, Zenon DEF OperatorStep, SshFails, InstallOnBoard, UninstallOnBoard, ServiceOnBoard,
        StatusOnBoard, Record, VerifyDaemon, TellInstalled, Verdict, TellUninstalled, TellStopped,
        TellStarted, TellVersion, entry, health
<1>10. ASSUME BoardChanges \/ Delete \/ Forget \/ (\E o \in Operators, a \in Actions : Start(o, a))
              \/ UNCHANGED telemetryVars
       PROVE  reader' = reader /\ (Healthy \/ UNCHANGED <<failures, lossReported, warned>>)
  BY <1>10, Zenon DEF BoardChanges, Delete, Forget, Start, telemetryVars, entry, health
<1>11. Poll \in Readers
  BY DEF Readers
<1> QED
  BY <1>1, <1>2, <1>4, <1>5, <1>6, <1>7, <1>8, <1>9, <1>10, <1>11 DEF TelemetryNext

-----------------------------------------------------------------------------
(* Theorems.                                                               *)

TelemetryInv == TelemetryTypeOK /\ SeqDated /\ LossBacked

LEMMA AlwaysTelemetryInv == TelemetrySpec => []TelemetryInv
<1>1. TelemetryInit => TelemetryInv
  <2> SUFFICES ASSUME TelemetryInit PROVE TelemetryInv
    OBVIOUS
  <2>1. reader \in [Readers -> Readings] /\ op \in [Operators -> Work]
    BY ReadingsMade, WorkMade DEF TelemetryInit
  <2>2. state \in Answers /\ 0 \in 0..(LossPolls + 1) /\ 0 \in 0..MaxActions /\ 0 \in 0..MaxBoardChanges
    BY TelemetryBounds DEF TelemetryInit, Answers
  <2>3. stored \in BOOLEAN /\ record \in BOOLEAN /\ service \in {"absent", "down", "up", "faulty"}
        /\ card \in Builds \cup {Nil} /\ process \in Builds \cup {Nil}
    BY DEF TelemetryInit
  <2>4. TelemetryTypeOK
    BY <2>1, <2>2, <2>3 DEF TelemetryInit, TelemetryTypeOK
  <2>5. Poll \in Readers /\ \A w \in Readers : reader[w].at = "idle"
    BY DEF TelemetryInit, Idle, Readers
  <2>6. SeqDated
    BY <2>5 DEF SeqDated, At, UnderWay
  <2>7. LossBacked
    BY <2>5, TelemetryBounds DEF TelemetryInit, LossBacked, At
  <2> QED
    BY <2>4, <2>6, <2>7 DEF TelemetryInv
<1>2. TelemetryInv /\ [TelemetryNext]_telemetryVars => TelemetryInv'
  BY TelemetryTyped, SeqKept, LossKept DEF TelemetryInv
<1> QED
  BY <1>1, <1>2, PTL DEF TelemetrySpec

\* Types: what the entry, the board, the readers and the operators may hold
\* (TelemetryEntry, rp_telemetry.py).
THEOREM TelemetryTypeCorrect == TelemetrySpec => []TelemetryTypeOK
<1>1. TelemetryInv => TelemetryTypeOK
  BY DEF TelemetryInv
<1> QED
  BY <1>1, AlwaysTelemetryInv, PTL

\* Whenever operators reset the counters, between counting a failure and reporting
\* it included, a loss that has reached the threshold has been reported
\* (_apply_reading and _log_transitions).
THEOREM LossIsReportedHolds == TelemetrySpec => []LossIsReported
<1>1. TelemetryInv => LossIsReported
  BY DEF TelemetryInv, LossBacked, LossIsReported
<1> QED
  BY <1>1, AlwaysTelemetryInv, PTL

\* A reader that an operator's write has overtaken holds an older mutation_seq, so
\* that its answer is dropped whole (expect_seq).
THEOREM OperatorsWinHolds == TelemetrySpec => OperatorsWin
<1>1. TelemetryInv /\ [TelemetryNext]_telemetryVars =>
        [\A w \in Readers :
            overtaken[w] = "yes" /\ At(w, "applying") /\ ~At(w, "applying")'
                => UNCHANGED <<status, build, health>>]_telemetryVars
  <2> SUFFICES ASSUME TelemetryInv, TelemetryNext, NEW w \in Readers,
                      overtaken[w] = "yes", At(w, "applying"), ~At(w, "applying")'
               PROVE  UNCHANGED <<status, build, health>>
    OBVIOUS
  <2>1. reader[w].at = "applying" /\ reader'[w] # reader[w] /\ reader \in [Readers -> Readings]
    BY DEF At, TelemetryInv, TelemetryTypeOK
  <2>2. Apply(w)
    <3>1. ASSUME NEW v \in Readers, BeginRead(v) \/ Capture(v) \/ Ask(v) \/ Apply(v) PROVE v = w
      <4>1. PICK m : reader' = [reader EXCEPT ![v] = m]
        BY <3>1 DEF BeginRead, Capture, Ask, Apply, Move
      <4> QED
        BY <4>1, <2>1
    <3>2. ~BeginRead(w) /\ ~Capture(w) /\ ~Ask(w)
      BY <2>1 DEF BeginRead, Capture, Ask, At
    <3>3. ASSUME ProbeAnswered \/ ProbeLost \/ Log PROVE FALSE
      <4>1. Poll # w
        BY <2>1, <3>3 DEF ProbeAnswered, ProbeLost, Log, At
      <4>2. PICK m : reader' = [reader EXCEPT ![Poll] = m]
        BY <3>3 DEF ProbeAnswered, ProbeLost, Log, Move
      <4> QED
        BY <4>1, <4>2, <2>1
    <3>4. ASSUME \/ \E o \in Operators, a \in Actions : Start(o, a)
                 \/ \E o \in Operators : OperatorStep(o)
                 \/ BoardChanges \/ Delete \/ Forget
          PROVE  reader' = reader
      BY <3>4, Zenon DEF Start, BoardChanges, Delete, Forget, OperatorStep, SshFails, InstallOnBoard,
          UninstallOnBoard, ServiceOnBoard, StatusOnBoard, Record, VerifyDaemon, TellInstalled, Verdict,
          TellUninstalled, TellStopped, TellStarted, TellVersion
    <3> QED
      BY <2>1, <3>1, <3>2, <3>3, <3>4 DEF TelemetryNext
  <2>3. reader[w].seq < seq
    BY DEF TelemetryInv, SeqDated, At, UnderWay
  <2>4. reader[w].seq \in Nat /\ seq \in Nat
    BY <2>1, ReadingShapes DEF TelemetryInv, TelemetryTypeOK
  <2>5. ~Current(reader[w])
    BY <2>3, <2>4 DEF Current
  <2> QED
    BY <2>2, <2>5 DEF Apply, health
<1> QED
  BY <1>1, AlwaysTelemetryInv, PTL DEF TelemetrySpec, OperatorsWin
=============================================================================
