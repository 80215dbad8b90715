-------------------------- MODULE DiagnosisProofs --------------------------
(***************************************************************************)
(* Proofs about the diagnosis of a lost connection, for any pool, clock    *)
(* and number of reboots and probes: what a verdict infers from the        *)
(* absence, and from the boot ids when a lost board is noticed before it   *)
(* is back, is true of the boot it was asked in; the register gate and the *)
(* verdict agree; and verdicts come in the order of their probes.          *)
(***************************************************************************)
EXTENDS Diagnosis, TLAPS

-----------------------------------------------------------------------------
(* The invariant.                                                          *)

\* A device is never probed twice concurrently, nor probed and waiting.
OneProbe ==
    /\ sched.inflight => ~sched.pending
    /\ \A w \in Workers : ~Probing(w, "idle") => sched.inflight
    /\ \A v, w \in Workers : ~Probing(v, "idle") /\ ~Probing(w, "idle") => v = w

NumberOf(r) == IF r.at = "apply" THEN r.verdict.number ELSE r.number

\* The probe that runs is the latest.
VerdictsNumbered ==
    /\ diag # None => diag.number <= probes
    /\ \A w \in Workers : ~Probing(w, "idle") =>
         /\ NumberOf(probe[w]) <= probes
         /\ diag # None => diag.number <= NumberOf(probe[w])

\* The boot the session was last connected to, and when: a later boot came up
\* later.
ConnectionDated ==
    /\ board.bootedAt <= now
    /\ session.connectedAt # None =>
         /\ session.served # None /\ session.served <= board.boot
         /\ session.connectedAt <= now
         /\ session.served = board.boot => board.bootedAt <= session.connectedAt

\* The same of the absence that a probe has measured when it was dispatched.
AbsenceDatedAt(p, b, t) ==
    p.since # None =>
        /\ p.served # None /\ p.served <= b.boot
        /\ p.served = b.boot => p.since + b.bootedAt <= t

AbsenceDated(p) == AbsenceDatedAt(p, board, now)

VerdictSound(v) ==
    /\ v.category = "rebooted" /\ v.evidence = "absence" => v.boot > v.served
    /\ v.lock = "likely_held" => v.attempted

\* Before it has read the board, a probe knows nothing of it; only one whose
\* verdict will not be a reboot goes to the register.
Unread(p) == p.uptime = None /\ p.id = None /\ AbsenceDated(p)

StageSound(r) ==
    /\ r.at \in {"tcp", "ssh"} => Unread(r)
    /\ r.at = "register" => ShouldRead(r)
    /\ r.at = "apply" => VerdictSound(r.verdict)

StagesSound == \A w \in Workers : StageSound(probe[w])

DiagnosisInv ==
    /\ TypeOK /\ ConnectionDated /\ StagesSound
    /\ OneProbe /\ VerdictsNumbered
    /\ diag # None => VerdictSound(diag)

\* The boot ids on their way to the session are of boots it has been connected
\* to since, as long as no board is back before its loss is noticed.
IdsServed ==
    /\ session.connected => session.served = board.boot
    /\ \A id \in unsaved : id <= board.boot
    /\ known # None => session.served # None /\ known <= session.served
    /\ session.served # None => session.served <= board.boot

IdDatedAt(p, b) ==
    /\ p.known # None => p.served # None /\ p.known <= p.served
    /\ p.served # None => p.served <= b.boot

\* An id that is the known one is of the boot that was served.
IdAgrees(p) == p.known # None /\ p.id = p.known => p.boot = p.served

IdVerdict(v) == v.category = "server_crashed" /\ v.evidence = "boot_id" => v.boot = v.served

IdStageAt(r, b) ==
    /\ r.at \in {"tcp", "ssh"} => IdDatedAt(r, b)
    /\ r.at = "register" => IdAgrees(r)
    /\ r.at = "apply" => IdVerdict(r.verdict)

IdsInv ==
    /\ IdsServed
    /\ \A w \in Workers : IdStageAt(probe[w], board)
    /\ diag # None => IdVerdict(diag)

-----------------------------------------------------------------------------
(* Probes and verdicts.                                                    *)

LEMMA CategoryTyped ==
    ASSUME NEW p \in Probes
    PROVE  Category(p) \in {"recovering", "host_unreachable", "server_down_unknown", "rebooted",
                            "server_crashed"}
<1>1. p.reached \in {"none", "host", "server"}
  BY DEF Probes
<1>2. CASE p.reached = "server"
  BY <1>2 DEF Category
<1>3. CASE p.reached = "none"
  BY <1>3 DEF Category
<1>4. CASE p.reached = "host"
  BY <1>4 DEF Category
<1> QED
  BY <1>1, <1>2, <1>3, <1>4

LEMMA LockTyped ==
    ASSUME NEW p \in Probes
    PROVE  LockState(p) \in {"lost", "locked", "unlocked", "unknown", "likely_held"}
<1>2. CASE Category(p) = "rebooted"
  BY <1>2 DEF LockState
<1>3. CASE Category(p) = "server_crashed"
  BY <1>3 DEF LockState
<1>4. CASE Category(p) \notin {"rebooted", "server_crashed"}
  BY <1>4 DEF LockState
<1> QED
  BY <1>2, <1>3, <1>4

LEMMA EvidenceTyped ==
    ASSUME NEW p \in Probes PROVE Evidence(p) \in {"boot_id", "absence", "uptime_threshold"}
BY DEF Evidence

LEMMA VerdictTyped ==
    ASSUME NEW p \in Probes PROVE Done(p) \in [at : {"apply"}, verdict : Verdicts]
<1>1. Verdict(p) \in Verdicts
  BY CategoryTyped, LockTyped, EvidenceTyped DEF Verdict, Verdicts, Probes
<1> QED
  BY <1>1 DEF Done

\* What a verdict rests on, in the terms of the probe.
LEMMA RebootedOnly ==
    ASSUME NEW p \in Probes, Category(p) = "rebooted"
    PROVE  p.uptime # None /\ LooksRebooted(p)
<1>1. p.reached \in {"none", "host", "server"}
  BY DEF Probes
<1>2. p.reached = "host"
  BY <1>1 DEF Category
<1> QED
  BY <1>2 DEF Category

LEMMA CrashedOnly ==
    ASSUME NEW p \in Probes, Category(p) = "server_crashed"
    PROVE  p.uptime # None /\ ~LooksRebooted(p)
<1>1. p.reached \in {"none", "host", "server"}
  BY DEF Probes
<1>2. p.reached = "host"
  BY <1>1 DEF Category
<1> QED
  BY <1>2 DEF Category

LEMMA HeldOnly ==
    ASSUME NEW p \in Probes, LockState(p) = "likely_held" PROVE ShouldRead(p)
<1>1. p.bit \in Answer /\ p.fpga \in Answer
  BY DEF Probes
<1>2. Category(p) = "server_crashed"
  BY DEF LockState
<1>3. p.fpga = "yes"
  BY <1>1, <1>2 DEF LockState, Answer
<1> QED
  BY <1>2, <1>3, CrashedOnly DEF ShouldRead

LEMMA SoundBeforeRegister ==
    ASSUME NEW p \in Probes, TypeOK, board.bootedAt <= now, AbsenceDated(p), ~ShouldRead(p),
           p.uptime # None => p.uptime = now - board.bootedAt /\ p.boot = board.boot
    PROVE  VerdictSound(Verdict(p))
<1>1. ASSUME Category(p) = "rebooted", Evidence(p) = "absence" PROVE p.boot > p.served
  <2>1. p.since # None /\ (p.known = None \/ p.id = None)
    BY <1>1 DEF Evidence
  <2>2. p.uptime < p.since /\ p.uptime = now - board.bootedAt /\ p.boot = board.boot
    BY <1>1, <2>1, RebootedOnly DEF LooksRebooted
  <2>3. p.served # None /\ p.served <= board.boot
        /\ (p.served = board.boot => p.since + board.bootedAt <= now)
    BY <2>1 DEF AbsenceDated, AbsenceDatedAt
  <2>4. p.since \in Nat /\ p.served \in Nat /\ now \in Nat /\ board.bootedAt \in Nat
        /\ board.boot \in Nat
    BY <2>1, <2>3 DEF Probes, Number, TypeOK
  <2> QED
    BY <2>2, <2>3, <2>4
<1>2. LockState(p) # "likely_held"
  BY HeldOnly
<1> QED
  BY <1>1, <1>2 DEF VerdictSound, Verdict

LEMMA SoundAtRegister ==
    ASSUME NEW p \in Probes, p.at = "register", ShouldRead(p)
    PROVE  VerdictSound(Verdict(p))
<1>1. Category(p) # "rebooted"
  BY RebootedOnly DEF ShouldRead
<1> QED
  BY <1>1 DEF VerdictSound, Verdict

-----------------------------------------------------------------------------
(* The steps of the pool.                                                  *)

Finished == [at : {"apply"}, verdict : Verdicts]

LEMMA ProbeFrame ==
    [Next]_vars =>
        \/ \E w \in Workers : \/ Dispatch(w) \/ Tcp(w) \/ ReadState(w) \/ ReadRegister(w)
                              \/ Apply(w)
        \/ Restart
        \/ UNCHANGED probe
BY DEF Next, vars, Tick, BoardChanges, Connect, Drop, Disconnect, ReadBootId, SaveBootId

LEMMA DispatchOutcome ==
    ASSUME NEW w \in Workers, TypeOK, ConnectionDated, Dispatch(w)
    PROVE  \/ probe' = probe
           \/ \E q \in Probes :
                /\ probe' = [probe EXCEPT ![w] = q]
                /\ q.at = "tcp" /\ q.number = probes + 1 /\ q.known = known
                /\ q.served = session.served /\ Unread(q)
<1> DEFINE q == [Idle EXCEPT !.at = "tcp", !.known = known, !.served = session.served,
                             !.number = probes + 1,
                             !.since = IF session.connectedAt = None THEN None
                                       ELSE now - session.connectedAt]
<1>1. session.connectedAt # None =>
        /\ session.connectedAt \in Nat /\ session.connectedAt <= now
        /\ now - session.connectedAt \in Nat
  BY DEF TypeOK, ConnectionDated, Number
<1> DEFINE absence == IF session.connectedAt = None THEN None ELSE now - session.connectedAt
<1>a. absence \in Number /\ known \in Number /\ session.served \in Number /\ probes + 1 \in Nat
      /\ None \in Number
  BY <1>1 DEF TypeOK, Number
<1>b. Idle \in Probes
  BY <1>a DEF Idle, Probes, Answer
<1> HIDE DEF absence
<1>c. [Idle EXCEPT !.at = "tcp", !.known = known, !.served = session.served,
                   !.number = probes + 1, !.since = absence] \in Probes
  BY <1>a, <1>b DEF Probes
<1>2. q \in Probes
  BY <1>c DEF absence
<1>3. q.uptime = None /\ q.id = None /\ q.served = session.served
      /\ q.since = (IF session.connectedAt = None THEN None ELSE now - session.connectedAt)
  BY DEF Idle
<1>4. AbsenceDated(q)
  <2> SUFFICES ASSUME q.since # None
               PROVE  /\ q.served # None /\ q.served <= board.boot
                      /\ q.served = board.boot => q.since + board.bootedAt <= now
    BY DEF AbsenceDated, AbsenceDatedAt
  <2>1. session.connectedAt # None
    BY <1>3
  <2>2. now \in Nat /\ board.bootedAt \in Nat
    BY DEF TypeOK
  <2> HIDE DEF q
  <2> QED
    BY <1>1, <1>3, <2>1, <2>2 DEF ConnectionDated
<1>5. q.at = "tcp" /\ q.number = probes + 1 /\ q.known = known
  BY DEF Idle
<1>6. probe' = probe \/ probe' = [probe EXCEPT ![w] = q]
  BY DEF Dispatch
<1> HIDE DEF q
<1> QED
  BY <1>2, <1>3, <1>4, <1>5, <1>6 DEF Unread

\* What carries over from a probe to its next stage.
SameProbe(p, q) ==
    q.since = p.since /\ q.known = p.known /\ q.served = p.served /\ q.number = p.number

LEMMA TcpOutcome ==
    ASSUME NEW w \in Workers, TypeOK, StagesSound, Tcp(w)
    PROVE  \E q \in Probes :
             /\ SameProbe(probe[w], q) /\ q.uptime = None /\ q.id = None
             /\ \/ probe' = [probe EXCEPT ![w] = Done(q)]
                \/ q.at = "ssh" /\ probe' = [probe EXCEPT ![w] = q]
<1>1. probe[w].at = "tcp" /\ probe[w] \in Probes \cup Finished
  BY DEF Tcp, Probing, TypeOK, Finished
<1>2. probe[w] \in Probes /\ probe[w].uptime = None /\ probe[w].id = None
  BY <1>1 DEF Finished, StagesSound, StageSound, Unread
<1>3. CASE TcpOpen
  <2> DEFINE q == [probe[w] EXCEPT !.reached = "server"]
  <2>1. q \in Probes /\ SameProbe(probe[w], q) /\ q.uptime = None /\ q.id = None
    BY <1>2 DEF Probes, SameProbe
  <2>2. probe' = [probe EXCEPT ![w] = Done(q)]
    BY <1>3 DEF Tcp
  <2> QED
    BY <2>1, <2>2
<1>4. CASE ~TcpOpen
  <2> DEFINE q == [probe[w] EXCEPT !.at = "ssh"]
  <2>1. q \in Probes /\ SameProbe(probe[w], q) /\ q.uptime = None /\ q.id = None /\ q.at = "ssh"
    BY <1>2 DEF Probes, SameProbe
  <2>2. probe' = [probe EXCEPT ![w] = q]
    BY <1>4 DEF Tcp
  <2> QED
    BY <2>1, <2>2
<1> QED
  BY <1>3, <1>4

\* What the compound read tells of the board.
ReadsBoard(q) ==
    /\ q.uptime # None => q.uptime = now - board.bootedAt /\ q.boot = board.boot
    /\ q.id # None => q.id = board.boot /\ q.boot = board.boot

LEMMA BoardStateTold ==
    ASSUME NEW p \in Probes, p.uptime = None, p.id = None, TypeOK, board.bootedAt <= now,
           NEW q \in BoardState(p)
    PROVE  q \in Probes /\ q.at = p.at /\ q.reached = p.reached /\ SameProbe(p, q) /\ ReadsBoard(q)
<1>1. now - board.bootedAt \in Nat /\ board.boot \in Nat
  BY DEF TypeOK
<1> DEFINE full == [p EXCEPT !.uptime = now - board.bootedAt, !.id = board.boot,
                             !.boot = board.boot,
                             !.fpga = IF board.gateware THEN "yes" ELSE "no"]
<1>2. full \in Probes
  BY <1>1 DEF Probes, Number, Answer
<1>3. \/ q = p \/ q = full \/ q = [full EXCEPT !.uptime = None]
      \/ q = [full EXCEPT !.fpga = "unknown"] \/ q = [full EXCEPT !.id = None]
  BY DEF BoardState
<1>4. q \in Probes
  <2>1. None \in Number /\ "unknown" \in Answer
    BY DEF Number, Answer
  <2> HIDE DEF full
  <2> QED
    BY <1>2, <1>3, <2>1 DEF Probes
<1>5. q.at = p.at /\ q.reached = p.reached /\ SameProbe(p, q)
  BY <1>3 DEF Probes, SameProbe
<1>6. ReadsBoard(q)
  BY <1>3 DEF Probes, ReadsBoard
<1> QED
  BY <1>4, <1>5, <1>6

LEMMA ReadOutcome ==
    ASSUME NEW w \in Workers, TypeOK, StagesSound, board.bootedAt <= now, ReadState(w)
    PROVE  \E q \in Probes :
             /\ SameProbe(probe[w], q) /\ ReadsBoard(q)
             /\ \/ ~ShouldRead(q) /\ probe' = [probe EXCEPT ![w] = Done(q)]
                \/ /\ ShouldRead(q)
                   /\ probe' = [probe EXCEPT ![w] = [q EXCEPT !.at = "register"]]
<1>1. probe[w].at = "ssh" /\ probe[w] \in Probes \cup Finished
  BY DEF ReadState, Probing, TypeOK, Finished
<1>2. probe[w] \in Probes /\ probe[w].uptime = None /\ probe[w].id = None
  BY <1>1 DEF Finished, StagesSound, StageSound, Unread
<1> DEFINE p == [probe[w] EXCEPT !.reached = "host"]
<1>3. p \in Probes /\ p.uptime = None /\ p.id = None /\ p.reached = "host"
      /\ SameProbe(probe[w], p)
  BY <1>2 DEF Probes, SameProbe
<1>4. CASE probe' = [probe EXCEPT ![w] = Done(@)]
  <2>1. SameProbe(probe[w], probe[w]) /\ ReadsBoard(probe[w]) /\ ~ShouldRead(probe[w])
    BY <1>2 DEF SameProbe, ReadsBoard, ShouldRead
  <2>2. probe' = [probe EXCEPT ![w] = Done(probe[w])]
    BY <1>4
  <2> QED
    BY <1>2, <2>1, <2>2
<1>5. ASSUME NEW q \in BoardState(p),
             probe' = [probe EXCEPT ![w] = IF ShouldRead(q) THEN [q EXCEPT !.at = "register"]
                                           ELSE Done(q)]
      PROVE  /\ q \in Probes /\ SameProbe(probe[w], q) /\ ReadsBoard(q)
             /\ \/ ~ShouldRead(q) /\ probe' = [probe EXCEPT ![w] = Done(q)]
                \/ /\ ShouldRead(q)
                   /\ probe' = [probe EXCEPT ![w] = [q EXCEPT !.at = "register"]]
  <2> HIDE DEF p
  <2>1. q \in Probes /\ q.reached = "host" /\ SameProbe(p, q) /\ ReadsBoard(q)
    BY <1>3, BoardStateTold
  <2>2. SameProbe(probe[w], q)
    BY <1>3, <2>1 DEF SameProbe
  <2> QED
    BY <1>5, <2>1, <2>2
<1>6. \/ probe' = [probe EXCEPT ![w] = Done(@)]
      \/ \E q \in BoardState(p) :
           probe' = [probe EXCEPT ![w] = IF ShouldRead(q) THEN [q EXCEPT !.at = "register"]
                                         ELSE Done(q)]
  BY DEF ReadState
<1> HIDE DEF p
<1> QED
  BY <1>4, <1>5, <1>6

LEMMA RegisterOutcome ==
    ASSUME NEW w \in Workers, TypeOK, StagesSound, ReadRegister(w)
    PROVE  \E q \in Probes :
             /\ SameProbe(probe[w], q) /\ q.at = "register" /\ ShouldRead(q)
             /\ q.boot = probe[w].boot /\ q.id = probe[w].id
             /\ probe' = [probe EXCEPT ![w] = Done(q)]
<1>1. probe[w].at = "register" /\ probe[w] \in Probes \cup Finished
  BY DEF ReadRegister, Probing, TypeOK, Finished
<1>2. probe[w] \in Probes /\ ShouldRead(probe[w])
  BY <1>1 DEF Finished, StagesSound, StageSound
<1>3. PICK bit \in LockBits(probe[w]) :
        probe' = [probe EXCEPT ![w] = Done([@ EXCEPT !.bit = bit])]
  BY DEF ReadRegister
<1> DEFINE q == [probe[w] EXCEPT !.bit = bit]
<1>4. bit \in Answer
  BY DEF LockBits, Answer
<1>5. q \in Probes /\ SameProbe(probe[w], q) /\ q.at = "register"
      /\ q.boot = probe[w].boot /\ q.id = probe[w].id
  BY <1>1, <1>2, <1>4 DEF Probes, SameProbe
<1>6. ShouldRead(q)
  BY <1>2 DEF ShouldRead, LooksRebooted, Probes
<1>7. probe' = [probe EXCEPT ![w] = Done(q)]
  BY <1>3
<1> QED
  BY <1>5, <1>6, <1>7

\* What a worker turns its probe into.
Place(w, r) == probe' = [probe EXCEPT ![w] = r]

LEMMA DoneFields ==
    ASSUME NEW p \in Probes
    PROVE  /\ Done(p) \in Finished /\ Done(p).at = "apply"
           /\ NumberOf(Done(p)) = p.number /\ Done(p).verdict = Verdict(p)
BY VerdictTyped DEF Done, Finished, NumberOf, Verdict

LEMMA Advance ==
    ASSUME NEW w \in Workers, TypeOK, ConnectionDated, StagesSound,
           Tcp(w) \/ ReadState(w) \/ ReadRegister(w)
    PROVE  /\ ~Probing(w, "idle")
           /\ \E r \in Probes \cup Finished :
                Place(w, r) /\ StageSound(r) /\ r.at # "idle" /\ NumberOf(r) = NumberOf(probe[w])
<1>1. probe[w].at \in {"tcp", "ssh", "register"}
  BY DEF Tcp, ReadState, ReadRegister, Probing
<1>2. ~Probing(w, "idle") /\ NumberOf(probe[w]) = probe[w].number
  BY <1>1 DEF Probing, NumberOf
<1>3. CASE Tcp(w)
  <2>1. PICK q \in Probes :
          /\ SameProbe(probe[w], q) /\ q.uptime = None /\ q.id = None
          /\ \/ probe' = [probe EXCEPT ![w] = Done(q)]
             \/ q.at = "ssh" /\ probe' = [probe EXCEPT ![w] = q]
    BY <1>3, TcpOutcome
  <2>2. AbsenceDated(q)
    BY <1>3, <2>1 DEF Tcp, Probing, StagesSound, StageSound, Unread, AbsenceDated, AbsenceDatedAt,
          SameProbe
  <2>3. CASE probe' = [probe EXCEPT ![w] = Done(q)]
    <3>1. VerdictSound(Verdict(q))
      BY <2>1, <2>2, SoundBeforeRegister DEF ShouldRead, ConnectionDated
    <3>2. /\ Done(q) \in Finished /\ Done(q).at = "apply"
          /\ NumberOf(Done(q)) = q.number /\ Done(q).verdict = Verdict(q)
      BY <2>1, DoneFields
    <3>3. StageSound(Done(q))
      BY <3>1, <3>2 DEF StageSound
    <3> QED
      BY <1>2, <2>1, <2>3, <3>2, <3>3 DEF Place, SameProbe
  <2>4. CASE q.at = "ssh" /\ probe' = [probe EXCEPT ![w] = q]
    <3>1. StageSound(q) /\ NumberOf(q) = q.number
      BY <2>1, <2>2, <2>4 DEF StageSound, Unread, NumberOf
    <3> QED
      BY <1>2, <2>1, <2>4, <3>1 DEF Place, SameProbe
  <2> QED
    BY <1>2, <2>1, <2>3, <2>4
<1>4. CASE ReadState(w)
  <2>1. PICK q \in Probes :
          /\ SameProbe(probe[w], q) /\ ReadsBoard(q)
          /\ \/ ~ShouldRead(q) /\ probe' = [probe EXCEPT ![w] = Done(q)]
             \/ /\ ShouldRead(q)
                /\ probe' = [probe EXCEPT ![w] = [q EXCEPT !.at = "register"]]
    BY <1>4, ReadOutcome DEF ConnectionDated
  <2>2. AbsenceDated(q)
    BY <1>4, <2>1 DEF ReadState, Probing, StagesSound, StageSound, Unread, AbsenceDated, AbsenceDatedAt,
          SameProbe
  <2>3. CASE ~ShouldRead(q) /\ probe' = [probe EXCEPT ![w] = Done(q)]
    <3>1. VerdictSound(Verdict(q))
      BY <2>1, <2>2, <2>3, SoundBeforeRegister DEF ReadsBoard, ConnectionDated
    <3> QED
      BY <1>2, <2>1, <2>3, <3>1, DoneFields DEF Place, StageSound, SameProbe
  <2>4. CASE ShouldRead(q) /\ probe' = [probe EXCEPT ![w] = [q EXCEPT !.at = "register"]]
    <3> DEFINE r == [q EXCEPT !.at = "register"]
    <3>1. r \in Probes /\ r.at = "register" /\ r.number = q.number
      BY DEF Probes
    <3>2. ShouldRead(r)
      BY <2>4 DEF ShouldRead, LooksRebooted, Probes
    <3>3. Place(w, r)
      BY <2>4 DEF Place
    <3> HIDE DEF r
    <3>4. StageSound(r) /\ NumberOf(r) = q.number
      BY <3>1, <3>2 DEF StageSound, NumberOf
    <3> QED
      BY <1>2, <2>1, <3>1, <3>3, <3>4 DEF SameProbe
  <2> QED
    BY <1>2, <2>1, <2>3, <2>4
<1>5. CASE ReadRegister(w)
  <2>1. PICK q \in Probes :
          /\ SameProbe(probe[w], q) /\ q.at = "register" /\ ShouldRead(q)
          /\ q.boot = probe[w].boot /\ q.id = probe[w].id
          /\ probe' = [probe EXCEPT ![w] = Done(q)]
    BY <1>5, RegisterOutcome
  <2>2. VerdictSound(Verdict(q))
    BY <2>1, SoundAtRegister
  <2> QED
    BY <1>2, <2>1, <2>2, DoneFields DEF Place, StageSound, SameProbe
<1> QED
  BY <1>3, <1>4, <1>5

\* The same for a dispatch, which gives the probe its number.
LEMMA Begin ==
    ASSUME NEW w \in Workers, TypeOK, ConnectionDated, Dispatch(w)
    PROVE  \/ UNCHANGED probe
           \/ \E r \in Probes :
                /\ Place(w, r) /\ StageSound(r) /\ r.at # "idle" /\ NumberOf(r) = probes + 1
<1>1. ASSUME NEW q \in Probes, q.at = "tcp", q.number = probes + 1, Unread(q)
      PROVE  StageSound(q) /\ q.at # "idle" /\ NumberOf(q) = probes + 1
  BY <1>1 DEF StageSound, NumberOf
<1> QED
  BY <1>1, DispatchOutcome DEF Place

\* A worker that has applied its verdict is idle, and nothing is left of the
\* probes when the gateway starts again.
LEMMA IdleSound == Idle \in Probes /\ StageSound(Idle) /\ Idle.at = "idle"
<1>1. Idle \in Probes
  BY DEF Idle, Probes, Number, Answer
<1> QED
  BY <1>1 DEF Idle, StageSound

-----------------------------------------------------------------------------
(* Types and times.                                                        *)

ProbeTypes == probe \in [Workers -> Probes \cup Finished]

LEMMA ProbesStep ==
    TypeOK /\ ConnectionDated /\ StagesSound /\ [Next]_vars => ProbeTypes'
<1> SUFFICES ASSUME TypeOK, ConnectionDated, StagesSound, [Next]_vars PROVE ProbeTypes'
  OBVIOUS
<1>1. ProbeTypes
  BY DEF TypeOK, ProbeTypes, Finished
<1>2. ASSUME NEW w \in Workers, NEW r \in Probes \cup Finished, Place(w, r) PROVE ProbeTypes'
  BY <1>1, <1>2 DEF Place, ProbeTypes
<1>3. ASSUME NEW w \in Workers, Dispatch(w) PROVE ProbeTypes'
  BY <1>1, <1>2, <1>3, Begin DEF ProbeTypes
<1>4. ASSUME NEW w \in Workers, Tcp(w) \/ ReadState(w) \/ ReadRegister(w) PROVE ProbeTypes'
  BY <1>2, <1>4, Advance
<1>5. ASSUME NEW w \in Workers, Apply(w) PROVE ProbeTypes'
  BY <1>2, <1>5, IdleSound DEF Apply, Place
<1>6. CASE Restart
  BY <1>6, IdleSound DEF Restart, ProbeTypes
<1>7. CASE UNCHANGED probe
  BY <1>1, <1>7 DEF ProbeTypes
<1> QED
  BY <1>3, <1>4, <1>5, <1>6, <1>7, ProbeFrame

LEMMA DiagnosisFrame ==
    [Next]_vars =>
        \/ Connect \/ Disconnect \/ Restart \/ (\E w \in Workers : Apply(w))
        \/ UNCHANGED diag
BY DEF Next, vars, Tick, BoardChanges, Drop, ReadBootId, SaveBootId, Dispatch, Tcp, ReadState,
       ReadRegister

LEMMA SchedFrame ==
    [Next]_vars =>
        \/ Drop \/ Restart \/ (\E w \in Workers : Dispatch(w) \/ Apply(w))
        \/ UNCHANGED sched
BY DEF Next, vars, Tick, BoardChanges, Connect, Disconnect, ReadBootId, SaveBootId, Tcp, ReadState,
       ReadRegister

LEMMA SessionFrame ==
    [Next]_vars =>
        \/ Connect \/ Drop \/ Disconnect \/ Restart
        \/ UNCHANGED session
BY DEF Next, vars, Tick, BoardChanges, ReadBootId, SaveBootId, Dispatch, Tcp, ReadState,
       ReadRegister, Apply

LEMMA WorldFrame ==
    [Next]_vars => Tick \/ BoardChanges \/ UNCHANGED <<now, board>>
BY DEF Next, vars, Connect, Drop, Disconnect, ReadBootId, SaveBootId, Dispatch, Tcp, ReadState,
       ReadRegister, Apply, Restart

LEMMA IdsFrame ==
    [Next]_vars =>
        \/ Connect \/ ReadBootId \/ Restart \/ (\E id \in 1..MaxBoots : SaveBootId(id))
        \/ UNCHANGED bootIds
BY DEF Next, vars, Tick, BoardChanges, Drop, Disconnect, Dispatch, Tcp, ReadState, ReadRegister,
       Apply

LEMMA ProbesCount ==
    [Next]_vars => (\E w \in Workers : Dispatch(w)) \/ UNCHANGED probes
BY DEF Next, vars, Tick, BoardChanges, Connect, Drop, Disconnect, ReadBootId, SaveBootId, Tcp,
       ReadState, ReadRegister, Apply, Restart

WorldTypes ==
    /\ now \in Nat
    /\ board \in [boot : Nat, bootedAt : Nat, on : BOOLEAN, server : BOOLEAN, gateware : BOOLEAN]
SessionTypes ==
    session \in [connected : BOOLEAN, wants : BOOLEAN, connectedAt : Number, served : Number]
IdTypes == known \in Number /\ reading \in BOOLEAN /\ unsaved \subseteq Nat
SchedTypes == sched \in [pending : BOOLEAN, inflight : BOOLEAN]

LEMMA TypeParts ==
    TypeOK <=> /\ WorldTypes /\ SessionTypes /\ IdTypes /\ SchedTypes /\ ProbeTypes
               /\ probes \in Nat /\ diag \in Verdicts \cup {None}
BY DEF TypeOK, WorldTypes, SessionTypes, IdTypes, SchedTypes, ProbeTypes, Finished

LEMMA WorldStep == WorldTypes /\ [Next]_vars => WorldTypes'
<1> SUFFICES ASSUME WorldTypes, [Next]_vars PROVE WorldTypes'
  OBVIOUS
<1>1. CASE Tick
  BY <1>1 DEF Tick, WorldTypes
<1>2. CASE BoardChanges
  <2>1. now \in Nat /\ board.boot + 1 \in Nat
    BY DEF WorldTypes
  <2> QED
    BY <1>2, <2>1 DEF BoardChanges, WorldTypes
<1>3. CASE UNCHANGED <<now, board>>
  BY <1>3 DEF WorldTypes
<1> QED
  BY <1>1, <1>2, <1>3, WorldFrame

LEMMA SessionStep == WorldTypes /\ SessionTypes /\ [Next]_vars => SessionTypes'
<1> SUFFICES ASSUME WorldTypes, SessionTypes, [Next]_vars PROVE SessionTypes'
  OBVIOUS
<1>1. CASE Connect
  <2>1. now \in Number /\ board.boot \in Number
    BY DEF WorldTypes, Number
  <2> QED
    BY <1>1, <2>1 DEF Connect, SessionTypes
<1>2. CASE Drop \/ Disconnect \/ Restart
  BY <1>2 DEF Drop, Disconnect, Restart, SessionTypes
<1>3. CASE UNCHANGED session
  BY <1>3 DEF SessionTypes
<1> QED
  BY <1>1, <1>2, <1>3, SessionFrame

LEMMA IdTypesStep == WorldTypes /\ IdTypes /\ [Next]_vars => IdTypes'
<1> SUFFICES ASSUME WorldTypes, IdTypes, [Next]_vars PROVE IdTypes'
  OBVIOUS
<1>1. CASE Connect \/ Restart
  BY <1>1 DEF Connect, Restart, IdTypes
<1>2. CASE ReadBootId
  <2>1. board.boot \in Nat
    BY DEF WorldTypes
  <2> QED
    BY <1>2, <2>1 DEF ReadBootId, IdTypes
<1>3. ASSUME NEW id \in 1..MaxBoots, SaveBootId(id) PROVE IdTypes'
  BY <1>3 DEF SaveBootId, IdTypes, Number
<1>4. CASE UNCHANGED bootIds
  BY <1>4 DEF bootIds, IdTypes
<1> QED
  BY <1>1, <1>2, <1>3, <1>4, IdsFrame

LEMMA DispatchSched ==
    ASSUME NEW w \in Workers, Dispatch(w)
    PROVE  /\ sched.pending /\ Probing(w, "idle") /\ probes' = probes + 1
           /\ \/ sched' = [sched EXCEPT !.pending = FALSE] /\ probe' = probe
              \/ sched' = [pending |-> FALSE, inflight |-> TRUE]
BY DEF Dispatch

LEMMA SchedStep == SchedTypes /\ SessionTypes /\ [Next]_vars => SchedTypes'
<1> SUFFICES ASSUME SchedTypes, SessionTypes, [Next]_vars PROVE SchedTypes'
  OBVIOUS
<1>1. CASE Drop
  BY <1>1 DEF Drop, Schedule, SchedTypes
<1>2. CASE Restart
  BY <1>2 DEF Restart, SchedTypes
<1>3. ASSUME NEW w \in Workers, Dispatch(w) PROVE SchedTypes'
  <2>1. \/ sched' = [sched EXCEPT !.pending = FALSE]
        \/ sched' = [pending |-> FALSE, inflight |-> TRUE]
    BY <1>3, DispatchSched
  <2>2. CASE sched' = [sched EXCEPT !.pending = FALSE]
    BY <2>2 DEF SchedTypes
  <2>3. CASE sched' = [pending |-> FALSE, inflight |-> TRUE]
    BY <2>3 DEF SchedTypes
  <2> QED
    BY <2>1, <2>2, <2>3
<1>4. ASSUME NEW w \in Workers, Apply(w) PROVE SchedTypes'
  BY <1>4 DEF Apply, SchedTypes, SessionTypes
<1>5. CASE UNCHANGED sched
  BY <1>5 DEF SchedTypes
<1> QED
  BY <1>1, <1>2, <1>3, <1>4, <1>5, SchedFrame

LEMMA DiagTypeStep ==
    ProbeTypes /\ diag \in Verdicts \cup {None} /\ [Next]_vars => diag' \in Verdicts \cup {None}
<1> SUFFICES ASSUME ProbeTypes, diag \in Verdicts \cup {None}, [Next]_vars
             PROVE  diag' \in Verdicts \cup {None}
  OBVIOUS
<1>1. CASE Connect \/ Disconnect \/ Restart
  BY <1>1 DEF Connect, Disconnect, Restart
<1>2. ASSUME NEW w \in Workers, Apply(w) PROVE diag' \in Verdicts \cup {None}
  <2>1. probe[w] \in Probes \cup Finished /\ probe[w].at = "apply"
    BY <1>2 DEF Apply, Probing, ProbeTypes
  <2>2. probe[w].verdict \in Verdicts
    BY <2>1 DEF Probes, Finished
  <2> QED
    BY <1>2, <2>2 DEF Apply
<1> QED
  BY <1>1, <1>2, DiagnosisFrame

LEMMA TypeStep == TypeOK /\ ConnectionDated /\ StagesSound /\ [Next]_vars => TypeOK'
<1> SUFFICES ASSUME TypeOK, ConnectionDated, StagesSound, [Next]_vars PROVE TypeOK'
  OBVIOUS
<1>1. probes' \in Nat
  BY ProbesCount DEF Dispatch, TypeOK
<1>2. WorldTypes' /\ SessionTypes' /\ IdTypes' /\ SchedTypes' /\ ProbeTypes'
  BY WorldStep, SessionStep, IdTypesStep, SchedStep, ProbesStep, TypeParts
<1>3. diag' \in Verdicts \cup {None}
  BY DiagTypeStep, TypeParts
<1> QED
  BY <1>1, <1>2, <1>3 DEF TypeOK, WorldTypes, SessionTypes, IdTypes, SchedTypes, ProbeTypes, Finished

\* A boot that comes later comes up later.
LEMMA ConnectionStep ==
    TypeOK /\ ConnectionDated /\ [Next]_vars => ConnectionDated'
<1> SUFFICES ASSUME TypeOK, ConnectionDated, [Next]_vars PROVE ConnectionDated'
  OBVIOUS
<1> WorldTypes /\ SessionTypes
  BY TypeParts
<1> now \in Nat /\ board.boot \in Nat /\ board.bootedAt \in Nat /\ board.bootedAt <= now
  BY DEF WorldTypes, ConnectionDated
<1>1. CASE Tick
  <2>1. now' = now + 1 /\ board' = board /\ session' = session
    BY <1>1 DEF Tick
  <2> QED
    BY <2>1 DEF ConnectionDated, SessionTypes, Number
<1>2. CASE BoardChanges
  <2>1. /\ now' = now /\ session' = session
        /\ \/ board'.boot = board.boot /\ board'.bootedAt = board.bootedAt
           \/ board'.boot = board.boot + 1 /\ board'.bootedAt = now
    BY <1>2 DEF BoardChanges, WorldTypes
  <2> QED
    BY <2>1 DEF ConnectionDated, SessionTypes, Number
<1>3. CASE Connect
  <2>1. now' = now /\ board' = board /\ session'.connectedAt = now /\ session'.served = board.boot
    BY <1>3 DEF Connect
  <2>2. board.boot # None
    BY NoneAssumption
  <2> QED
    BY <2>1, <2>2 DEF ConnectionDated
<1>4. CASE Drop \/ Disconnect \/ Restart
  <2>1. /\ now' = now /\ board' = board /\ session'.connectedAt = session.connectedAt
        /\ session'.served = session.served
    BY <1>4 DEF Drop, Disconnect, Restart, SessionTypes
  <2> QED
    BY <2>1 DEF ConnectionDated
<1>5. CASE UNCHANGED session /\ UNCHANGED <<now, board>>
  BY <1>5 DEF ConnectionDated
<1> QED
  BY <1>1, <1>2, <1>3, <1>4, <1>5, SessionFrame, WorldFrame

-----------------------------------------------------------------------------
(* The stages.                                                             *)

LEMMA DatesKept ==
    ASSUME TypeOK, ConnectionDated, [Next]_vars, NEW p \in Probes, AbsenceDatedAt(p, board, now)
    PROVE  AbsenceDatedAt(p, board', now')
<1> now \in Nat /\ board.boot \in Nat /\ board.bootedAt \in Nat /\ board.bootedAt <= now
  BY DEF TypeOK, ConnectionDated
<1> SUFFICES ASSUME p.since # None
             PROVE  /\ p.served # None /\ p.served <= board'.boot
                    /\ p.served = board'.boot => p.since + board'.bootedAt <= now'
  BY DEF AbsenceDatedAt
<1>0. /\ p.served # None /\ p.served <= board.boot
      /\ p.served = board.boot => p.since + board.bootedAt <= now
  BY DEF AbsenceDatedAt
<1>1. p.since \in Nat /\ p.served \in Nat
  BY <1>0 DEF Probes, Number
<1>2. CASE Tick
  BY <1>0, <1>1, <1>2 DEF Tick
<1>3. CASE BoardChanges
  <2>1. /\ now' = now
        /\ \/ board'.boot = board.boot /\ board'.bootedAt = board.bootedAt
           \/ board'.boot = board.boot + 1 /\ board'.bootedAt = now
    BY <1>3 DEF BoardChanges, TypeOK
  <2> QED
    BY <1>0, <1>1, <2>1
<1>4. CASE UNCHANGED <<now, board>>
  BY <1>0, <1>4
<1> QED
  BY <1>2, <1>3, <1>4, WorldFrame

\* StageSound of a probe in the next state.
StageSoundAt(r, b, t) ==
    /\ r.at \in {"tcp", "ssh"} => r.uptime = None /\ r.id = None /\ AbsenceDatedAt(r, b, t)
    /\ r.at = "register" => ShouldRead(r)
    /\ r.at = "apply" => VerdictSound(r.verdict)

LEMMA StagesStep ==
    TypeOK /\ ConnectionDated /\ StagesSound /\ [Next]_vars => StagesSound'
<1> SUFFICES ASSUME TypeOK, ConnectionDated, StagesSound, [Next]_vars, NEW w \in Workers
             PROVE  StageSoundAt(probe'[w], board', now')
  BY DEF StagesSound, StageSound, StageSoundAt, Unread, AbsenceDated
<1>1. ProbeTypes
  BY TypeParts
<1>2. ASSUME NEW r \in Probes \cup Finished, StageSound(r)
      PROVE  StageSoundAt(r, board', now')
  <2>1. r.at \in {"tcp", "ssh"} => r \in Probes
    BY DEF Finished
  <2>2. r.at \in {"tcp", "ssh"} => AbsenceDatedAt(r, board', now')
    BY <1>2, <2>1, DatesKept DEF StageSound, Unread, AbsenceDated
  <2> QED
    BY <1>2, <2>2 DEF StageSound, StageSoundAt, Unread
<1>3. probe[w] \in Probes \cup Finished /\ StageSound(probe[w])
  BY <1>1 DEF ProbeTypes, StagesSound
<1>4. ASSUME NEW v \in Workers, NEW r \in Probes \cup Finished, StageSound(r), Place(v, r)
      PROVE  StageSoundAt(probe'[w], board', now')
  <2>1. probe'[w] = probe[w] \/ probe'[w] = r
    BY <1>1, <1>4 DEF Place, ProbeTypes
  <2> QED
    BY <1>2, <1>3, <1>4, <2>1
<1>5. CASE UNCHANGED probe
  BY <1>2, <1>3, <1>5
<1>6. ASSUME NEW v \in Workers, Dispatch(v) PROVE StageSoundAt(probe'[w], board', now')
  BY <1>4, <1>5, <1>6, Begin
<1>7. ASSUME NEW v \in Workers, Tcp(v) \/ ReadState(v) \/ ReadRegister(v)
      PROVE  StageSoundAt(probe'[w], board', now')
  BY <1>4, <1>7, Advance
<1>8. ASSUME NEW v \in Workers, Apply(v) PROVE StageSoundAt(probe'[w], board', now')
  BY <1>4, <1>8, IdleSound DEF Apply, Place
<1>9. CASE Restart
  BY <1>2, <1>9, IdleSound DEF Restart
<1> QED
  BY <1>5, <1>6, <1>7, <1>8, <1>9, ProbeFrame

-----------------------------------------------------------------------------
(* One probe at a time.                                                    *)

LEMMA OneProbeStep ==
    TypeOK /\ ConnectionDated /\ StagesSound /\ OneProbe /\ [Next]_vars => OneProbe'
<1> SUFFICES ASSUME TypeOK, ConnectionDated, StagesSound, OneProbe, [Next]_vars PROVE OneProbe'
  OBVIOUS
<1> ProbeTypes /\ SchedTypes
  BY TypeParts
<1>1. CASE UNCHANGED sched /\ UNCHANGED probe
  BY <1>1 DEF OneProbe, Probing
<1>2. CASE Drop
  <2>1. UNCHANGED probe /\ sched'.inflight = sched.inflight
        /\ (sched.inflight => sched' = sched)
    BY <1>2 DEF Drop, Schedule, SchedTypes
  <2> QED
    BY <2>1 DEF OneProbe, Probing
<1>3. CASE Restart
  BY <1>3, IdleSound DEF Restart, OneProbe, Probing
<1>4. ASSUME NEW w \in Workers, Dispatch(w) PROVE OneProbe'
  <2>1. sched.pending /\ ~sched.inflight
    BY <1>4, DispatchSched DEF OneProbe
  <2>2. \A v \in Workers : probe[v].at = "idle"
    BY <2>1 DEF OneProbe, Probing
  <2>3. \A v \in Workers \ {w} : probe'[v].at = "idle"
    BY <1>4, <2>2, Begin DEF Place, ProbeTypes
  <2>4. CASE sched' = [sched EXCEPT !.pending = FALSE] /\ probe' = probe
    BY <2>2, <2>4 DEF OneProbe, Probing, SchedTypes
  <2>5. CASE sched' = [pending |-> FALSE, inflight |-> TRUE]
    BY <2>3, <2>5 DEF OneProbe, Probing
  <2> QED
    BY <1>4, <2>4, <2>5, DispatchSched
<1>5. ASSUME NEW w \in Workers, Tcp(w) \/ ReadState(w) \/ ReadRegister(w) PROVE OneProbe'
  <2>1. sched' = sched
    BY <1>5 DEF Tcp, ReadState, ReadRegister
  <2>2. ~Probing(w, "idle") /\ \A v \in Workers \ {w} : probe'[v] = probe[v]
    BY <1>5, Advance DEF Place, ProbeTypes
  <2> QED
    BY <2>1, <2>2 DEF OneProbe, Probing
<1>6. ASSUME NEW w \in Workers, Apply(w) PROVE OneProbe'
  <2>1. ~Probing(w, "idle")
    BY <1>6 DEF Apply, Probing
  <2>2. probe'[w] = Idle /\ \A v \in Workers \ {w} : probe'[v] = probe[v]
    BY <1>6 DEF Apply, ProbeTypes
  <2>3. \A v \in Workers : probe'[v].at = "idle"
    BY <2>1, <2>2, IdleSound DEF OneProbe, Probing
  <2>4. ~sched'.inflight
    BY <1>6 DEF Apply
  <2> QED
    BY <2>3, <2>4 DEF OneProbe, Probing
<1>7. (\E w \in Workers : Tcp(w) \/ ReadState(w) \/ ReadRegister(w))
      \/ UNCHANGED probe \/ Restart \/ (\E w \in Workers : Dispatch(w) \/ Apply(w))
  BY ProbeFrame
<1> QED
  BY <1>1, <1>2, <1>3, <1>4, <1>5, <1>6, <1>7, SchedFrame

LEMMA NumbersStep ==
    TypeOK /\ ConnectionDated /\ StagesSound /\ OneProbe /\ VerdictsNumbered /\ [Next]_vars
        => VerdictsNumbered'
<1> SUFFICES ASSUME TypeOK, ConnectionDated, StagesSound, OneProbe, VerdictsNumbered, [Next]_vars
             PROVE  VerdictsNumbered'
  OBVIOUS
<1> ProbeTypes /\ probes \in Nat /\ diag \in Verdicts \cup {None}
  BY TypeParts
<1>0. /\ diag # None => diag.number \in Nat
      /\ \A w \in Workers : ~Probing(w, "idle") => NumberOf(probe[w]) \in Nat
  BY DEF Verdicts, NumberOf, ProbeTypes, Probes, Finished
<1>1. ASSUME NEW w \in Workers, Apply(w) PROVE VerdictsNumbered'
  <2>1. ~Probing(w, "idle") /\ NumberOf(probe[w]) = probe[w].verdict.number
    BY <1>1 DEF Apply, Probing, NumberOf
  <2>2. probe'[w] = Idle /\ (\A v \in Workers \ {w} : probe'[v] = probe[v]) /\ probes' = probes
    BY <1>1 DEF Apply, ProbeTypes
  <2>3. \A v \in Workers : probe'[v].at = "idle"
    BY <2>1, <2>2, IdleSound DEF OneProbe, Probing
  <2>4. diag' = diag \/ diag'.number = NumberOf(probe[w])
    BY <1>1, <2>1 DEF Apply
  <2>5. diag' # None => diag'.number <= probes
    BY <2>1, <2>4 DEF VerdictsNumbered
  <2> QED
    BY <2>2, <2>3, <2>5 DEF VerdictsNumbered, Probing
<1>2. CASE Restart
  BY <1>2, IdleSound DEF Restart, VerdictsNumbered, Probing
<1>3. CASE Connect \/ Disconnect
  BY <1>3 DEF Connect, Disconnect, VerdictsNumbered, Probing, NumberOf
<1>4. ASSUME NEW w \in Workers, Dispatch(w), diag' = diag PROVE VerdictsNumbered'
  <2>1. probes' = probes + 1
    BY <1>4, DispatchSched
  <2>2. CASE UNCHANGED probe
    BY <1>0, <1>4, <2>1, <2>2 DEF VerdictsNumbered, Probing, NumberOf
  <2>3. ASSUME NEW r \in Probes, Place(w, r), NumberOf(r) = probes + 1 PROVE VerdictsNumbered'
    <3>1. probe'[w] = r /\ \A v \in Workers \ {w} : probe'[v] = probe[v]
      BY <2>3 DEF Place, ProbeTypes
    <3>2. /\ diag' # None => diag'.number <= probes'
          /\ NumberOf(probe'[w]) <= probes'
          /\ diag' # None => diag'.number <= NumberOf(probe'[w])
      BY <1>0, <1>4, <2>1, <2>3, <3>1 DEF VerdictsNumbered
    <3>3. ASSUME NEW v \in Workers \ {w}, ~Probing(v, "idle")
          PROVE  /\ NumberOf(probe'[v]) <= probes'
                 /\ diag' # None => diag'.number <= NumberOf(probe'[v])
      BY <1>0, <1>4, <2>1, <3>1, <3>3 DEF VerdictsNumbered
    <3> QED
      BY <3>1, <3>2, <3>3 DEF VerdictsNumbered, Probing, NumberOf
  <2> QED
    BY <1>4, <2>2, <2>3, Begin
<1>5. ASSUME NEW w \in Workers, Tcp(w) \/ ReadState(w) \/ ReadRegister(w), diag' = diag
      PROVE  VerdictsNumbered'
  <2>1. probes' = probes
    BY <1>5 DEF Tcp, ReadState, ReadRegister
  <2>2. PICK r \in Probes \cup Finished : Place(w, r) /\ NumberOf(r) = NumberOf(probe[w])
    BY <1>5, Advance
  <2>3. ~Probing(w, "idle")
    BY <1>5, Advance
  <2>4. probe'[w] = r /\ \A v \in Workers \ {w} : probe'[v] = probe[v]
    BY <2>2 DEF Place, ProbeTypes
  <2>5. ASSUME NEW v \in Workers, probe'[v].at # "idle"
        PROVE  /\ NumberOf(probe'[v]) <= probes
               /\ diag # None => diag.number <= NumberOf(probe'[v])
    <3>1. ~Probing(v, "idle") /\ NumberOf(probe'[v]) = NumberOf(probe[v])
      BY <2>2, <2>3, <2>4, <2>5 DEF Probing
    <3> QED
      BY <3>1 DEF VerdictsNumbered
  <2> QED
    BY <1>5, <2>1, <2>5 DEF VerdictsNumbered, Probing, NumberOf
<1>6. CASE UNCHANGED <<probe, diag, probes>>
  BY <1>6 DEF VerdictsNumbered, Probing, NumberOf
<1>7. \/ UNCHANGED <<probe, diag, probes>>
      \/ Restart \/ Connect \/ Disconnect
      \/ \E w \in Workers : Apply(w)
      \/ \E w \in Workers : Dispatch(w) /\ diag' = diag
      \/ \E w \in Workers : (Tcp(w) \/ ReadState(w) \/ ReadRegister(w)) /\ diag' = diag
  BY DEF Next, vars, Tick, BoardChanges, Drop, ReadBootId, SaveBootId, Dispatch, Tcp, ReadState,
         ReadRegister
<1> QED
  BY <1>1, <1>2, <1>3, <1>4, <1>5, <1>6, <1>7

LEMMA SoundStep ==
    StagesSound /\ (diag # None => VerdictSound(diag)) /\ [Next]_vars
        => (diag' # None => VerdictSound(diag'))
<1> SUFFICES ASSUME StagesSound, diag # None => VerdictSound(diag), [Next]_vars, diag' # None
             PROVE  VerdictSound(diag')
  OBVIOUS
<1>1. CASE Connect \/ Disconnect \/ Restart
  BY <1>1 DEF Connect, Disconnect, Restart
<1>2. ASSUME NEW w \in Workers, Apply(w) PROVE VerdictSound(diag')
  BY <1>2 DEF Apply, Probing, StagesSound, StageSound
<1> QED
  BY <1>1, <1>2, DiagnosisFrame

-----------------------------------------------------------------------------
(* The theorems.                                                           *)

LEMMA DiagnosisInit == Init => DiagnosisInv
<1> SUFFICES ASSUME Init PROVE DiagnosisInv
  OBVIOUS
<1>1. \A w \in Workers : probe[w] \in Probes /\ StageSound(probe[w]) /\ probe[w].at = "idle"
  BY IdleSound DEF Init
<1>2. TypeOK
  <2>1. WorldTypes /\ SessionTypes /\ IdTypes /\ SchedTypes /\ probes \in Nat /\ diag = None
    BY DEF Init, WorldTypes, SessionTypes, IdTypes, SchedTypes, Number
  <2>2. ProbeTypes
    BY IdleSound DEF Init, ProbeTypes
  <2> QED
    BY <2>1, <2>2, TypeParts
<1>3. ConnectionDated
  BY DEF Init, ConnectionDated
<1>4. OneProbe /\ VerdictsNumbered /\ diag = None
  BY <1>1 DEF Init, OneProbe, VerdictsNumbered, Probing
<1> QED
  BY <1>1, <1>2, <1>3, <1>4 DEF DiagnosisInv, StagesSound

LEMMA DiagnosisStep == DiagnosisInv /\ [Next]_vars => DiagnosisInv'
<1> SUFFICES ASSUME DiagnosisInv, [Next]_vars PROVE DiagnosisInv'
  OBVIOUS
<1>1. (diag # None => VerdictSound(diag))'
  BY SoundStep DEF DiagnosisInv
<1> QED
  BY <1>1, TypeStep, ConnectionStep, StagesStep, OneProbeStep, NumbersStep DEF DiagnosisInv

\* The types, one probe at a time, what its stages know and what a verdict says.
THEOREM InductiveInvariant == Spec => []DiagnosisInv
BY DiagnosisInit, DiagnosisStep, PTL DEF Spec

\* The variables keep their types.
THEOREM TypeCorrect == Spec => []TypeOK
<1>1. DiagnosisInv => TypeOK
  BY DEF DiagnosisInv
<1> QED
  BY <1>1, InductiveInvariant, PTL

\* An uptime shorter than the absence proves a reboot, although the two are
\* measured at different moments of a probe, during which the board may reboot
\* and the session may connect and lose the board again.
THEOREM AbsenceProvesRebootHolds == Spec => []AbsenceProvesReboot
<1>1. DiagnosisInv => AbsenceProvesReboot
  BY DEF DiagnosisInv, VerdictSound, AbsenceProvesReboot
<1> QED
  BY <1>1, InductiveInvariant, PTL

\* The gate before the lock register and the verdict agree.
THEOREM UnreadableWasTriedHolds == Spec => []UnreadableWasTried
<1>1. DiagnosisInv => UnreadableWasTried
  BY DEF DiagnosisInv, VerdictSound, UnreadableWasTried
<1> QED
  BY <1>1, InductiveInvariant, PTL

LEMMA OrderKept ==
    DiagnosisInv /\ [Next]_vars =>
        [diag # None /\ diag' # None => diag'.number >= diag.number]_diag
<1> SUFFICES ASSUME DiagnosisInv, [Next]_vars, diag # None, diag' # None, diag' # diag
             PROVE  diag'.number >= diag.number
  OBVIOUS
<1>1. CASE Connect \/ Disconnect \/ Restart
  BY <1>1 DEF Connect, Disconnect, Restart
<1>2. ASSUME NEW w \in Workers, Apply(w) PROVE diag'.number >= diag.number
  <2>1. probe[w].at = "apply" /\ diag'.number = probe[w].verdict.number
    BY <1>2 DEF Apply, Probing
  <2>2. diag.number <= NumberOf(probe[w]) /\ NumberOf(probe[w]) = probe[w].verdict.number
    BY <2>1 DEF DiagnosisInv, VerdictsNumbered, Probing, NumberOf
  <2>3. diag.number \in Nat /\ probe[w].verdict.number \in Nat
    BY <2>1, TypeParts DEF DiagnosisInv, ProbeTypes, Probes, Finished, Verdicts
  <2> QED
    BY <2>1, <2>2, <2>3
<1> QED
  BY <1>1, <1>2, DiagnosisFrame

\* No probe, however long it hung in SSH, replaces the verdict of a later one.
THEOREM VerdictsInOrderHolds == Spec => VerdictsInOrder
BY OrderKept, InductiveInvariant, PTL DEF Spec, VerdictsInOrder

-----------------------------------------------------------------------------
(* Boot ids.                                                               *)

LEMMA BoardForward ==
    ASSUME WorldTypes, [Next]_vars
    PROVE  /\ board'.boot >= board.boot
           /\ PromptDrop /\ session.connected => board'.boot = board.boot
<1> board.boot \in Nat
  BY DEF WorldTypes
<1>1. CASE Tick
  BY <1>1 DEF Tick
<1>2. CASE BoardChanges
  <2>1. \/ board'.boot = board.boot
        \/ /\ board'.boot = board.boot + 1
           /\ PromptDrop => ~session.connected
    BY <1>2 DEF BoardChanges, WorldTypes
  <2> QED
    BY <2>1
<1>3. CASE UNCHANGED <<now, board>>
  BY <1>3
<1> QED
  BY <1>1, <1>2, <1>3, WorldFrame

LEMMA ServedStep ==
    ASSUME PromptDrop, TypeOK, IdsServed, [Next]_vars PROVE IdsServed'
<1> WorldTypes /\ SessionTypes /\ IdTypes
  BY TypeParts
<1>n. /\ board.boot \in Nat /\ board'.boot \in Nat /\ board'.boot >= board.boot
      /\ session.connected => board'.boot = board.boot
      /\ session.served # None => session.served \in Nat
      /\ known # None => known \in Nat
  BY BoardForward, WorldStep DEF WorldTypes, SessionTypes, IdTypes, Number
<1>1. CASE Connect
  <2>1. /\ session'.served = board.boot /\ board' = board
        /\ known' = known /\ unsaved' = unsaved
    BY <1>1 DEF Connect
  <2>2. board.boot # None
    BY <1>n, NoneAssumption
  <2> QED
    BY <1>n, <2>1, <2>2 DEF IdsServed
<1>2. CASE ReadBootId
  <2>1. /\ session' = session /\ board' = board /\ known' = known
        /\ unsaved' \subseteq unsaved \cup {board.boot}
    BY <1>2 DEF ReadBootId
  <2> QED
    BY <1>n, <2>1 DEF IdsServed
<1>3. ASSUME NEW id \in 1..MaxBoots, SaveBootId(id) PROVE IdsServed'
  <2>1. /\ session' = session /\ board' = board /\ unsaved' \subseteq unsaved
        /\ (known' = known \/ (session.connected /\ known' = id)) /\ id \in unsaved
    BY <1>3 DEF SaveBootId, StoresBootId
  <2>2. CASE known' = known
    BY <1>n, <2>1, <2>2 DEF IdsServed
  <2>3. CASE session.connected /\ known' = id
    <3>1. session.served = board.boot /\ id <= board.boot /\ board.boot # None
      BY <1>n, <2>1, <2>3, NoneAssumption DEF IdsServed
    <3> QED
      BY <1>n, <2>1, <2>3, <3>1 DEF IdsServed
  <2> QED
    BY <2>1, <2>2, <2>3
<1>4. CASE Drop \/ Disconnect \/ Restart
  <2>1. /\ session'.served = session.served /\ ~session'.connected /\ board' = board
        /\ known' = known /\ (unsaved' = unsaved \/ unsaved' = {})
    BY <1>4 DEF Drop, Disconnect, Restart, bootIds, SessionTypes
  <2> QED
    BY <1>n, <2>1 DEF IdsServed
<1>5. CASE UNCHANGED session /\ UNCHANGED bootIds
  <2>1. session' = session /\ known' = known /\ unsaved' = unsaved
    BY <1>5 DEF bootIds
  <2>2. \A id \in unsaved : id \in Nat
    BY DEF IdTypes
  <2> QED
    BY <1>n, <2>1, <2>2 DEF IdsServed
<1> QED
  BY <1>1, <1>2, <1>3, <1>4, <1>5, SessionFrame, IdsFrame

LEMMA IdVerdictHolds ==
    ASSUME NEW p \in Probes, IdAgrees(p) PROVE IdVerdict(Verdict(p))
<1> SUFFICES ASSUME Category(p) = "server_crashed", Evidence(p) = "boot_id"
             PROVE  p.boot = p.served
  BY DEF IdVerdict, Verdict
<1>1. p.known # None /\ p.id # None
  BY DEF Evidence
<1>2. p.known = p.id
  BY <1>1, CrashedOnly DEF LooksRebooted
<1> QED
  BY <1>1, <1>2 DEF IdAgrees

\* What a worker makes of its probe.
LEMMA IdAdvance ==
    ASSUME NEW w \in Workers, TypeOK, ConnectionDated, StagesSound, IdStageAt(probe[w], board),
           Tcp(w) \/ ReadState(w) \/ ReadRegister(w)
    PROVE  \E r \in Probes \cup Finished : Place(w, r) /\ IdStageAt(r, board)
<1>a. ASSUME NEW q \in Probes, IdAgrees(q)
      PROVE  Done(q) \in Probes \cup Finished /\ IdStageAt(Done(q), board)
  BY <1>a, DoneFields, IdVerdictHolds DEF IdStageAt
<1>1. CASE Tcp(w)
  <2>1. PICK q \in Probes :
          /\ SameProbe(probe[w], q) /\ q.uptime = None /\ q.id = None
          /\ \/ probe' = [probe EXCEPT ![w] = Done(q)]
             \/ q.at = "ssh" /\ probe' = [probe EXCEPT ![w] = q]
    BY <1>1, TcpOutcome
  <2>2. IdAgrees(q)
    BY <2>1 DEF IdAgrees
  <2>3. IdDatedAt(q, board)
    BY <1>1, <2>1 DEF Tcp, Probing, IdStageAt, IdDatedAt, SameProbe
  <2>4. q.at = "ssh" => IdStageAt(q, board)
    BY <2>3 DEF IdStageAt
  <2> QED
    BY <1>a, <2>1, <2>2, <2>4 DEF Place
<1>2. CASE ReadState(w)
  <2>1. PICK q \in Probes :
          /\ SameProbe(probe[w], q) /\ ReadsBoard(q)
          /\ \/ ~ShouldRead(q) /\ probe' = [probe EXCEPT ![w] = Done(q)]
             \/ /\ ShouldRead(q)
                /\ probe' = [probe EXCEPT ![w] = [q EXCEPT !.at = "register"]]
    BY <1>2, ReadOutcome DEF ConnectionDated
  <2>2. IdDatedAt(q, board)
    BY <1>2, <2>1 DEF ReadState, Probing, IdStageAt, IdDatedAt, SameProbe
  <2>3. IdAgrees(q)
    <3> SUFFICES ASSUME q.known # None, q.id = q.known PROVE q.boot = q.served
      BY DEF IdAgrees
    <3>1. q.id = board.boot /\ q.boot = board.boot
      BY <2>1 DEF ReadsBoard
    <3>2. q.served # None /\ q.known <= q.served /\ q.served <= board.boot
      BY <2>2 DEF IdDatedAt
    <3>3. q.served \in Nat /\ board.boot \in Nat
      BY <3>2 DEF Probes, Number, TypeOK
    <3> QED
      BY <3>1, <3>2, <3>3
  <2>4. CASE probe' = [probe EXCEPT ![w] = Done(q)]
    BY <1>a, <2>3, <2>4 DEF Place
  <2>5. CASE probe' = [probe EXCEPT ![w] = [q EXCEPT !.at = "register"]]
    <3> DEFINE r == [q EXCEPT !.at = "register"]
    <3>1. r \in Probes /\ r.at = "register" /\ r.known = q.known /\ r.id = q.id
          /\ r.boot = q.boot /\ r.served = q.served
      BY DEF Probes
    <3>2. Place(w, r)
      BY <2>5 DEF Place
    <3> HIDE DEF r
    <3>3. IdStageAt(r, board)
      BY <2>3, <3>1 DEF IdStageAt, IdAgrees
    <3> QED
      BY <3>1, <3>2, <3>3
  <2> QED
    BY <2>1, <2>4, <2>5
<1>3. CASE ReadRegister(w)
  <2>1. PICK q \in Probes :
          /\ SameProbe(probe[w], q) /\ q.at = "register" /\ ShouldRead(q)
          /\ q.boot = probe[w].boot /\ q.id = probe[w].id
          /\ probe' = [probe EXCEPT ![w] = Done(q)]
    BY <1>3, RegisterOutcome
  <2>2. IdAgrees(q)
    BY <1>3, <2>1 DEF ReadRegister, Probing, IdStageAt, IdAgrees, SameProbe
  <2> QED
    BY <1>a, <2>1, <2>2 DEF Place
<1> QED
  BY <1>1, <1>2, <1>3

LEMMA IdBegin ==
    ASSUME NEW w \in Workers, TypeOK, ConnectionDated, IdsServed, Dispatch(w)
    PROVE  \/ UNCHANGED probe
           \/ \E r \in Probes : Place(w, r) /\ IdStageAt(r, board)
<1>1. ASSUME NEW q \in Probes, q.at = "tcp", q.known = known, q.served = session.served
      PROVE  IdStageAt(q, board)
  BY <1>1 DEF IdStageAt, IdDatedAt, IdsServed
<1> QED
  BY <1>1, DispatchOutcome DEF Place

LEMMA IdStagesStep ==
    ASSUME TypeOK, ConnectionDated, StagesSound, IdsServed,
           \A w \in Workers : IdStageAt(probe[w], board), [Next]_vars, NEW w \in Workers
    PROVE  IdStageAt(probe'[w], board')
<1> ProbeTypes /\ WorldTypes
  BY TypeParts
<1>0. board.boot \in Nat /\ board'.boot \in Nat /\ board'.boot >= board.boot
  BY BoardForward, WorldStep DEF WorldTypes
<1>1. ASSUME NEW r \in Probes \cup Finished, IdStageAt(r, board) PROVE IdStageAt(r, board')
  <2>1. r.at \in {"tcp", "ssh"} => r \in Probes
    BY DEF Finished
  <2>2. r \in Probes /\ r.served # None => r.served \in Nat
    BY DEF Probes, Number
  <2> QED
    BY <1>0, <1>1, <2>1, <2>2 DEF IdStageAt, IdDatedAt
<1>2. probe[w] \in Probes \cup Finished
  BY DEF ProbeTypes
<1>3. ASSUME NEW v \in Workers, NEW r \in Probes \cup Finished, IdStageAt(r, board), Place(v, r)
      PROVE  IdStageAt(probe'[w], board')
  <2>1. probe'[w] = probe[w] \/ probe'[w] = r
    BY <1>3 DEF Place, ProbeTypes
  <2> QED
    BY <1>1, <1>2, <1>3, <2>1
<1>4. Idle \in Probes /\ IdStageAt(Idle, board)
  BY IdleSound DEF IdStageAt
<1>5. CASE UNCHANGED probe
  BY <1>1, <1>2, <1>5
<1>6. ASSUME NEW v \in Workers, Dispatch(v) PROVE IdStageAt(probe'[w], board')
  BY <1>3, <1>5, <1>6, IdBegin
<1>7. ASSUME NEW v \in Workers, Tcp(v) \/ ReadState(v) \/ ReadRegister(v)
      PROVE  IdStageAt(probe'[w], board')
  BY <1>3, <1>7, IdAdvance
<1>8. ASSUME NEW v \in Workers, Apply(v) PROVE IdStageAt(probe'[w], board')
  BY <1>3, <1>4, <1>8 DEF Apply, Place
<1>9. CASE Restart
  BY <1>1, <1>4, <1>9 DEF Restart
<1> QED
  BY <1>5, <1>6, <1>7, <1>8, <1>9, ProbeFrame

LEMMA IdsStep ==
    ASSUME PromptDrop, DiagnosisInv, IdsInv, [Next]_vars PROVE IdsInv'
<1>1. IdsServed'
  BY ServedStep DEF DiagnosisInv, IdsInv
<1>2. \A w \in Workers : IdStageAt(probe'[w], board')
  BY IdStagesStep DEF DiagnosisInv, IdsInv
<1>3. (diag # None => IdVerdict(diag))'
  <2> SUFFICES ASSUME diag' # None PROVE IdVerdict(diag')
    OBVIOUS
  <2>1. CASE Connect \/ Disconnect \/ Restart
    BY <2>1 DEF Connect, Disconnect, Restart
  <2>2. ASSUME NEW w \in Workers, Apply(w) PROVE IdVerdict(diag')
    BY <2>2 DEF Apply, Probing, IdsInv, IdStageAt
  <2> QED
    BY <2>1, <2>2, DiagnosisFrame DEF IdsInv
<1> QED
  BY <1>1, <1>2, <1>3 DEF IdsInv

LEMMA IdsInit == Init => IdsInv
<1> SUFFICES ASSUME Init PROVE IdsInv
  OBVIOUS
<1>1. \A w \in Workers : IdStageAt(probe[w], board)
  BY IdleSound DEF Init, IdStageAt
<1> QED
  BY <1>1 DEF Init, IdsInv, IdsServed

\* The boot id the gateway knows being the one the board reports proves that it
\* has not rebooted, although workers that read the id after a connection store
\* it at any time later, provided a lost board is noticed before it is back.
THEOREM SameIdMeansNoRebootHolds == ASSUME PromptDrop PROVE Spec => []SameIdMeansNoReboot
<1>1. DiagnosisInv /\ IdsInv /\ [Next]_vars => IdsInv'
  BY IdsStep
<1>2. IdsInv => SameIdMeansNoReboot
  BY DEF IdsInv, IdVerdict, SameIdMeansNoReboot
<1> QED
  BY <1>1, <1>2, IdsInit, InductiveInvariant, PTL DEF Spec
=============================================================================
