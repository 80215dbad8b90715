---------------------------- MODULE SessionProofs ----------------------------
(***************************************************************************)
(* Proofs about the life of a session, for any number of connections,      *)
(* reboots, boots of the board and waiting connect threads: one invariant  *)
(* for the connection, one for the reboot and its worker, and one for each *)
(* of the duties that are handed from thread to thread (polling, saving    *)
(* the boot id, keeping a wanted diagnosis scheduled); and, in the second  *)
(* part, about the stream that shows its status to any number of tabs.     *)
(***************************************************************************)
EXTENDS Session, Stream, SequenceTheorems, TLAPS

connVars == <<conVars, dialing, spawned, conns>>

\* The names of the threads differ.
LEMMA ThreadNames ==
    /\ Http \in Threads
    /\ \A w \in Ops : Reboot(w) \in Threads /\ Reboot(w) # Http
    /\ \A c \in Conns : Poll(c) \in Threads /\ Poll(c) # Http
    /\ \A v, w \in Ops : Reboot(v) = Reboot(w) => v = w
    /\ \A c \in Conns, w \in Ops : Poll(c) # Reboot(w)
<1>1. Http \in Threads
  BY DEF Threads
<1>2. \A w \in Ops : Reboot(w) \in Threads /\ Reboot(w) # Http
  BY DEF Threads, Reboot, Http
<1>3. \A c \in Conns : Poll(c) \in Threads /\ Poll(c) # Http
  BY DEF Threads, Poll, Http
<1>4. \A v, w \in Ops : Reboot(v) = Reboot(w) => v = w
  BY DEF Reboot
<1>5. \A c \in Conns, w \in Ops : Poll(c) # Reboot(w)
  BY DEF Reboot, Poll
<1> QED
  BY <1>1, <1>2, <1>3, <1>4, <1>5

-----------------------------------------------------------------------------
(* Who changes what.                                                       *)

LEMMA ConnectionFrame ==
    [Next]_vars =>
        \/ ConnectAsync \/ Restart \/ ConnectStep
        \/ \E t \in Threads : ResetLocked(t)
        \/ UNCHANGED connVars
BY DEF Next, vars, StartRebootUnsaved, RequestStep, RequestSwaps, RequestSavesCopy, RequestSavesHeld, OnlyTheStore,
       connVars, Disconnect, Delete, StartReboot, BoardReboots, TearStep, Settle,
       PollStep, PollCall, PollOk, PollFails, PollExit, BootIdStep, BootIdRead, BootIdStore,
       BootIdSave, ProbeStep, ProbeStart, ProbeResult, ProbeDone, RebootStep, RebootCancelled,
       RebootReads, RebootPhase, RebootPhaseUnsaved, RebootCommands, RebootSees, RebootFails

LEMMA TeardownFrame ==
    [Next]_vars =>
        \/ Disconnect \/ Delete \/ Restart
        \/ \E t \in Threads : TearStep(t)
        \/ \E c \in Conns : PollFails(c)
        \/ \E w \in Ops : RebootStep(w)
        \/ UNCHANGED tear
BY DEF Next, vars, StartRebootUnsaved, ConnectUnsaved, RequestStep, RequestSwaps, RequestSavesCopy, RequestSavesHeld, OnlyTheStore,
       ConnectAsync, StartReboot, BoardReboots, ConnectStep, ConnectRefused,
       ConnectBegin, ConnectUp, ConnectClears, ConnectStart, ConnectFails, ConnectFailed,
       PollStep, PollCall, PollOk, PollExit, BootIdStep, BootIdRead, BootIdStore, BootIdSave,
       ProbeStep, ProbeStart, ProbeResult, ProbeDone

LEMMA LoopFrame ==
    [Next]_vars =>
        \/ Restart \/ ConnectStart
        \/ \E c \in Conns : PollStep(c)
        \/ UNCHANGED loop
BY DEF Next, vars, StartRebootUnsaved, ConnectUnsaved, RequestStep, RequestSwaps, RequestSavesCopy, RequestSavesHeld, OnlyTheStore,
       ConnectAsync, Disconnect, Delete, StartReboot, BoardReboots, ConnectStep,
       ConnectRefused, ConnectBegin, ConnectUp, ConnectClears, ConnectFails, ConnectFailed,
       TearStep, ResetLocked, Settle, BootIdStep, BootIdRead, BootIdStore, BootIdSave,
       ProbeStep, ProbeStart, ProbeResult, ProbeDone, RebootStep, RebootCancelled,
       RebootReads, RebootPhase, RebootPhaseUnsaved, RebootCommands, RebootSees, RebootFails

LEMMA RecoveryFrame ==
    [Next]_vars =>
        \/ ConnectClears \/ ConnectUnsaved \/ Delete \/ Restart
        \/ StartReboot \/ StartRebootUnsaved
        \/ \E w \in Ops : RebootStep(w)
        \/ UNCHANGED recVars
BY DEF Next, vars, RequestStep, RequestSwaps, RequestSavesCopy, RequestSavesHeld, OnlyTheStore,
       ConnectAsync, Disconnect, BoardReboots, ConnectStep, ConnectRefused,
       ConnectBegin, ConnectUp, ConnectStart, ConnectFails, ConnectFailed, TearStep, ResetLocked,
       Settle, PollStep, PollCall, PollOk, PollFails, PollExit, BootIdStep, BootIdRead,
       BootIdStore, BootIdSave, ProbeStep, ProbeStart, ProbeResult, ProbeDone

LEMMA WorkerFrame ==
    [Next]_vars =>
        \/ Restart \/ StartReboot
        \/ \E w \in Ops : RebootStep(w)
        \/ UNCHANGED workers
BY DEF Next, vars, StartRebootUnsaved, ConnectUnsaved, RequestStep, RequestSwaps, RequestSavesCopy, RequestSavesHeld, OnlyTheStore,
       ConnectAsync, Disconnect, Delete, BoardReboots, ConnectStep, ConnectRefused,
       ConnectBegin, ConnectUp, ConnectClears, ConnectStart, ConnectFails, ConnectFailed,
       TearStep, ResetLocked, Settle, PollStep, PollCall, PollOk, PollFails, PollExit,
       BootIdStep, BootIdRead, BootIdStore, BootIdSave, ProbeStep, ProbeStart, ProbeResult,
       ProbeDone

LEMMA DiagnosisFrame ==
    [Next]_vars =>
        \/ ConnectClears \/ ConnectUnsaved \/ ConnectFailed \/ StartReboot \/ Restart \/ ProbeStep
        \/ \E t \in Threads : Settle(t)
        \/ UNCHANGED diagVars
BY DEF Next, vars, StartRebootUnsaved, RequestStep, RequestSwaps, RequestSavesCopy, RequestSavesHeld, OnlyTheStore,
       ConnectAsync, Disconnect, Delete, BoardReboots, ConnectStep, ConnectRefused,
       ConnectBegin, ConnectUp, ConnectStart, ConnectFails, TearStep, ResetLocked,
       PollStep, PollCall, PollOk, PollFails, PollExit, BootIdStep, BootIdRead,
       BootIdStore, BootIdSave, RebootStep, RebootCancelled,
       RebootReads, RebootPhase, RebootPhaseUnsaved, RebootCommands, RebootSees, RebootFails

LEMMA BootIdFrame ==
    [Next]_vars =>
        \/ ConnectClears \/ Restart
        \/ \E c \in Conns : BootIdStep(c)
        \/ UNCHANGED idVars
BY DEF Next, vars, bootVars, StartRebootUnsaved, ConnectUnsaved, RequestStep, RequestSwaps, RequestSavesCopy, RequestSavesHeld, OnlyTheStore,
       ConnectAsync, Disconnect, Delete, StartReboot, BoardReboots, ConnectStep,
       ConnectRefused, ConnectBegin, ConnectUp, ConnectStart, ConnectFails, ConnectFailed,
       TearStep, ResetLocked, Settle, PollStep, PollCall, PollOk, PollFails, PollExit,
       ProbeStep, ProbeStart, ProbeResult, ProbeDone, RebootStep, RebootCancelled,
       RebootReads, RebootPhase, RebootPhaseUnsaved, RebootCommands, RebootSees, RebootFails

LEMMA StoreFrame ==
    [Next]_vars =>
        \/ ConnectClears \/ ConnectUnsaved \/ Delete \/ Restart
        \/ StartReboot \/ StartRebootUnsaved \/ RequestStep
        \/ \E w \in Ops : RebootStep(w)
        \/ \E c \in Conns : BootIdStep(c)
        \/ UNCHANGED store
BY DEF Next, vars, bootVars, ConnectAsync, Disconnect, BoardReboots, ConnectStep,
       ConnectRefused, ConnectBegin, ConnectUp, ConnectStart, ConnectFails, ConnectFailed,
       TearStep, ResetLocked, Settle, PollStep, PollCall, PollOk, PollFails, PollExit,
       ProbeStep, ProbeStart, ProbeResult, ProbeDone

LEMMA OrphansFrame == [Next]_vars => StartRebootUnsaved \/ UNCHANGED orphans
BY DEF Next, vars, ConnectAsync, Disconnect, Delete, StartReboot, Restart, BoardReboots,
       ConnectStep, ConnectRefused, ConnectBegin, ConnectUp, ConnectClears, ConnectUnsaved,
       ConnectStart, ConnectFails, ConnectFailed, TearStep, ResetLocked, Settle, PollStep,
       PollCall, PollOk, PollFails, PollExit, BootIdStep, BootIdRead, BootIdStore, BootIdSave,
       ProbeStep, ProbeStart, ProbeResult, ProbeDone, RebootStep, RebootCancelled, RebootReads,
       RebootPhase, RebootPhaseUnsaved, RebootCommands, RebootSees, RebootFails,
       RequestStep, RequestSwaps, RequestSavesCopy, RequestSavesHeld, OnlyTheStore

LEMMA BootFrame ==
    [Next]_vars => \/ BoardReboots \/ \E w \in Ops : RebootCommands(w)
                   \/ UNCHANGED boot
BY DEF Next, vars, StartRebootUnsaved, ConnectUnsaved, RequestStep, RequestSwaps, RequestSavesCopy, RequestSavesHeld, OnlyTheStore,
       ConnectAsync, Disconnect, Delete, StartReboot, Restart, ConnectStep,
       ConnectRefused, ConnectBegin, ConnectUp, ConnectClears, ConnectStart, ConnectFails,
       ConnectFailed, TearStep, ResetLocked, Settle, PollStep, PollCall, PollOk, PollFails,
       PollExit, BootIdStep, BootIdRead, BootIdStore, BootIdSave, ProbeStep, ProbeStart,
       ProbeResult, ProbeDone, RebootStep, RebootCancelled, RebootReads, RebootPhase, RebootPhaseUnsaved,
       RebootSees, RebootFails

LEMMA HistoryFrame ==
    [Next]_vars =>
        \/ ConnectAsync \/ ConnectUp \/ Restart
        \/ \E t \in Threads : ResetLocked(t)
        \/ UNCHANGED history
BY DEF Next, vars, StartRebootUnsaved, ConnectUnsaved, RequestStep, RequestSwaps, RequestSavesCopy, RequestSavesHeld, OnlyTheStore,
       Disconnect, Delete, StartReboot, BoardReboots, ConnectStep, ConnectRefused,
       ConnectBegin, ConnectClears, ConnectStart, ConnectFails, ConnectFailed, TearStep,
       Settle, PollStep, PollCall, PollOk, PollFails, PollExit, BootIdStep, BootIdRead,
       BootIdStore, BootIdSave, ProbeStep, ProbeStart, ProbeResult, ProbeDone, RebootStep,
       RebootCancelled, RebootReads, RebootPhase, RebootPhaseUnsaved, RebootCommands, RebootSees, RebootFails

-----------------------------------------------------------------------------
(* Types, in the groups that change together.                              *)

ConnectionNumbers ==
    /\ client \in 0..conns /\ pollThread \in 0..conns
    /\ spawned \in 0..MaxSpawned /\ conns \in 0..MaxConns

ConnectionFlags ==
    /\ connected \in BOOLEAN /\ connecting \in BOOLEAN /\ stop \in BOOLEAN
    /\ dialing \in {"no", "dial", "clear", "raised", "start", "failed"}

ConnectionTypes == ConnectionNumbers /\ ConnectionFlags

TeardownTypes == tear \in [Threads -> {"none", "reset", "closing"}]

LoopTypes == loop \in [Conns -> {"off", "loop", "calling"}]

RecoveryTypes ==
    /\ recovery \in [op : Ops \cup {None}, phase : Phases]
    /\ cancel \in BOOLEAN /\ removed \in BOOLEAN /\ ops \in 0..MaxOps

WorkerTypes ==
    /\ stage \in [Ops -> {"off", "read", "dispatch", "command", "announce", "await", "complete",
                      "raised"}]
    /\ prevBoot \in [Ops -> Boots \cup {None}]

DiagnosisTypes ==
    /\ wants \in BOOLEAN /\ diagnosed \in BOOLEAN
    /\ probe \in {"idle", "due", "running", "done"}

BootIdTypes ==
    /\ lastBoot \in Boots \cup {None}
    /\ bootJob \in [Conns -> {"off", "reading", "read", "saving"}]
    /\ bootRead \in [Conns -> Boots \cup {None}]

StoreTypes ==
    /\ held \in Records /\ disk \in past /\ past \subseteq Records
    /\ stale \in BOOLEAN /\ orphans \subseteq Ops

HistoryTypes ==
    /\ served \subseteq Boots /\ told \subseteq Conns
    /\ intent \in {"none", "connect", "disconnect"}

LEMMA TypeParts ==
    /\ TypeOK <=> /\ ConnectionTypes /\ TeardownTypes /\ LoopTypes /\ RecoveryTypes
                  /\ WorkerTypes /\ DiagnosisTypes /\ boot \in Boots /\ BootIdTypes
                  /\ HistoryTypes /\ StoreTypes
    /\ TypeOK' <=> /\ ConnectionTypes' /\ TeardownTypes' /\ LoopTypes' /\ RecoveryTypes'
                   /\ WorkerTypes' /\ DiagnosisTypes' /\ boot' \in Boots /\ BootIdTypes'
                   /\ HistoryTypes' /\ StoreTypes'
<1>1. TypeOK <=> /\ ConnectionTypes /\ TeardownTypes /\ LoopTypes /\ RecoveryTypes
                 /\ WorkerTypes /\ DiagnosisTypes /\ boot \in Boots /\ BootIdTypes
                 /\ HistoryTypes /\ StoreTypes
  BY DEF TypeOK, ConnectionTypes, ConnectionNumbers, ConnectionFlags, TeardownTypes, LoopTypes, RecoveryTypes, WorkerTypes,
         DiagnosisTypes, BootIdTypes, HistoryTypes, StoreTypes, Phases
<1>2. TypeOK' <=> /\ ConnectionTypes' /\ TeardownTypes' /\ LoopTypes' /\ RecoveryTypes'
                  /\ WorkerTypes' /\ DiagnosisTypes' /\ boot' \in Boots /\ BootIdTypes'
                  /\ HistoryTypes' /\ StoreTypes'
  BY DEF TypeOK, ConnectionTypes, ConnectionNumbers, ConnectionFlags, TeardownTypes, LoopTypes, RecoveryTypes, WorkerTypes,
         DiagnosisTypes, BootIdTypes, HistoryTypes, StoreTypes, Phases
<1> QED
  BY <1>1, <1>2

LEMMA TypeInit == Init => TypeOK
<1> SUFFICES ASSUME Init PROVE TypeOK
  OBVIOUS
<1>1. ConnectionNumbers /\ ConnectionFlags
  <2>1. ConnectionNumbers
    BY BoundsAssumption DEF Init, ConnectionNumbers, None
  <2>2. ConnectionFlags
    BY DEF Init, ConnectionFlags
  <2> QED
    BY <2>1, <2>2
<1>2. TeardownTypes /\ LoopTypes
  BY DEF Init, TeardownTypes, LoopTypes
<1>3. RecoveryTypes
  <2>1. ops \in 0..MaxOps
    BY BoundsAssumption DEF Init
  <2>2. recovery \in [op : Ops \cup {None}, phase : Phases]
    BY DEF Init, Idle, Phases, Terminal
  <2> QED
    BY <2>1, <2>2 DEF Init, RecoveryTypes
<1>4. WorkerTypes /\ DiagnosisTypes
  BY DEF Init, WorkerTypes, DiagnosisTypes
<1>5. boot \in Boots /\ BootIdTypes
  BY BoundsAssumption DEF Init, Boots, BootIdTypes
<1>6. HistoryTypes
  BY DEF Init, HistoryTypes
<1>7. StoreTypes
  <2>1. Blank \in Records
    <3>1. Idle \in Endings
      BY DEF Idle, Endings, Terminal
    <3> QED
      BY <3>1 DEF Blank, Records
  <2> QED
    BY <2>1 DEF Init, StoreTypes
<1> QED
  BY <1>1, <1>2, <1>3, <1>4, <1>5, <1>6, <1>7, TypeParts DEF ConnectionTypes

LEMMA NumbersStep == ConnectionNumbers /\ [Next]_vars => ConnectionNumbers'
<1> SUFFICES ASSUME ConnectionNumbers, [Next]_vars PROVE ConnectionNumbers'
  OBVIOUS
<1> USE BoundsAssumption DEF ConnectionNumbers, conVars, None
<1>1. CASE ConnectAsync
  BY <1>1 DEF ConnectAsync
<1>2. CASE Restart
  BY <1>2 DEF Restart, Disconnected
<1>3. CASE ConnectRefused
  BY <1>3 DEF ConnectRefused
<1>4. CASE ConnectBegin
  BY <1>4 DEF ConnectBegin
<1>5. CASE ConnectUp
  BY <1>5 DEF ConnectUp
<1>6. CASE ConnectClears \/ ConnectUnsaved \/ ConnectStart \/ ConnectFailed
  BY <1>6 DEF ConnectClears, ConnectUnsaved, ConnectStart, ConnectFailed
<1>7. CASE ConnectFails
  BY <1>7 DEF ConnectFails, DropConnection, Disconnected
<1>8. ASSUME NEW t \in Threads, ResetLocked(t) PROVE ConnectionNumbers'
  BY <1>8 DEF ResetLocked, DropConnection, Disconnected
<1>9. CASE UNCHANGED connVars
  BY <1>9 DEF connVars
<1> QED
  BY <1>1, <1>2, <1>3, <1>4, <1>5, <1>6, <1>7, <1>8, <1>9, ConnectionFrame DEF ConnectStep

LEMMA FlagsStep == ConnectionFlags /\ [Next]_vars => ConnectionFlags'
<1> SUFFICES ASSUME ConnectionFlags, [Next]_vars PROVE ConnectionFlags'
  OBVIOUS
<1> USE DEF ConnectionFlags, conVars
<1>1. CASE ConnectAsync
  BY <1>1 DEF ConnectAsync
<1>2. CASE Restart
  BY <1>2 DEF Restart, Disconnected
<1>3. CASE ConnectRefused
  BY <1>3 DEF ConnectRefused
<1>4. CASE ConnectBegin
  BY <1>4 DEF ConnectBegin
<1>5. CASE ConnectUp
  BY <1>5 DEF ConnectUp
<1>6. CASE ConnectClears \/ ConnectUnsaved \/ ConnectStart \/ ConnectFailed
  BY <1>6 DEF ConnectClears, ConnectUnsaved, ConnectStart, ConnectFailed
<1>7. CASE ConnectFails
  BY <1>7 DEF ConnectFails, DropConnection, Disconnected
<1>8. ASSUME NEW t \in Threads, ResetLocked(t) PROVE ConnectionFlags'
  BY <1>8 DEF ResetLocked, DropConnection, Disconnected
<1>9. CASE UNCHANGED connVars
  BY <1>9 DEF connVars
<1> QED
  BY <1>1, <1>2, <1>3, <1>4, <1>5, <1>6, <1>7, <1>8, <1>9, ConnectionFrame DEF ConnectStep

LEMMA ConnectionStep == ConnectionTypes /\ [Next]_vars => ConnectionTypes'
BY NumbersStep, FlagsStep DEF ConnectionTypes

LEMMA TeardownStep == TeardownTypes /\ [Next]_vars => TeardownTypes'
<1> SUFFICES ASSUME TeardownTypes, [Next]_vars PROVE TeardownTypes'
  OBVIOUS
<1> USE DEF TeardownTypes
<1>1. CASE Disconnect \/ Delete \/ Restart
  BY <1>1 DEF Disconnect, Delete, Restart
<1>2. ASSUME NEW t \in Threads, TearStep(t) PROVE TeardownTypes'
  BY <1>2 DEF TearStep, ResetLocked, Settle
<1>3. ASSUME NEW c \in Conns, PollFails(c) PROVE TeardownTypes'
  BY <1>3 DEF PollFails
<1>4. ASSUME NEW w \in Ops, RebootStep(w) PROVE TeardownTypes'
  BY <1>4 DEF RebootStep, RebootCancelled, RebootReads, RebootPhase, RebootPhaseUnsaved, RebootCommands,
              RebootSees, RebootFails
<1> QED
  BY <1>1, <1>2, <1>3, <1>4, TeardownFrame

LEMMA LoopStep == LoopTypes /\ [Next]_vars => LoopTypes'
<1> SUFFICES ASSUME LoopTypes, [Next]_vars PROVE LoopTypes'
  OBVIOUS
<1>1. ASSUME NEW c \in Conns, PollStep(c) PROVE LoopTypes'
  BY <1>1 DEF LoopTypes, PollStep, PollCall, PollOk, PollFails, PollExit
<1>2. CASE Restart \/ ConnectStart
  BY <1>2 DEF LoopTypes, Restart, ConnectStart
<1> QED
  BY <1>1, <1>2, LoopFrame DEF LoopTypes

\* update_phase leaves a recovery record.
LEMMA PhaseTyped ==
    ASSUME RecoveryTypes, NEW w, NEW phase \in Phases, NEW saved, SetPhase(w, phase, saved)
    PROVE  recovery' \in [op : Ops \cup {None}, phase : Phases]
BY DEF RecoveryTypes, SetPhase

\* A worker either sets a phase or leaves the record and the store alone.
LEMMA WorkerSets ==
    ASSUME NEW w \in Ops, RebootStep(w)
    PROVE  /\ UNCHANGED <<cancel, removed, ops, orphans, idVars>>
           /\ \/ \E phase \in Phases, saved \in BOOLEAN : SetPhase(w, phase, saved)
              \/ UNCHANGED <<recovery, store>>
BY DEF RebootStep, RebootCancelled, RebootReads, RebootPhase, RebootPhaseUnsaved, RebootCommands,
       RebootSees, RebootFails, Phases, Terminal, recVars, bootVars

\* What start_reboot does whether its save goes through or not.
LEMMA RebootStarts ==
    StartReboot \/ StartRebootUnsaved =>
        /\ ~Active /\ ~removed /\ ~connecting /\ dialing = "no" /\ ops < MaxOps
        /\ ops' = ops + 1 /\ recovery' = [op |-> ops + 1, phase |-> "queued"]
        /\ UNCHANGED <<removed, connecting, dialing, tear>>
        /\ cancel' = cancel \/ cancel' = FALSE
        /\ stage' \in {stage, [stage EXCEPT ![ops + 1] = "read"]}
        /\ \/ orphans' = orphans
           \/ orphans' = orphans \cup {ops + 1} /\ stage' = stage
<1>1. ASSUME StartReboot
      PROVE  /\ ~Active /\ ~removed /\ ~connecting /\ dialing = "no" /\ ops < MaxOps
             /\ ops' = ops + 1 /\ recovery' = [op |-> ops + 1, phase |-> "queued"]
             /\ UNCHANGED <<removed, connecting, dialing, tear, orphans>>
             /\ cancel' = FALSE
             /\ stage' = [stage EXCEPT ![ops + 1] = "read"]
  BY <1>1 DEF StartReboot, HttpFree, LockFree, conVars
<1>2. ASSUME StartRebootUnsaved
      PROVE  /\ ~Active /\ ~removed /\ ~connecting /\ dialing = "no" /\ ops < MaxOps
             /\ ops' = ops + 1 /\ recovery' = [op |-> ops + 1, phase |-> "queued"]
             /\ UNCHANGED <<removed, connecting, dialing, tear, cancel, stage>>
             /\ orphans' = orphans \cup {ops + 1}
  BY <1>2 DEF StartRebootUnsaved, HttpFree, LockFree, conVars, workers
<1> QED
  BY <1>1, <1>2

\* What a connect does to the record, whether its saves go through or not.
LEMMA ConnectRecords ==
    ASSUME ConnectClears \/ ConnectUnsaved
    PROVE  /\ recovery' = ClearedRecovery /\ dialing = "clear"
           /\ dialing' \in {"start", "raised"} /\ ClearDiagnosis
           /\ UNCHANGED <<conVars, spawned, conns, tear, loop, cancel, removed, ops, workers,
                          boot, lastBoot, bootRead, orphans, history>>
<1>1. CASE ConnectClears
  BY <1>1 DEF ConnectClears
<1>2. CASE ConnectUnsaved
  BY <1>2 DEF ConnectUnsaved, idVars
<1> QED
  BY <1>1, <1>2

LEMMA RecoveryStep == RecoveryTypes /\ StoreTypes /\ [Next]_vars => RecoveryTypes'
<1> SUFFICES ASSUME RecoveryTypes, StoreTypes, [Next]_vars PROVE RecoveryTypes'
  OBVIOUS
<1> USE BoundsAssumption DEF recVars
<1>1. CASE ConnectClears \/ ConnectUnsaved
  BY <1>1, ConnectRecords DEF RecoveryTypes, ClearedRecovery, Idle, Phases, Terminal
<1>2. CASE Delete
  BY <1>2 DEF RecoveryTypes, Delete, CancelRecovery, Phases, Terminal
<1>3. CASE Restart
  <2>1. disk.rec \in Endings
    BY DEF StoreTypes, Records
  <2> QED
    BY <1>3, <2>1 DEF RecoveryTypes, Endings, Restart, Phases
<1>4. CASE StartReboot \/ StartRebootUnsaved
  <2>1. ops + 1 \in Ops /\ ops' = ops + 1 /\ ops' \in 0..MaxOps
    BY <1>4, RebootStarts DEF RecoveryTypes, Ops
  <2>2. recovery' \in [op : Ops \cup {None}, phase : Phases]
    BY <1>4, <2>1, RebootStarts DEF Phases
  <2>3. (cancel' = cancel \/ cancel' = FALSE) /\ removed' = removed
    BY <1>4, RebootStarts
  <2> QED
    BY <2>1, <2>2, <2>3 DEF RecoveryTypes
<1>5. ASSUME NEW w \in Ops, RebootStep(w) PROVE RecoveryTypes'
  BY <1>5, WorkerSets, PhaseTyped DEF RecoveryTypes
<1> QED
  BY <1>1, <1>2, <1>3, <1>4, <1>5, RecoveryFrame DEF RecoveryTypes

LEMMA WorkerStep == WorkerTypes /\ boot \in Boots /\ [Next]_vars => WorkerTypes'
<1> SUFFICES ASSUME WorkerTypes, boot \in Boots, [Next]_vars PROVE WorkerTypes'
  OBVIOUS
<1> USE DEF WorkerTypes, workers
<1>1. CASE Restart
  BY <1>1 DEF Restart
<1>2. CASE StartReboot
  BY <1>2 DEF StartReboot
<1>3. ASSUME NEW w \in Ops, RebootStep(w) PROVE WorkerTypes'
  BY <1>3 DEF RebootStep, RebootCancelled, RebootReads, RebootPhase, RebootPhaseUnsaved, RebootCommands,
              RebootSees, RebootFails
<1> QED
  BY <1>1, <1>2, <1>3, WorkerFrame

LEMMA DiagnosisStep == DiagnosisTypes /\ [Next]_vars => DiagnosisTypes'
<1> SUFFICES ASSUME DiagnosisTypes, [Next]_vars PROVE DiagnosisTypes'
  OBVIOUS
<1> USE DEF DiagnosisTypes, diagVars, RequestProbe, ClearDiagnosis
<1>1. CASE ConnectClears \/ ConnectUnsaved \/ ConnectFailed \/ StartReboot \/ Restart
  BY <1>1 DEF ConnectClears, ConnectUnsaved, ConnectFailed, StartReboot, Restart
<1>2. CASE ProbeStep
  <2>1. (diagnosed \/ (~connected /\ ~Active)) \in BOOLEAN
    OBVIOUS
  <2> QED
    BY <1>2, <2>1 DEF ProbeStep, ProbeStart, ProbeResult, ProbeDone
<1>3. ASSUME NEW t \in Threads, Settle(t) PROVE DiagnosisTypes'
  BY <1>3 DEF Settle
<1> QED
  BY <1>1, <1>2, <1>3, DiagnosisFrame

LEMMA BootStep == boot \in Boots /\ [Next]_vars => boot' \in Boots
<1>1. boot \in Boots /\ BoardReboots => boot' \in Boots
  BY BoundsAssumption DEF BoardReboots, Boots
<1>2. \A w \in Ops : RebootCommands(w) => boot' \in Boots
  BY DEF RebootCommands
<1> QED
  BY <1>1, <1>2, BootFrame

LEMMA BootIdsStep == BootIdTypes /\ StoreTypes /\ boot \in Boots /\ [Next]_vars => BootIdTypes'
<1> SUFFICES ASSUME BootIdTypes, StoreTypes, boot \in Boots, [Next]_vars PROVE BootIdTypes'
  OBVIOUS
<1> USE DEF BootIdTypes, idVars
<1>1. CASE ConnectClears
  BY <1>1 DEF ConnectClears
<1>2. CASE Restart
  BY <1>2 DEF Restart, ReadsDisk, StoreTypes, Records
<1>3. ASSUME NEW c \in Conns, BootIdStep(c) PROVE BootIdTypes'
  BY <1>3 DEF BootIdStep, BootIdRead, BootIdStore, BootIdSave
<1> QED
  BY <1>1, <1>2, <1>3, BootIdFrame

\* The recovery blocks that may come to be stored: those that are, that of a
\* session without a record, and the one the session is setting.
Storable == {r.rec : r \in past} \cup {held.rec, Idle, Reloaded(recovery')}

\* Whoever touches the store stores such blocks, or reads the file.
LEMMA PersistStores ==
    ASSUME StoreTypes, BootIdTypes, RecoveryTypes', NEW r, r = recovery', NEW saved \in BOOLEAN,
           PersistRecovery(r, saved)
    PROVE  \/ UNCHANGED store
           \/ \E h, d \in Records, lost \in BOOLEAN :
                 Stores(h, d, lost) /\ {h.rec, d.rec} \subseteq Storable
<1>1. CASE removed
  BY <1>1 DEF PersistRecovery
<1>2. CASE ~removed
  <2> DEFINE h == [held EXCEPT !.rec = Reloaded(r)]
  <2>1. Reloaded(r) \in Endings
    BY DEF RecoveryTypes, Reloaded, Endings, Phases, Terminal
  <2>2. h \in Records /\ h.rec = Reloaded(recovery')
    BY <2>1 DEF StoreTypes, Records
  <2>3. disk \in Records /\ disk.rec \in Storable
    BY DEF StoreTypes, Storable
  <2>4. Stores(h, IF saved THEN h ELSE disk, FALSE)
    BY <1>2 DEF PersistRecovery
  <2>5. {h.rec, (IF saved THEN h ELSE disk).rec} \subseteq Storable
    BY <2>2, <2>3 DEF Storable
  <2> QED
    BY <2>2, <2>3, <2>4, <2>5
<1> QED
  BY <1>1, <1>2

LEMMA StoreMoves ==
    ASSUME StoreTypes, BootIdTypes, RecoveryTypes', [Next]_vars
    PROVE  \/ Restart
           \/ UNCHANGED store
           \/ \E h, d \in Records, lost \in BOOLEAN :
                 Stores(h, d, lost) /\ {h.rec, d.rec} \subseteq Storable
<1> DEFINE Move == \E h, d \in Records, lost \in BOOLEAN :
                     Stores(h, d, lost) /\ {h.rec, d.rec} \subseteq Storable
<1>0. ASSUME NEW h \in Records, NEW d \in Records, NEW lost \in BOOLEAN, Stores(h, d, lost),
             h.rec \in Storable, d.rec \in Storable
      PROVE  Move
  BY <1>0
<1>a. /\ held \in Records /\ held.rec \in Storable
      /\ disk \in Records /\ disk.rec \in Storable
  BY DEF StoreTypes, Storable
<1>b. ASSUME NEW b \in Boots \cup {None}
      PROVE  [held EXCEPT !.boot = b] \in Records /\ [held EXCEPT !.boot = b].rec \in Storable
  BY <1>a DEF Records
<1>c. WithoutRecord \in Records /\ WithoutRecord.rec \in Storable
  <2>1. Idle \in Endings
    BY DEF Idle, Endings, Terminal
  <2> QED
    BY <1>a, <2>1 DEF WithoutRecord, Records, Storable
<1>d. ASSUME NEW b \in Boots \cup {None}
      PROVE  /\ [WithoutRecord EXCEPT !.boot = b] \in Records
             /\ [WithoutRecord EXCEPT !.boot = b].rec \in Storable
  BY <1>c DEF Records
<1>e. lastBoot \in Boots \cup {None}
  BY DEF BootIdTypes
<1> HIDE DEF Move
<1>1. ASSUME ConnectClears PROVE Move \/ UNCHANGED store
  BY <1>0, <1>1, <1>d, <1>e DEF ConnectClears
<1>2. ASSUME ConnectUnsaved PROVE Move
  <2>1. CASE Stores(WithoutRecord, disk, FALSE)
    BY <1>0, <1>a, <1>c, <2>1
  <2>2. CASE Stores([WithoutRecord EXCEPT !.boot = lastBoot], disk, FALSE)
    BY <1>0, <1>a, <1>d, <1>e, <2>2
  <2>3. CASE Stores([WithoutRecord EXCEPT !.boot = lastBoot], WithoutRecord, FALSE)
    BY <1>0, <1>c, <1>d, <1>e, <2>3
  <2> QED
    <3>1. \/ Stores(WithoutRecord, disk, FALSE)
          \/ Stores([WithoutRecord EXCEPT !.boot = lastBoot],
                    IF ClearedRecovery = recovery THEN disk ELSE WithoutRecord, FALSE)
      BY <1>2 DEF ConnectUnsaved
    <3>2. CASE ClearedRecovery = recovery
      BY <2>1, <2>2, <3>1, <3>2
    <3>3. CASE ClearedRecovery # recovery
      BY <2>1, <2>3, <3>1, <3>3
    <3> QED
      BY <3>2, <3>3
<1>3. ASSUME Delete \/ StartReboot \/ StartRebootUnsaved PROVE Move \/ UNCHANGED store
  BY <1>3, PersistStores DEF Delete, CancelRecovery, StartReboot, StartRebootUnsaved, Move
<1>4. ASSUME NEW w \in Ops, RebootStep(w) PROVE Move \/ UNCHANGED store
  <2>1. \/ \E saved \in BOOLEAN : PersistRecovery(recovery', saved)
        \/ UNCHANGED store
    BY <1>4, WorkerSets DEF SetPhase
  <2> QED
    BY <2>1, PersistStores DEF Move
<1>5. ASSUME NEW c \in Conns, BootIdStep(c) PROVE Move \/ UNCHANGED store
  <2>1. CASE BootIdSave(c) /\ ~removed
    BY <1>0, <1>a, <1>b, <1>e, <2>1 DEF BootIdSave
  <2>2. CASE ~(BootIdSave(c) /\ ~removed)
    BY <1>5, <2>2 DEF BootIdStep, BootIdRead, BootIdStore, BootIdSave
  <2> QED
    BY <2>1, <2>2
<1>6. ASSUME RequestStep PROVE Move
  <2>1. \A r \in past : r \in Records /\ r.rec \in Storable /\ (r.boot # lastBoot) \in BOOLEAN
    BY DEF StoreTypes, Storable
  <2>2. CASE RequestSwaps
    BY <1>0, <1>a, <2>1, <2>2 DEF RequestSwaps
  <2>3. CASE RequestSavesCopy
    BY <1>0, <1>a, <2>1, <2>3 DEF RequestSavesCopy
  <2>4. CASE RequestSavesHeld
    BY <1>0, <1>a, <2>4 DEF RequestSavesHeld
  <2> QED
    BY <1>6, <2>2, <2>3, <2>4 DEF RequestStep
<1> QED
  BY <1>1, <1>2, <1>3, <1>4, <1>5, <1>6, StoreFrame DEF Move

LEMMA OrphansStep == orphans \subseteq Ops /\ RecoveryTypes /\ [Next]_vars => orphans' \subseteq Ops
<1> SUFFICES ASSUME orphans \subseteq Ops, RecoveryTypes, [Next]_vars PROVE orphans' \subseteq Ops
  OBVIOUS
<1>1. CASE StartRebootUnsaved
  <2>1. ops + 1 \in Ops
    BY <1>1, BoundsAssumption DEF StartRebootUnsaved, RecoveryTypes, Ops
  <2> QED
    BY <1>1, <2>1 DEF StartRebootUnsaved
<1> QED
  BY <1>1, OrphansFrame

LEMMA StoreStep ==
    StoreTypes /\ BootIdTypes /\ RecoveryTypes /\ [Next]_vars => StoreTypes'
<1> SUFFICES ASSUME StoreTypes, BootIdTypes, RecoveryTypes, [Next]_vars PROVE StoreTypes'
  OBVIOUS
<1>0. orphans' \subseteq Ops
  BY OrphansStep DEF StoreTypes
<1>1. CASE Restart
  BY <1>0, <1>1 DEF Restart, ReadsDisk, StoreTypes
<1>2. CASE UNCHANGED store
  BY <1>0, <1>2 DEF store, StoreTypes
<1>3. ASSUME NEW h \in Records, NEW d \in Records, NEW lost \in BOOLEAN, Stores(h, d, lost)
      PROVE  StoreTypes'
  <2>1. stale' \in BOOLEAN
    BY <1>3 DEF Stores
  <2> QED
    BY <1>0, <1>3, <2>1 DEF Stores, StoreTypes
<1> QED
  BY <1>1, <1>2, <1>3, StoreMoves, RecoveryStep

LEMMA HistoryStep ==
    HistoryTypes /\ ConnectionTypes /\ boot \in Boots /\ [Next]_vars => HistoryTypes'
<1> SUFFICES ASSUME HistoryTypes, ConnectionTypes, boot \in Boots, [Next]_vars
             PROVE  HistoryTypes'
  OBVIOUS
<1> USE DEF HistoryTypes, history, Kept
<1>1. CASE ConnectAsync \/ ConnectUp \/ Restart
  BY <1>1 DEF ConnectAsync, ConnectUp, Restart
<1>2. ASSUME NEW t \in Threads, ResetLocked(t) PROVE HistoryTypes'
  <2>1. {pollThread} \ {None} \subseteq Conns
    BY BoundsAssumption DEF ConnectionTypes, ConnectionNumbers, Conns, None
  <2>2. told' \in {told, told \cup ({pollThread} \ {None})}
    BY <1>2 DEF ResetLocked
  <2>3. intent' \in {intent, "disconnect"} /\ served' = served
    BY <1>2 DEF ResetLocked
  <2> QED
    BY <2>1, <2>2, <2>3
<1> QED
  BY <1>1, <1>2, HistoryFrame

LEMMA TypeStep == TypeOK /\ [Next]_vars => TypeOK'
BY TypeParts, ConnectionStep, TeardownStep, LoopStep, RecoveryStep, WorkerStep, DiagnosisStep,
   BootStep, BootIdsStep, HistoryStep, StoreStep

\* Whatever threads, operators, boards and restarts do, the session refers
\* only to connections it has made, and every record keeps its shape.
THEOREM TypeCorrect == Spec => []TypeOK
<1> QED
  BY TypeInit, TypeStep, PTL DEF Spec

-----------------------------------------------------------------------------
(* The connection, and that a reboot and a connect exclude each other.     *)

\* The flags of the connection agree with each other and with the thread that
\* is connecting.
ConnectionInv ==
    /\ connected => client # None /\ ~connecting
    /\ client # None => connected
    /\ dialing \in {"clear", "raised", "start"} => connected
    /\ dialing \in {"dial", "failed"} => ~connected

ConnectInv == ConnectionInv /\ RecoveryExcludesConnecting /\ ConnectingHasThread

LEMMA ConnectInit == Init => ConnectInv
BY DEF Init, ConnectInv, ConnectionInv, RecoveryExcludesConnecting, ConnectingHasThread, Active,
       Idle, Terminal

\* Only start_reboot begins a recovery, and only the worker moves it on.
LEMMA ActiveStays ==
    ASSUME RecoveryTypes, StoreTypes, [Next]_vars, Active'
    PROVE  \/ StartReboot \/ StartRebootUnsaved
           \/ Active /\ UNCHANGED <<workers, recVars>>
           \/ Active /\ recovery'.op = recovery.op /\ \E w \in Ops : RebootStep(w)
<1>1. CASE ConnectClears \/ ConnectUnsaved
  BY <1>1, ConnectRecords DEF ClearedRecovery, Active, Idle, Terminal, recVars, workers
<1>2. CASE Delete
  BY <1>2 DEF Delete, CancelRecovery, Active, Terminal, RecoveryTypes
<1>3. CASE Restart
  <2>1. disk.rec \in Endings
    BY DEF StoreTypes, Records
  <2> QED
    BY <1>3, <2>1 DEF Restart, Active, Endings
<1>4. ASSUME NEW w \in Ops, RebootStep(w)
      PROVE  Active /\ recovery'.op = recovery.op
  BY <1>4, WorkerSets DEF SetPhase, Accepts, Active, RecoveryTypes
<1>5. CASE UNCHANGED recVars /\ UNCHANGED workers
  BY <1>5 DEF Active, recVars
<1> QED
  BY <1>1, <1>2, <1>3, <1>4, <1>5, RecoveryFrame, WorkerFrame

LEMMA ConnectionInvStep ==
    ConnectionTypes /\ ConnectionInv /\ [Next]_vars => ConnectionInv'
<1> SUFFICES ASSUME ConnectionTypes, ConnectionInv, [Next]_vars PROVE ConnectionInv'
  OBVIOUS
<1> USE DEF ConnectionInv, ConnectionTypes, ConnectionFlags, conVars
<1>1. CASE ConnectAsync
  BY <1>1 DEF ConnectAsync, LockFree
<1>2. CASE Restart
  BY <1>2 DEF Restart, Disconnected
<1>3. CASE ConnectRefused
  BY <1>3 DEF ConnectRefused, LockFree
<1>4. CASE ConnectBegin
  BY <1>4 DEF ConnectBegin, LockFree
<1>5. CASE ConnectUp
  <2>1. client' # None
    BY <1>5 DEF ConnectUp, ConnectionNumbers, None
  <2> QED
    BY <1>5, <2>1 DEF ConnectUp
<1>6. CASE ConnectClears \/ ConnectUnsaved \/ ConnectStart \/ ConnectFailed
  <2>1. CASE ConnectClears \/ ConnectUnsaved
    BY <2>1, ConnectRecords
  <2>2. CASE ConnectStart \/ ConnectFailed
    BY <2>2 DEF ConnectStart, ConnectFailed
  <2> QED
    BY <1>6, <2>1, <2>2
<1>7. CASE ConnectFails
  BY <1>7 DEF ConnectFails, DropConnection, Disconnected
<1>8. ASSUME NEW t \in Threads, ResetLocked(t) PROVE ConnectionInv'
  BY <1>8 DEF ResetLocked, DropConnection, Disconnected, LockFree
<1>9. CASE UNCHANGED connVars
  BY <1>9 DEF connVars
<1> QED
  BY <1>1, <1>2, <1>3, <1>4, <1>5, <1>6, <1>7, <1>8, <1>9, ConnectionFrame DEF ConnectStep

LEMMA ExclusionStep ==
    RecoveryTypes /\ StoreTypes /\ RecoveryExcludesConnecting /\ [Next]_vars
        => RecoveryExcludesConnecting'
<1> SUFFICES ASSUME RecoveryTypes, StoreTypes, RecoveryExcludesConnecting, [Next]_vars, Active'
             PROVE  ~connecting' /\ dialing' = "no"
  BY DEF RecoveryExcludesConnecting
<1>1. CASE StartReboot \/ StartRebootUnsaved
  BY <1>1, RebootStarts
<1>2. CASE ~(StartReboot \/ StartRebootUnsaved)
  <2> Active /\ ~connecting /\ dialing = "no"
    BY <1>2, ActiveStays DEF RecoveryExcludesConnecting
  <2>1. CASE ConnectAsync \/ Restart
    BY <2>1 DEF ConnectAsync, Restart, Disconnected
  <2>2. CASE ConnectStep
    BY <2>2 DEF ConnectStep, ConnectRefused, ConnectBegin, ConnectUp, ConnectClears, ConnectUnsaved, ConnectStart,
                ConnectFails, ConnectFailed
  <2>3. ASSUME NEW t \in Threads, ResetLocked(t) PROVE ~connecting' /\ dialing' = "no"
    BY <2>3 DEF ResetLocked, DropConnection, Disconnected
  <2>4. CASE UNCHANGED connVars
    BY <2>4 DEF connVars, conVars
  <2> QED
    BY <2>1, <2>2, <2>3, <2>4, ConnectionFrame
<1> QED
  BY <1>1, <1>2

LEMMA ReservationStep ==
    ConnectionTypes /\ ConnectionInv /\ ConnectingHasThread /\ [Next]_vars => ConnectingHasThread'
<1> SUFFICES ASSUME ConnectionTypes, ConnectionInv, ConnectingHasThread, [Next]_vars, connecting'
             PROVE  spawned' > 0 \/ dialing' = "dial"
  BY DEF ConnectingHasThread
<1> spawned \in Nat
  BY BoundsAssumption DEF ConnectionTypes, ConnectionNumbers
<1>1. CASE ConnectAsync
  BY <1>1 DEF ConnectAsync
<1>2. CASE ConnectBegin
  BY <1>2 DEF ConnectBegin
<1>3. CASE ConnectRefused
  BY <1>3 DEF ConnectRefused, ConnectionInv, conVars
<1>4. CASE ConnectUp \/ ConnectFails \/ Restart
  BY <1>4 DEF ConnectUp, ConnectFails, Restart, DropConnection, Disconnected
<1>5. CASE ConnectClears \/ ConnectUnsaved \/ ConnectStart
  BY <1>5 DEF ConnectClears, ConnectUnsaved, ConnectStart, ConnectionInv, conVars
<1>6. CASE ConnectFailed
  BY <1>6 DEF ConnectFailed, ConnectingHasThread, conVars
<1>7. ASSUME NEW t \in Threads, ResetLocked(t) PROVE FALSE
  BY <1>7 DEF ResetLocked, DropConnection, Disconnected
<1>8. CASE UNCHANGED connVars
  BY <1>8 DEF connVars, conVars, ConnectingHasThread
<1> QED
  BY <1>1, <1>2, <1>3, <1>4, <1>5, <1>6, <1>7, <1>8, ConnectionFrame DEF ConnectStep

LEMMA ConnectInvStep == TypeOK /\ ConnectInv /\ [Next]_vars => ConnectInv'
BY TypeParts, ConnectionInvStep, ExclusionStep, ReservationStep DEF ConnectInv

\* The checks that connect_async, connect and start_reboot make of each other
\* leave no gap: while a reboot is under way nobody is connecting.
THEOREM RecoveryExcludesConnectingHolds == Spec => []RecoveryExcludesConnecting
<1>1. TypeOK /\ ConnectInv => RecoveryExcludesConnecting
  BY DEF ConnectInv
<1> QED
  BY <1>1, TypeInit, TypeStep, ConnectInit, ConnectInvStep, PTL DEF Spec

\* A session that says it is connecting has a thread that will say how it went:
\* otherwise every later connect would return without doing anything.
THEOREM ConnectingHasThreadHolds == Spec => []ConnectingHasThread
<1>1. TypeOK /\ ConnectInv => ConnectingHasThread
  BY DEF ConnectInv
<1> QED
  BY <1>1, TypeInit, TypeStep, ConnectInit, ConnectInvStep, PTL DEF Spec

-----------------------------------------------------------------------------
(* A reboot and its worker.                                                *)

\* Where the worker of the running operation is, by the phase on record.  From
\* the teardown that "dispatching" starts, the session has no client.
WorkerInPhase ==
    LET w == recovery.op IN
    /\ recovery.phase = "queued" => stage[w] \in {"read", "dispatch"} /\ tear[Reboot(w)] = "none"
    /\ recovery.phase = "dispatching" =>
         /\ stage[w] \in {"command", "announce", "raised"}
         /\ stage[w] = "announce" => tear[Reboot(w)] # "reset"
         /\ stage[w] # "raised" /\ tear[Reboot(w)] # "reset" => client = None
    /\ recovery.phase = "waiting_for_boot" =>
         stage[w] \in {"await", "raised"} /\ tear[Reboot(w)] # "reset" /\ client = None
    /\ recovery.phase = "host_online" =>
         stage[w] \in {"complete", "raised"} /\ tear[Reboot(w)] # "reset" /\ client = None

\* A recovery block is that of one of the operations so far, or of none.
NumberedBy(r, n) == r.op \in 0..n /\ (r.op = None => r = Idle)

OperationsNumbered ==
    /\ NumberedBy(recovery, ops)
    /\ \A r \in past \cup {held} : NumberedBy(r.rec, ops)
    /\ \A w \in Ops : w > ops => /\ stage[w] = "off" /\ tear[Reboot(w)] = "none"
                               /\ w \notin orphans
    /\ \A w \in orphans : stage[w] = "off"

\* An operation whose first save raised stays queued and has no worker.
RunningIsAccepted ==
    Active => /\ ~removed
              /\ recovery.op \in orphans => recovery.phase = "queued"
              /\ recovery.op \notin orphans => ~cancel /\ WorkerInPhase

RebootInv == OperationsNumbered /\ RunningIsAccepted

LEMMA RebootInit == Init => RebootInv
<1> SUFFICES ASSUME Init PROVE RebootInv
  OBVIOUS
<1>1. ~Active
  BY DEF Init, Active, Idle, Terminal
<1>2. OperationsNumbered
  BY ThreadNames DEF Init, OperationsNumbered, NumberedBy, Blank, Idle, None
<1> QED
  BY <1>1, <1>2 DEF RebootInv, RunningIsAccepted

\* A worker's steps, as far as the record, the places and the teardowns go.
LEMMA WorkerSteps ==
    ASSUME NEW w \in Ops, RebootStep(w), RecoveryTypes, WorkerTypes, TeardownTypes
    PROVE  /\ recovery' = recovery \/ (Accepts(w) /\ recovery'.op = recovery.op)
           /\ UNCHANGED <<ops, cancel, removed, client>>
           /\ stage[w] # "off"
           /\ \A v \in Ops \ {w} : stage'[v] = stage[v] /\ tear'[Reboot(v)] = tear[Reboot(v)]
<1>1. stage[w] # "off"
  BY DEF RebootStep, RebootCancelled, RebootReads, RebootPhase, RebootPhaseUnsaved, RebootCommands, RebootSees,
         RebootFails, Runs
<1>2. UNCHANGED <<ops, cancel, removed, client>>
  BY DEF RebootStep, RebootCancelled, RebootReads, RebootPhase, RebootPhaseUnsaved, RebootCommands, RebootSees,
         RebootFails, recVars, conVars
<1>3. recovery' = recovery \/ (Accepts(w) /\ recovery'.op = recovery.op)
  BY WorkerSets DEF SetPhase, RecoveryTypes
<1>4. \A v \in Ops \ {w} : stage'[v] = stage[v]
  BY DEF RebootStep, RebootCancelled, RebootReads, RebootPhase, RebootPhaseUnsaved, RebootCommands, RebootSees,
         RebootFails, WorkerTypes
<1>5. \A v \in Ops \ {w} : tear'[Reboot(v)] = tear[Reboot(v)]
  <2>1. tear' = tear \/ \E s : tear' = [tear EXCEPT ![Reboot(w)] = s]
    BY DEF RebootStep, RebootCancelled, RebootReads, RebootPhase, RebootPhaseUnsaved, RebootCommands, RebootSees,
           RebootFails
  <2> QED
    BY <2>1, ThreadNames DEF TeardownTypes
<1> QED
  BY <1>1, <1>2, <1>3, <1>4, <1>5

\* Nobody but a worker puts a teardown of its own in order.
LEMMA WorkerTeardown ==
    ASSUME TeardownTypes, [Next]_vars, NEW w \in Ops, ~RebootStep(w)
    PROVE  \/ tear'[Reboot(w)] = tear[Reboot(w)]
           \/ tear[Reboot(w)] = "reset" /\ tear'[Reboot(w)] = "closing" /\ client' = None
           \/ tear'[Reboot(w)] = "none" /\ (tear[Reboot(w)] # "reset" \/ client' = None)
<1> USE ThreadNames DEF TeardownTypes
<1>1. CASE Disconnect \/ Delete
  BY <1>1 DEF Disconnect, Delete
<1>2. CASE Restart
  BY <1>2 DEF Restart, Disconnected
<1>3. ASSUME NEW t \in Threads, ResetLocked(t)
      PROVE  \/ tear'[Reboot(w)] = tear[Reboot(w)]
             \/ tear[Reboot(w)] = "reset" /\ tear'[Reboot(w)] = "closing" /\ client' = None
  BY <1>3 DEF ResetLocked, DropConnection, Disconnected
<1>4. ASSUME NEW t \in Threads, Settle(t)
      PROVE  \/ tear'[Reboot(w)] = tear[Reboot(w)]
             \/ tear'[Reboot(w)] = "none" /\ tear[Reboot(w)] # "reset"
  BY <1>4 DEF Settle
<1>5. ASSUME NEW c \in Conns, PollFails(c) PROVE tear'[Reboot(w)] = tear[Reboot(w)]
  BY <1>5 DEF PollFails
<1>6. ASSUME NEW v \in Ops, RebootStep(v) PROVE tear'[Reboot(w)] = tear[Reboot(w)]
  <2>1. v # w
    BY <1>6
  <2>2. tear' = tear \/ \E s : tear' = [tear EXCEPT ![Reboot(v)] = s]
    BY <1>6 DEF RebootStep, RebootCancelled, RebootReads, RebootPhase, RebootPhaseUnsaved, RebootCommands,
                RebootSees, RebootFails
  <2> QED
    BY <2>1, <2>2
<1> QED
  BY <1>1, <1>2, <1>3, <1>4, <1>5, <1>6, TeardownFrame DEF TearStep

LEMMA RecordsStep ==
    ASSUME TypeOK, TypeOK', OperationsNumbered, NumberedBy(recovery', ops'), ops \in Nat, ops' \in Nat,
           ops' >= ops, [Next]_vars
    PROVE  \A r \in past' \cup {held'} : NumberedBy(r.rec, ops')
<1> StoreTypes /\ BootIdTypes /\ RecoveryTypes'
  BY TypeParts
<1>0. ASSUME NEW x, NumberedBy(x, ops) PROVE NumberedBy(x, ops')
  BY <1>0 DEF NumberedBy
<1>1. \A x \in Storable : NumberedBy(x, ops')
  <2>1. NumberedBy(Idle, ops')
    BY DEF NumberedBy, Idle, None
  <2>2. NumberedBy(Reloaded(recovery'), ops')
    <3>1. CASE recovery'.phase \in Terminal
      BY <3>1 DEF Reloaded
    <3>2. CASE recovery'.phase \notin Terminal
      <4>1. recovery'.op # None /\ recovery'.op \in 0..ops'
        BY <3>2 DEF NumberedBy, Idle, Terminal
      <4>2. Reloaded(recovery').op = recovery'.op
        BY <3>2 DEF Reloaded, RecoveryTypes
      <4> QED
        BY <4>1, <4>2 DEF NumberedBy
    <3> QED
      BY <3>1, <3>2
  <2>3. \A r \in past \cup {held} : NumberedBy(r.rec, ops')
    BY <1>0 DEF OperationsNumbered
  <2> QED
    BY <2>1, <2>2, <2>3 DEF Storable
<1>2. CASE Restart \/ UNCHANGED store
  <2>1. past' \cup {held'} \subseteq past \cup {held}
    BY <1>2 DEF Restart, ReadsDisk, store, StoreTypes
  <2> QED
    BY <1>0, <2>1 DEF OperationsNumbered
<1>3. ASSUME NEW h \in Records, NEW d \in Records, NEW lost \in BOOLEAN, Stores(h, d, lost),
             {h.rec, d.rec} \subseteq Storable
      PROVE  \A r \in past' \cup {held'} : NumberedBy(r.rec, ops')
  <2>1. past' \cup {held'} = past \cup {h, d}
    BY <1>3 DEF Stores
  <2>2. \A r \in past : NumberedBy(r.rec, ops')
    BY <1>0 DEF OperationsNumbered
  <2> QED
    BY <1>1, <1>3, <2>1, <2>2
<1> QED
  BY <1>2, <1>3, StoreMoves

LEMMA OperationsStep ==
    TypeOK /\ OperationsNumbered /\ [Next]_vars => OperationsNumbered'
<1> SUFFICES ASSUME TypeOK, OperationsNumbered, [Next]_vars PROVE OperationsNumbered'
  OBVIOUS
<1> RecoveryTypes /\ WorkerTypes /\ TeardownTypes /\ StoreTypes
  BY TypeParts
<1> TypeOK'
  BY TypeStep
<1>0. ops \in Nat /\ ops' \in Nat
  BY BoundsAssumption, TypeParts DEF RecoveryTypes
<1> USE <1>0 DEF None
<1> DEFINE Places == /\ \A w \in Ops : w > ops' => /\ stage'[w] = "off" /\ tear'[Reboot(w)] = "none"
                                                  /\ w \notin orphans'
                     /\ \A w \in orphans' : stage'[w] = "off"
<1>q. ASSUME NumberedBy(recovery', ops'), ops' >= ops, Places PROVE OperationsNumbered'
  BY <1>q, RecordsStep DEF OperationsNumbered
<1> HIDE DEF Places
<1>1. CASE ConnectClears \/ ConnectUnsaved \/ Delete \/ Restart
  <2>1. UNCHANGED <<ops, orphans>>
    BY <1>1 DEF ConnectClears, ConnectUnsaved, Delete, Restart
  <2>2. NumberedBy(recovery', ops')
    <3>1. CASE ConnectClears \/ ConnectUnsaved
      BY <2>1, <3>1, ConnectRecords DEF ClearedRecovery, OperationsNumbered, NumberedBy, Idle
    <3>2. CASE Delete
      <4>1. CASE Active
        <5>1. recovery'.op = recovery.op /\ recovery.op # None
          BY <3>2, <4>1 DEF Delete, CancelRecovery, OperationsNumbered, NumberedBy, Idle, Active,
                            Terminal, RecoveryTypes
        <5> QED
          BY <2>1, <5>1 DEF OperationsNumbered, NumberedBy
      <4>2. CASE ~Active
        BY <2>1, <3>2, <4>2 DEF Delete, CancelRecovery, OperationsNumbered, NumberedBy
      <4> QED
        BY <4>1, <4>2
    <3>3. CASE Restart
      BY <2>1, <3>3 DEF Restart, OperationsNumbered, StoreTypes
    <3> QED
      BY <1>1, <3>1, <3>2, <3>3
  <2>3. \A w \in Ops : stage'[w] \in {"off", stage[w]}
    BY <1>1 DEF ConnectClears, ConnectUnsaved, Delete, Restart, workers
  <2>4. \A w \in Ops : tear'[Reboot(w)] \in {"none", tear[Reboot(w)]}
    BY <1>1, ThreadNames DEF ConnectClears, ConnectUnsaved, Delete, Restart, TeardownTypes
  <2>5. Places
    BY <2>1, <2>3, <2>4 DEF OperationsNumbered, Places, StoreTypes
  <2> QED
    BY <1>q, <2>1, <2>2, <2>5 DEF NumberedBy
<1>2. CASE StartReboot \/ StartRebootUnsaved
  <2>1. /\ ops' = ops + 1 /\ recovery'.op = ops + 1 /\ tear' = tear
        /\ \A w \in Ops \ {ops + 1} : stage'[w] = stage[w]
    BY <1>2, RebootStarts DEF WorkerTypes
  <2>2. /\ orphans' \subseteq orphans \cup {ops + 1}
        /\ ops + 1 \in orphans' => stage' = stage
    <3>1. ops + 1 \notin orphans
      BY DEF OperationsNumbered, StoreTypes
    <3> QED
      BY <1>2, <3>1, RebootStarts
  <2>3. Places
    <3>1. ASSUME NEW w \in Ops, w > ops'
          PROVE  stage'[w] = "off" /\ tear'[Reboot(w)] = "none" /\ w \notin orphans'
      <4>1. w > ops /\ w # ops + 1
        BY <2>1, <3>1 DEF Ops
      <4> QED
        BY <2>1, <2>2, <4>1 DEF OperationsNumbered
    <3>2. ASSUME NEW w \in orphans' PROVE stage'[w] = "off"
      <4>1. CASE w = ops + 1
        <5>1. stage' = stage
          BY <2>2, <3>2, <4>1
        <5>2. ops + 1 \in Ops
          BY <1>2, BoundsAssumption, RebootStarts DEF Ops
        <5> QED
          BY <4>1, <5>1, <5>2 DEF OperationsNumbered
      <4>2. CASE w # ops + 1
        BY <2>1, <2>2, <3>2, <4>2 DEF OperationsNumbered, StoreTypes
      <4> QED
        BY <4>1, <4>2
    <3> QED
      BY <3>1, <3>2 DEF Places
  <2>4. NumberedBy(recovery', ops')
    BY <2>1 DEF NumberedBy
  <2> QED
    BY <1>q, <2>1, <2>3, <2>4
<1>3. ASSUME NEW w \in Ops, RebootStep(w) PROVE OperationsNumbered'
  <2>1. w <= ops /\ w \notin orphans
    BY <1>3, WorkerSteps DEF OperationsNumbered, Ops
  <2>2. recovery' = recovery \/ (recovery'.op = recovery.op /\ recovery.op # None)
    <3>1. recovery' = recovery \/ (recovery.op = w /\ recovery'.op = recovery.op)
      <4>1. Accepts(w) => recovery.op = w
        BY DEF Accepts
      <4> QED
        BY <1>3, <4>1, WorkerSteps
    <3>2. w # None
      BY DEF Ops
    <3> QED
      BY <3>1, <3>2
  <2>3. NumberedBy(recovery', ops') /\ ops' = ops /\ orphans' = orphans
    BY <1>3, <2>2, WorkerSteps, WorkerSets DEF OperationsNumbered, NumberedBy
  <2>4. \A v \in Ops \ {w} : stage'[v] = stage[v] /\ tear'[Reboot(v)] = tear[Reboot(v)]
    BY <1>3, WorkerSteps
  <2>5. Places
    BY <2>1, <2>3, <2>4 DEF OperationsNumbered, Places, StoreTypes, Ops
  <2> QED
    BY <1>q, <2>3, <2>5
<1>4. CASE /\ UNCHANGED recVars /\ UNCHANGED workers /\ UNCHANGED orphans
           /\ ~ \E w \in Ops : RebootStep(w)
  <2>1. \A w \in Ops : w > ops => tear'[Reboot(w)] = "none"
    BY <1>4, WorkerTeardown DEF OperationsNumbered
  <2>2. Places
    BY <1>4, <2>1 DEF OperationsNumbered, Places, recVars, workers
  <2> QED
    BY <1>4, <1>q, <2>2 DEF OperationsNumbered, NumberedBy, recVars
<1> QED
  BY <1>1, <1>2, <1>3, <1>4, RecoveryFrame, WorkerFrame, OrphansFrame

\* While a recovery runs nobody connects.
LEMMA NoClientAppears ==
    ASSUME RecoveryExcludesConnecting, Active, [Next]_vars
    PROVE  client' \in {client, None}
<1> ~connecting /\ dialing = "no"
  BY DEF RecoveryExcludesConnecting
<1>1. CASE ConnectAsync \/ Restart
  BY <1>1 DEF ConnectAsync, Restart, Disconnected
<1>2. CASE ConnectStep
  BY <1>2 DEF ConnectStep, ConnectRefused, ConnectBegin, ConnectUp, ConnectClears, ConnectUnsaved,
              ConnectStart,               ConnectFails, ConnectFailed
<1>3. ASSUME NEW t \in Threads, ResetLocked(t) PROVE client' = None
  BY <1>3 DEF ResetLocked, DropConnection, Disconnected
<1>4. CASE UNCHANGED connVars
  BY <1>4 DEF connVars, conVars
<1> QED
  BY <1>1, <1>2, <1>3, <1>4, ConnectionFrame

LEMMA OwnStep ==
    ASSUME RecoveryTypes, WorkerTypes, TeardownTypes, NEW w \in Ops, RebootStep(w),
           recovery.op = w, Active, Active', ~cancel, ~removed, WorkerInPhase
    PROVE  WorkerInPhase'
<1> Reboot(w) \in Threads
  BY ThreadNames
<1> Accepts(w)
  BY DEF Accepts
<1>0. client' = client
  BY WorkerSteps
<1> USE DEF RecoveryTypes, WorkerTypes, TeardownTypes, WorkerInPhase, Runs
<1>s. ASSUME NEW phase, NEW saved, SetPhase(w, phase, saved)
      PROVE  recovery' = [recovery EXCEPT !.phase = phase]
  BY <1>s DEF SetPhase
<1>1. CASE RebootCancelled(w)
  BY <1>1 DEF RebootCancelled
<1>2. CASE RebootReads(w)
  BY <1>0, <1>2 DEF RebootReads, recVars, Active, Terminal, Phases
<1>3. CASE RebootPhase(w, "dispatch", "dispatching", "command")
  <2>1. recovery' = [recovery EXCEPT !.phase = "dispatching"]
    BY <1>s, <1>3 DEF RebootPhase
  <2> QED
    BY <1>0, <1>3, <2>1 DEF RebootPhase
<1>4. CASE RebootCommands(w)
  BY <1>0, <1>4 DEF RebootCommands, recVars, Active, Terminal, Phases
<1>5. CASE RebootPhase(w, "announce", "waiting_for_boot", "await")
  <2>1. recovery' = [recovery EXCEPT !.phase = "waiting_for_boot"]
    BY <1>s, <1>5 DEF RebootPhase
  <2> QED
    BY <1>0, <1>5, <2>1 DEF RebootPhase, Active, Terminal, Phases
<1>6. CASE RebootPhase(w, "await", "host_online", "complete")
  <2>1. recovery' = [recovery EXCEPT !.phase = "host_online"]
    BY <1>s, <1>6 DEF RebootPhase
  <2> QED
    BY <1>0, <1>6, <2>1 DEF RebootPhase, Active, Terminal, Phases
<1>7. CASE RebootPhase(w, "complete", "completed", "off")
  <2>1. recovery' = [recovery EXCEPT !.phase = "completed"]
    BY <1>s, <1>7 DEF RebootPhase
  <2> QED
    BY <2>1 DEF Active, Terminal
<1>8. CASE RebootFails(w)
  <2>1. recovery' = [recovery EXCEPT !.phase = "failed"]
    BY <1>s, <1>8 DEF RebootFails
  <2> QED
    BY <2>1 DEF Active, Terminal
<1>9. ASSUME NEW from, NEW phase, RebootPhaseUnsaved(w, from, phase),
             <<from, phase>> \in {<<"dispatch", "dispatching">>, <<"announce", "waiting_for_boot">>,
                                 <<"await", "host_online">>, <<"complete", "completed">>}
      PROVE  WorkerInPhase'
  <2>1. recovery' = [recovery EXCEPT !.phase = phase] /\ stage[w] = from
    BY <1>s, <1>9 DEF RebootPhaseUnsaved
  <2>2. stage' = [stage EXCEPT ![w] = "raised"] /\ tear' = tear
    BY <1>9 DEF RebootPhaseUnsaved
  <2>3. CASE from = "dispatch" /\ phase = "dispatching"
    BY <1>0, <2>1, <2>2, <2>3 DEF Active, Terminal, Phases
  <2>4. CASE from = "announce" /\ phase = "waiting_for_boot"
    BY <1>0, <2>1, <2>2, <2>4 DEF Active, Terminal, Phases
  <2>5. CASE from = "await" /\ phase = "host_online"
    BY <1>0, <2>1, <2>2, <2>5 DEF Active, Terminal, Phases
  <2>6. CASE phase = "completed"
    BY <2>1, <2>6 DEF Active, Terminal
  <2> QED
    BY <1>9, <2>3, <2>4, <2>5, <2>6
<1> QED
  BY <1>1, <1>2, <1>3, <1>4, <1>5, <1>6, <1>7, <1>8, <1>9 DEF RebootStep, RebootSees

LEMMA RunningStep ==
    TypeOK /\ RecoveryExcludesConnecting /\ RebootInv /\ [Next]_vars => RunningIsAccepted'
<1> SUFFICES ASSUME TypeOK, RecoveryExcludesConnecting, RebootInv, [Next]_vars, Active'
             PROVE  /\ ~removed'
                    /\ recovery'.op \in orphans' => recovery'.phase = "queued"
                    /\ recovery'.op \notin orphans' => ~cancel' /\ WorkerInPhase'
  BY DEF RunningIsAccepted
<1> RecoveryTypes /\ WorkerTypes /\ TeardownTypes /\ StoreTypes
  BY TypeParts
<1> ops \in Nat
  BY BoundsAssumption DEF RecoveryTypes
<1> USE DEF RebootInv
<1>1. CASE StartReboot
  <2>1. ops + 1 \in Ops /\ tear[Reboot(ops + 1)] = "none" /\ ops + 1 \notin orphans
    BY <1>1, BoundsAssumption DEF StartReboot, Ops, OperationsNumbered, RecoveryTypes
  <2>2. /\ ~cancel' /\ ~removed'
        /\ recovery'.op = ops + 1 /\ recovery'.phase = "queued"
        /\ stage'[ops + 1] = "read" /\ tear' = tear /\ orphans' = orphans
    BY <1>1, <2>1 DEF StartReboot, HttpFree, WorkerTypes
  <2> QED
    BY <2>1, <2>2 DEF WorkerInPhase
<1>2. CASE StartRebootUnsaved
  BY <1>2 DEF StartRebootUnsaved, HttpFree
<1>3. CASE /\ Active /\ recovery'.op = recovery.op /\ ~StartRebootUnsaved
           /\ (UNCHANGED <<workers, recVars>> \/ \E w \in Ops : RebootStep(w))
  <2> DEFINE op == recovery.op
  <2>0. /\ op \in Ops /\ ~removed
        /\ op \in orphans => recovery.phase = "queued"
        /\ op \notin orphans => ~cancel /\ WorkerInPhase
    BY <1>3 DEF RunningIsAccepted, OperationsNumbered, NumberedBy, RecoveryTypes, Active, Idle, Terminal
  <2>1. cancel' = cancel /\ ~removed' /\ orphans' = orphans
    BY <1>3, <2>0, WorkerSteps, OrphansFrame DEF recVars
  <2>2. CASE RebootStep(op) /\ op \notin orphans
    BY <1>3, <2>0, <2>1, <2>2, OwnStep
  <2>3. CASE ~RebootStep(op) /\ op \notin orphans
    <3>1. recovery' = recovery /\ stage'[op] = stage[op]
      BY <1>3, <2>0, <2>3, WorkerSteps DEF recVars, workers, Accepts
    <3>2. client' \in {client, None}
      BY <1>3, NoClientAppears
    <3>3. \/ tear'[Reboot(op)] = tear[Reboot(op)]
          \/ tear[Reboot(op)] = "reset" /\ tear'[Reboot(op)] = "closing" /\ client' = None
          \/ tear'[Reboot(op)] = "none" /\ (tear[Reboot(op)] # "reset" \/ client' = None)
      BY <2>0, <2>3, WorkerTeardown
    <3> QED
      BY <1>3, <2>0, <2>1, <2>3, <3>1, <3>2, <3>3 DEF WorkerInPhase
  <2>4. CASE op \in orphans
    <3>1. ~RebootStep(op)
      BY <2>0, <2>4, WorkerSteps DEF OperationsNumbered
    <3>2. recovery' = recovery
      BY <1>3, <2>0, <3>1, WorkerSteps DEF recVars, Accepts
    <3> QED
      BY <2>0, <2>1, <2>4, <3>2
  <2> QED
    BY <1>3, <2>1, <2>2, <2>3, <2>4
<1> QED
  BY <1>1, <1>2, <1>3, ActiveStays DEF recVars

\* What a session is to its connection and to its reboot.
SessionInv == TypeOK /\ ConnectInv /\ RebootInv

LEMMA SessionInit == Init => SessionInv
BY TypeInit, ConnectInit, RebootInit DEF SessionInv

LEMMA SessionStep == SessionInv /\ [Next]_vars => SessionInv'
<1> SUFFICES ASSUME SessionInv, [Next]_vars PROVE SessionInv'
  OBVIOUS
<1>1. TypeOK' /\ ConnectInv'
  BY TypeStep, ConnectInvStep DEF SessionInv
<1>2. OperationsNumbered'
  BY OperationsStep DEF SessionInv, RebootInv
<1>3. RunningIsAccepted'
  BY RunningStep DEF SessionInv, ConnectInv
<1> QED
  BY <1>1, <1>2, <1>3 DEF SessionInv, RebootInv

THEOREM InductiveInvariant == Spec => []SessionInv
<1> QED
  BY SessionInit, SessionStep, PTL DEF Spec

\* The phases of a recovery that is under way.
LEMMA ActivePhases ==
    ASSUME TypeOK, Active
    PROVE  recovery.phase \in {"queued", "dispatching", "waiting_for_boot", "host_online"}
BY TypeParts DEF RecoveryTypes, Active, Phases

\* From the moment the reboot command may have reached the board until the
\* operation is over the session holds no client of that board: the poll thread
\* is not left to find out.
THEOREM RebootingBoardHasNoClientHolds == Spec => []RebootingBoardHasNoClient
<1>1. SessionInv => RebootingBoardHasNoClient
  <2> SUFFICES ASSUME SessionInv, recovery.phase \in {"waiting_for_boot", "host_online"}
               PROVE  ~connected /\ client = None
    BY DEF RebootingBoardHasNoClient
  <2>1. WorkerInPhase
    BY DEF SessionInv, RebootInv, RunningIsAccepted, Active, Terminal
  <2>2. client = None
    BY <2>1 DEF WorkerInPhase
  <2> QED
    BY <2>2 DEF SessionInv, ConnectInv, ConnectionInv
<1> QED
  BY <1>1, InductiveInvariant, PTL

\* A reboot in progress has its worker, so it will not block the device for
\* good, unless the save that start_reboot begins with raised; a restart of the
\* gateway ends what it finds without one.
THEOREM ActiveHasWorkerHolds == Spec => []ActiveHasWorker
<1>1. SessionInv => ActiveHasWorker
  <2> SUFFICES ASSUME SessionInv, Active, recovery.op \notin orphans
               PROVE  recovery.op \in Ops /\ stage[recovery.op] # "off"
    BY DEF ActiveHasWorker
  <2>1. recovery.op \in Ops
    <3>1. recovery.op \in Ops \cup {None} /\ (recovery.op = None => recovery = Idle)
      BY TypeParts DEF SessionInv, RebootInv, OperationsNumbered, NumberedBy, RecoveryTypes
    <3> QED
      BY <3>1 DEF Active, Idle, Terminal
  <2>2. stage[recovery.op] # "off"
    BY ActivePhases DEF SessionInv, RebootInv, RunningIsAccepted, WorkerInPhase
  <2> QED
    BY <2>1, <2>2
<1> QED
  BY <1>1, InductiveInvariant, PTL

\* The next phase of an operation, or its end; or the file tells a restarted
\* gateway something else.
FollowsInOrder ==
    recovery' # recovery /\ recovery'.op = recovery.op =>
        \/ disk.rec # Reloaded(recovery) /\ recovery' = disk.rec
        \/ /\ Active
           /\ \/ recovery'.phase \in {"failed", "cancelled"}
              \/ \E i \in 1..4 : /\ recovery.phase = PhaseOrder[i]
                                 /\ recovery'.phase = PhaseOrder[i + 1]

Follows == /\ Active
           /\ \/ recovery'.phase \in {"failed", "cancelled"}
              \/ \E i \in 1..4 : /\ recovery.phase = PhaseOrder[i]
                                 /\ recovery'.phase = PhaseOrder[i + 1]

LEMMA PhasesFollow == SessionInv /\ [Next]_vars => FollowsInOrder
<1> SUFFICES ASSUME SessionInv, [Next]_vars, recovery' # recovery, recovery'.op = recovery.op,
                    disk.rec = Reloaded(recovery) \/ recovery' # disk.rec
             PROVE  Follows
  BY DEF FollowsInOrder, Follows
<1> RecoveryTypes /\ OperationsNumbered
  BY TypeParts DEF SessionInv, RebootInv
<1> ops \in Nat
  BY BoundsAssumption DEF RecoveryTypes
<1>1. CASE ConnectClears \/ ConnectUnsaved
  BY <1>1, ConnectRecords DEF ClearedRecovery, OperationsNumbered, NumberedBy, Idle
<1>2. CASE Delete
  BY <1>2 DEF Delete, CancelRecovery, RecoveryTypes, Follows
<1>3. CASE Restart
  <2>1. recovery' = Reloaded(recovery)
    BY <1>3 DEF Restart
  <2> QED
    BY <2>1 DEF Reloaded, RecoveryTypes, Active, Follows
<1>4. CASE StartReboot \/ StartRebootUnsaved
  <2>1. recovery'.op = ops + 1 /\ recovery.op <= ops
    BY <1>4, RebootStarts DEF OperationsNumbered, NumberedBy
  <2> QED
    BY <2>1 DEF OperationsNumbered, NumberedBy
<1>5. ASSUME NEW w \in Ops, RebootStep(w) PROVE Follows
  <2>0. Accepts(w) /\ w \notin orphans
    <3>1. stage[w] # "off"
      BY <1>5 DEF RebootStep, RebootCancelled, RebootReads, RebootPhase, RebootPhaseUnsaved,
                  RebootCommands, RebootSees, RebootFails, Runs
    <3> QED
      BY <1>5, <3>1, WorkerSets DEF SetPhase, OperationsNumbered
  <2>1. Active /\ recovery.op = w /\ WorkerInPhase
    BY <2>0 DEF Accepts, SessionInv, RebootInv, RunningIsAccepted
  <2>2. recovery.phase \in {"queued", "dispatching", "waiting_for_boot", "host_online"}
    BY <2>1, ActivePhases DEF SessionInv
  <2> DEFINE Sets(from, phase) == stage[w] = from /\ recovery'.phase = phase
  <2>3. ASSUME NEW from, NEW phase, NEW to,
               RebootPhase(w, from, phase, to) \/ RebootPhaseUnsaved(w, from, phase)
        PROVE  Sets(from, phase)
    BY <2>0, <2>3 DEF RebootPhase, RebootPhaseUnsaved, Runs, SetPhase, RecoveryTypes
  <2>4. CASE Sets("dispatch", "dispatching")
    <3>1. recovery.phase = PhaseOrder[1] /\ recovery'.phase = PhaseOrder[2]
      BY <2>1, <2>2, <2>4 DEF WorkerInPhase, PhaseOrder
    <3> QED
      BY <2>1, <3>1 DEF Follows
  <2>5. CASE Sets("announce", "waiting_for_boot")
    <3>1. recovery.phase = PhaseOrder[2] /\ recovery'.phase = PhaseOrder[3]
      BY <2>1, <2>2, <2>5 DEF WorkerInPhase, PhaseOrder
    <3> QED
      BY <2>1, <3>1 DEF Follows
  <2>6. CASE Sets("await", "host_online")
    <3>1. recovery.phase = PhaseOrder[3] /\ recovery'.phase = PhaseOrder[4]
      BY <2>1, <2>2, <2>6 DEF WorkerInPhase, PhaseOrder
    <3> QED
      BY <2>1, <3>1 DEF Follows
  <2>7. CASE Sets("complete", "completed")
    <3>1. recovery.phase = PhaseOrder[4] /\ recovery'.phase = PhaseOrder[5]
      BY <2>1, <2>2, <2>7 DEF WorkerInPhase, PhaseOrder
    <3> QED
      BY <2>1, <3>1 DEF Follows
  <2>8. CASE RebootFails(w)
    BY <2>0, <2>1, <2>8 DEF RebootFails, SetPhase, RecoveryTypes, Follows
  <2>9. CASE RebootCancelled(w) \/ RebootReads(w) \/ RebootCommands(w)
    BY <2>9 DEF RebootCancelled, RebootReads, RebootCommands, recVars
  <2> HIDE DEF Sets
  <2> QED
    BY <1>5, <2>3, <2>4, <2>5, <2>6, <2>7, <2>8, <2>9 DEF RebootStep, RebootSees
<1> QED
  BY <1>1, <1>2, <1>3, <1>4, <1>5, RecoveryFrame DEF recVars

\* No late worker of an older operation puts an operation back to an earlier
\* phase, or moves one that has ended, and a restart of the gateway does so only
\* if the file it starts from is behind.
THEOREM PhasesInOrderHolds == Spec => PhasesInOrder
<1>1. SessionInv /\ [Next]_vars => [FollowsInOrder]_vars
  BY PhasesFollow
<1>2. Spec => [][FollowsInOrder]_vars
  BY <1>1, InductiveInvariant, PTL DEF Spec
<1> QED
  BY <1>2 DEF PhasesInOrder, FollowsInOrder

-----------------------------------------------------------------------------
(* Duties that are handed from thread to thread.                           *)

LEMMA PollerStep ==
    TypeOK /\ ConnectionInv /\ LivePoller /\ [Next]_vars => LivePoller'
<1> SUFFICES ASSUME TypeOK, ConnectionInv, LivePoller, [Next]_vars, connected', dialing' = "no"
             PROVE  ~stop' /\ pollThread' = client' /\ loop'[client'] # "off"
  BY DEF LivePoller, LockFree
<1> ConnectionTypes /\ LoopTypes
  BY TypeParts
<1>0. client # None => client \in Conns
  BY BoundsAssumption DEF ConnectionTypes, ConnectionNumbers, Conns, None
<1>1. CASE ConnectStart
  <2>1. client \in Conns
    BY <1>0, <1>1 DEF ConnectStart, ConnectionInv
  <2> QED
    BY <1>1, <2>1 DEF ConnectStart, LoopTypes
<1>2. CASE Restart
  BY <1>2 DEF Restart, Disconnected
<1>3. CASE ConnectStep /\ ~ConnectStart
  <2>1. connected /\ dialing = "no" /\ UNCHANGED <<client, stop, pollThread, loop>>
    BY <1>3 DEF ConnectStep, ConnectRefused, ConnectBegin, ConnectUp, ConnectClears,
                ConnectUnsaved, ConnectFails, ConnectFailed, ConnectionInv, conVars, DropConnection, Disconnected
  <2> QED
    BY <2>1 DEF LivePoller, LockFree
<1>4. ASSUME NEW t \in Threads, ResetLocked(t) PROVE FALSE
  BY <1>4 DEF ResetLocked, DropConnection, Disconnected
<1>5. CASE (ConnectAsync \/ UNCHANGED connVars) /\ ~Restart /\ ~ConnectStart
  <2>1. connected /\ dialing = "no" /\ UNCHANGED <<client, stop, pollThread>>
    BY <1>5 DEF ConnectAsync, connVars, conVars
  <2>2. ~stop /\ pollThread = client /\ loop[client] # "off"
    BY <2>1 DEF LivePoller, LockFree
  <2>3. client \in Conns
    BY <1>0, <2>1 DEF ConnectionInv
  <2>4. loop'[client] # "off"
    <3>1. ASSUME NEW c \in Conns, PollStep(c) PROVE loop'[client] # "off"
      BY <2>2, <2>3, <3>1 DEF PollStep, PollCall, PollOk, PollFails, PollExit, LoopTypes
    <3> QED
      BY <1>5, <2>2, <3>1, LoopFrame
  <2> QED
    BY <2>1, <2>2, <2>4
<1> QED
  BY <1>1, <1>2, <1>3, <1>4, <1>5, ConnectionFrame

\* A connected session is polled by the thread it takes for its poller, and that
\* thread has no order to stop, whatever older poll threads are still about.
THEOREM LivePollerHolds == Spec => []LivePoller
<1>1. Init => LivePoller
  BY DEF Init, LivePoller
<1>2. SessionInv /\ LivePoller /\ [Next]_vars => LivePoller'
  BY PollerStep DEF SessionInv, ConnectInv
<1> QED
  BY <1>1, <1>2, InductiveInvariant, PTL DEF Spec

\* Unless an id is being saved or has been lost, memory, the session's Device
\* and the file agree on it.
BootIdKept ==
    ~removed /\ ~stale /\ (\A c \in Conns : bootJob[c] # "saving")
        => held.boot = lastBoot /\ disk.boot = lastBoot

LEMMA StoresKeeps ==
    ASSUME NEW h, NEW d, NEW lost, Stores(h, d, lost), ~stale', lastBoot' = lastBoot,
           ~stale /\ ~lost => h.boot = lastBoot /\ d.boot = lastBoot
    PROVE  held'.boot = lastBoot' /\ disk'.boot = lastBoot'
BY DEF Stores

LEMMA KeptStep == TypeOK /\ BootIdKept /\ [Next]_vars => BootIdKept'
<1> SUFFICES ASSUME TypeOK, BootIdKept, [Next]_vars, ~removed', ~stale',
                    \A c \in Conns : bootJob'[c] # "saving"
             PROVE  held'.boot = lastBoot' /\ disk'.boot = lastBoot'
  BY DEF BootIdKept
<1> BootIdTypes /\ StoreTypes /\ RecoveryTypes /\ RecoveryTypes'
  BY TypeParts, TypeStep
<1>0. ~removed
  BY RecoveryFrame, WorkerSets DEF ConnectClears, ConnectUnsaved, Delete, CancelRecovery, Restart,
     StartReboot, StartRebootUnsaved, HttpFree, recVars
<1>1. CASE ConnectClears
  <2>1. lastBoot' = lastBoot /\ WithoutRecord \in Records
    BY <1>1 DEF ConnectClears, WithoutRecord, StoreTypes, Records, Endings, Idle, Terminal
  <2>2. [WithoutRecord EXCEPT !.boot = lastBoot].boot = lastBoot
    BY <2>1 DEF Records
  <2> QED
    BY <1>0, <1>1, <2>1, <2>2, StoresKeeps DEF ConnectClears
<1>2. CASE Restart
  BY <1>2 DEF Restart, ReadsDisk
<1>3. ASSUME NEW c \in Conns, BootIdStore(c) PROVE held'.boot = lastBoot' /\ disk'.boot = lastBoot'
  <2>1. ~(connected /\ bootRead[c] # lastBoot)
    BY <1>3 DEF BootIdStore, BootIdTypes
  <2>2. UNCHANGED <<lastBoot, store>> /\ \A e \in Conns : bootJob[e] # "saving"
    BY <1>3, <2>1 DEF BootIdStore, BootIdTypes
  <2> QED
    BY <1>0, <2>2 DEF BootIdKept, store
<1>4. ASSUME NEW c \in Conns, BootIdSave(c) PROVE held'.boot = lastBoot' /\ disk'.boot = lastBoot'
  <2>1. [held EXCEPT !.boot = lastBoot].boot = lastBoot /\ lastBoot' = lastBoot
    BY <1>4 DEF BootIdSave, StoreTypes, Records
  <2> QED
    BY <1>0, <1>4, <2>1, StoresKeeps DEF BootIdSave
<1>5. CASE /\ ~ConnectClears /\ ~Restart
           /\ ~ \E c \in Conns : BootIdStore(c) \/ BootIdSave(c)
  <2>1. lastBoot' = lastBoot /\ \A c \in Conns : bootJob[c] # "saving"
    BY <1>5, BootIdFrame DEF BootIdStep, BootIdRead, idVars, BootIdTypes
  <2>2. ~stale => held.boot = lastBoot /\ disk.boot = lastBoot
    BY <1>0, <2>1 DEF BootIdKept
  <2>3. ASSUME NEW r, NEW saved, PersistRecovery(r, saved)
        PROVE  held'.boot = lastBoot' /\ disk'.boot = lastBoot'
    <3> DEFINE h == [held EXCEPT !.rec = Reloaded(r)]
    <3>1. h.boot = held.boot
      BY DEF StoreTypes, Records
    <3>2. Stores(h, IF saved THEN h ELSE disk, FALSE)
      BY <1>0, <2>3 DEF PersistRecovery
    <3> QED
      BY <2>1, <2>2, <3>1, <3>2, StoresKeeps
  <2>4. CASE UNCHANGED store
    BY <2>1, <2>2, <2>4 DEF store
  <2>5. CASE Delete \/ StartReboot \/ StartRebootUnsaved
    BY <2>3, <2>4, <2>5 DEF Delete, CancelRecovery, StartReboot, StartRebootUnsaved, store
  <2>6. ASSUME NEW w \in Ops, RebootStep(w)
        PROVE  held'.boot = lastBoot' /\ disk'.boot = lastBoot'
    BY <2>3, <2>4, <2>6, WorkerSets DEF SetPhase, store
  <2>7. CASE ConnectUnsaved
    <3> DEFINE h == [WithoutRecord EXCEPT !.boot = lastBoot]
    <3>1. WithoutRecord \in Records /\ WithoutRecord.boot = held.boot
      BY DEF WithoutRecord, StoreTypes, Records, Endings, Idle, Terminal
    <3>2. h.boot = lastBoot
      BY <3>1 DEF Records
    <3>3. \/ Stores(WithoutRecord, disk, FALSE)
          \/ Stores(h, disk, FALSE)
          \/ Stores(h, WithoutRecord, FALSE)
      BY <2>7 DEF ConnectUnsaved
    <3> HIDE DEF h
    <3> QED
      BY <2>1, <2>2, <3>1, <3>2, <3>3, StoresKeeps
  <2>8. CASE RequestStep
    <3>1. ASSUME NEW r \in past, Stores(r, disk, r.boot # lastBoot) \/ Stores(held, r, r.boot # lastBoot)
          PROVE  held'.boot = lastBoot' /\ disk'.boot = lastBoot'
      BY <2>1, <2>2, <3>1, StoresKeeps
    <3>2. ASSUME Stores(held, held, FALSE) PROVE held'.boot = lastBoot' /\ disk'.boot = lastBoot'
      BY <2>1, <2>2, <3>2, StoresKeeps
    <3> QED
      BY <2>8, <3>1, <3>2 DEF RequestStep, RequestSwaps, RequestSavesCopy, RequestSavesHeld
  <2>9. ASSUME NEW c \in Conns, BootIdRead(c) PROVE UNCHANGED store
    BY <2>9 DEF BootIdRead
  <2> QED
    BY <1>5, <2>4, <2>5, <2>6, <2>7, <2>8, <2>9, StoreFrame DEF BootIdStep
<1> QED
  BY <1>1, <1>2, <1>3, <1>4, <1>5

\* What the session knows of the board's boot is on disk or about to be, so a
\* restart of the gateway does not make it forget a boot it has noticed: only a
\* failed save, or a request that puts an older copy of the Device in the place
\* of the session's or of the file's, loses it.
THEOREM KnownBootIsSavedHolds == Spec => []KnownBootIsSaved
<1>1. Init => BootIdKept
  BY DEF Init, BootIdKept, Blank
<1>2. BootIdKept => KnownBootIsSaved
  BY DEF BootIdKept, KnownBootIsSaved
<1> QED
  BY <1>1, <1>2, KeptStep, TypeInit, TypeStep, PTL DEF Spec

\* A reboot that got its worker has cleared the wish for a diagnosis, and nobody
\* wishes for one while it runs.
Stuck == Active /\ recovery.op \in orphans

RecoveryWantsNone == Active /\ ~Stuck => ~wants

LEMMA WantsNoneStep ==
    TypeOK /\ ConnectInv /\ RebootInv /\ RecoveryWantsNone /\ [Next]_vars => RecoveryWantsNone'
<1> SUFFICES ASSUME TypeOK, RecoveryExcludesConnecting, RebootInv, RecoveryWantsNone, [Next]_vars,
                    Active', recovery'.op \notin orphans'
             PROVE  ~wants'
  BY DEF RecoveryWantsNone, ConnectInv, Stuck
<1>1. CASE StartReboot
  BY <1>1 DEF StartReboot, ClearDiagnosis
<1>2. CASE StartRebootUnsaved
  BY <1>2 DEF StartRebootUnsaved
<1>3. CASE Active /\ recovery'.op = recovery.op /\ ~StartRebootUnsaved
  <2> ~wants
    BY <1>3, OrphansFrame DEF RecoveryWantsNone, Stuck
  <2>1. CASE ConnectClears \/ ConnectUnsaved \/ StartReboot \/ Restart
    BY <2>1 DEF ConnectClears, ConnectUnsaved, StartReboot, Restart, ClearDiagnosis
  <2>2. CASE ConnectFailed
    BY <1>3, <2>2 DEF ConnectFailed, RecoveryExcludesConnecting
  <2>3. CASE ProbeStep
    BY <2>3 DEF ProbeStep, ProbeStart, ProbeResult, ProbeDone
  <2>4. ASSUME NEW t \in Threads, Settle(t) PROVE ~wants'
    BY <1>3, <2>4 DEF Settle, RequestProbe, ClearDiagnosis, diagVars
  <2> QED
    BY <2>1, <2>2, <2>3, <2>4, DiagnosisFrame DEF diagVars
<1> QED
  BY <1>1, <1>2, <1>3, ActiveStays, TypeParts DEF recVars

\* A poll thread inside a call is not tearing the session down.
CallersAreFree == \A c \in Conns : loop[c] = "calling" => tear[Poll(c)] = "none"

LEMMA CallersStep == TypeOK /\ CallersAreFree /\ [Next]_vars => CallersAreFree'
<1> SUFFICES ASSUME TypeOK, CallersAreFree, [Next]_vars, NEW c \in Conns, loop'[c] = "calling"
             PROVE  tear'[Poll(c)] = "none"
  BY DEF CallersAreFree
<1> LoopTypes /\ TeardownTypes
  BY TypeParts
<1>1. tear[Poll(c)] = "none" /\ ~PollFails(c)
  <2>1. CASE Restart \/ ConnectStart
    BY <2>1 DEF Restart, ConnectStart, PollFails, LoopTypes, CallersAreFree
  <2>2. ASSUME NEW d \in Conns, PollStep(d) PROVE tear[Poll(c)] = "none" /\ ~PollFails(c)
    BY <2>2 DEF PollStep, PollCall, PollOk, PollFails, PollExit, LoopTypes, CallersAreFree
  <2>3. CASE UNCHANGED loop
    BY <2>3 DEF CallersAreFree, PollFails, LoopTypes
  <2> QED
    BY <2>1, <2>2, <2>3, LoopFrame
<1> USE ThreadNames DEF TeardownTypes
<1>2. CASE Disconnect \/ Delete \/ Restart
  BY <1>1, <1>2 DEF Disconnect, Delete, Restart
<1>3. ASSUME NEW t \in Threads, TearStep(t) PROVE tear'[Poll(c)] = "none"
  BY <1>1, <1>3 DEF TearStep, ResetLocked, Settle
<1>4. ASSUME NEW d \in Conns, PollFails(d) PROVE tear'[Poll(c)] = "none"
  <2>1. Poll(c) # Poll(d)
    BY <1>1, <1>4 DEF Poll
  <2> QED
    BY <1>1, <1>4, <2>1 DEF PollFails
<1>5. ASSUME NEW w \in Ops, RebootStep(w) PROVE tear'[Poll(c)] = "none"
  <2>1. tear' = tear \/ \E s : tear' = [tear EXCEPT ![Reboot(w)] = s]
    BY <1>5 DEF RebootStep, RebootCancelled, RebootReads, RebootPhase, RebootPhaseUnsaved, RebootCommands,
                RebootSees, RebootFails
  <2> QED
    BY <1>1, <2>1
<1> QED
  BY <1>1, <1>2, <1>3, <1>4, <1>5, TeardownFrame

\* A section that changes neither the wish nor the probe leaves the duty as it
\* was, unless a reboot that got no worker ends, the device goes down, somebody who was about to decide has
\* decided, or the connecting thread leaves.
ScheduleKept ==
    /\ UNCHANGED <<wants, probe>>
    /\ Stuck => Stuck'
    /\ Down' => Down
    /\ removed => removed'
    /\ dialing' = "no" => dialing = "no"
    /\ \A t \in Threads : tear[t] = "closing" => tear'[t] = "closing"

LEMMA KeptIsScheduled ==
    ASSUME WantedIsScheduled, ScheduleKept
    PROVE  WantedIsScheduled'
<1> SUFFICES ASSUME wants', Down', ~removed', dialing' = "no", \A t \in Threads : tear'[t] # "closing"
             PROVE  probe' # "idle" \/ Stuck'
  BY DEF WantedIsScheduled, LockFree, Stuck
<1>1. wants /\ Down /\ ~removed /\ LockFree /\ probe' = probe
  BY DEF ScheduleKept, LockFree
<1>2. \A t \in Threads : tear[t] # "closing"
  BY DEF ScheduleKept
<1> QED
  BY <1>1, <1>2 DEF WantedIsScheduled, Stuck, ScheduleKept

\* Steps that concern none of this.
Aside == UNCHANGED <<conVars, dialing, tear, recVars, diagVars, orphans>>

LEMMA AsideKeeps == Aside => ScheduleKept
BY DEF Aside, conVars, recVars, diagVars, ScheduleKept, Down, Stuck, Active

\* A reboot without a worker is ended by nobody but a delete and a restart.
LEMMA StuckStays ==
    ASSUME TypeOK, RebootInv, [Next]_vars, Stuck, ~Delete, ~Restart
    PROVE  Stuck'
<1> RecoveryTypes /\ StoreTypes /\ WorkerTypes /\ TeardownTypes
  BY TypeParts
<1>1. orphans \subseteq orphans' /\ recovery.op \in Ops
  BY OrphansFrame DEF StartRebootUnsaved, Stuck, StoreTypes
<1>2. recovery' = recovery
  <2>1. CASE ConnectClears \/ ConnectUnsaved
    BY <2>1 DEF ConnectClears, ConnectUnsaved, ClearedRecovery, Stuck
  <2>2. CASE StartReboot \/ StartRebootUnsaved
    BY <2>2 DEF StartReboot, StartRebootUnsaved, Stuck
  <2>3. ASSUME NEW w \in Ops, RebootStep(w) PROVE recovery' = recovery
    BY <2>3, WorkerSteps DEF Accepts, Stuck, RebootInv, OperationsNumbered
  <2> QED
    BY <2>1, <2>2, <2>3, RecoveryFrame DEF recVars
<1> QED
  BY <1>1, <1>2 DEF Stuck, Active

LEMMA ScheduledStep ==
    TypeOK /\ ConnectInv /\ RebootInv /\ CallersAreFree /\ RecoveryWantsNone /\ WantedIsScheduled
        /\ [Next]_vars => WantedIsScheduled'
<1> SUFFICES ASSUME TypeOK, ConnectInv, RebootInv, CallersAreFree, RecoveryWantsNone,
                    WantedIsScheduled, [Next]_vars
             PROVE  WantedIsScheduled'
  OBVIOUS
<1> ConnectionTypes /\ TeardownTypes /\ DiagnosisTypes
  BY TypeParts
<1> USE DEF conVars, recVars, diagVars
<1>0. ~Delete /\ ~Restart => (Stuck => Stuck')
  BY StuckStays
<1>s. ASSUME Stuck' PROVE WantedIsScheduled'
  BY <1>s DEF Stuck, WantedIsScheduled
<1>1. CASE ConnectAsync
  BY <1>1, KeptIsScheduled DEF ConnectAsync, ScheduleKept, Down, Stuck, Active
<1>2. CASE Disconnect
  <2>1. \A t \in Threads : tear[t] = "closing" => tear'[t] = "closing"
    BY <1>2, ThreadNames DEF Disconnect, HttpFree, TeardownTypes
  <2> QED
    BY <1>2, <2>1, KeptIsScheduled DEF Disconnect, ScheduleKept, Down, Stuck, Active
<1>3. CASE Delete
  BY <1>3 DEF Delete, CancelRecovery, WantedIsScheduled
<1>4. CASE StartReboot \/ StartRebootUnsaved
  <2>1. CASE StartReboot
    BY <2>1 DEF StartReboot, ClearDiagnosis, WantedIsScheduled
  <2>2. CASE StartRebootUnsaved
    BY <1>s, <2>2 DEF StartRebootUnsaved, Stuck, Active, Terminal
  <2> QED
    BY <1>4, <2>1, <2>2
<1>5. CASE Restart
  BY <1>5 DEF Restart, WantedIsScheduled
<1>6. CASE BoardReboots
  BY <1>6, KeptIsScheduled DEF BoardReboots, ScheduleKept, Down, Stuck, Active
<1>7. CASE ConnectRefused
  <2>1. CASE Active
    BY <1>0, <1>s, <1>7, <2>1
       DEF ConnectRefused, RecoveryWantsNone, WantedIsScheduled, Stuck, Active
  <2>2. CASE ~Active
    BY <1>7, <2>2, KeptIsScheduled DEF ConnectRefused, ScheduleKept, Down, Stuck
  <2> QED
    BY <2>1, <2>2
<1>8. CASE ConnectBegin \/ ConnectUp
  BY <1>8 DEF ConnectBegin, ConnectUp, WantedIsScheduled, LockFree
<1>9. CASE ConnectClears \/ ConnectUnsaved
  BY <1>9 DEF ConnectClears, ConnectUnsaved, ClearDiagnosis, WantedIsScheduled
<1>10. CASE ConnectStart
  BY <1>10 DEF ConnectStart, ConnectInv, ConnectionInv, WantedIsScheduled, Down
<1>11. CASE ConnectFails
  BY <1>11 DEF ConnectFails, WantedIsScheduled, LockFree
<1>12. CASE ConnectFailed
  <2>1. ~Active
    BY <1>12 DEF ConnectFailed, ConnectInv, RecoveryExcludesConnecting
  <2> QED
    BY <1>12, <2>1 DEF ConnectFailed, RequestProbe, WantedIsScheduled
<1>13. ASSUME NEW t \in Threads, ResetLocked(t) PROVE WantedIsScheduled'
  <2>1. tear'[t] = "closing"
    BY <1>13 DEF ResetLocked, TeardownTypes
  <2> QED
    BY <2>1 DEF WantedIsScheduled
<1>14. ASSUME NEW t \in Threads, Settle(t) PROVE WantedIsScheduled'
  <2>1. CASE t[1] = "poll" /\ ~Active
    BY <1>14, <2>1 DEF Settle, RequestProbe, WantedIsScheduled
  <2>2. CASE t[1] = "poll" /\ Active
    BY <1>s, <1>14, <2>2 DEF Settle, RequestProbe, RecoveryWantsNone, WantedIsScheduled, Stuck,
                             Active
  <2>3. CASE t[1] # "poll"
    BY <1>14, <2>3 DEF Settle, ClearDiagnosis, WantedIsScheduled
  <2> QED
    BY <2>1, <2>2, <2>3
<1>15. ASSUME NEW c \in Conns, PollStep(c) PROVE WantedIsScheduled'
  <2>1. \A t \in Threads : tear[t] = "closing" => tear'[t] = "closing"
    <3>1. CASE PollFails(c)
      BY <3>1, ThreadNames DEF PollFails, TeardownTypes, CallersAreFree
    <3>2. CASE PollCall(c) \/ PollOk(c) \/ PollExit(c)
      BY <3>2 DEF PollCall, PollOk, PollExit
    <3> QED
      BY <1>15, <3>1, <3>2 DEF PollStep
  <2> QED
    BY <1>15, <2>1, KeptIsScheduled
       DEF PollStep, PollCall, PollOk, PollFails, PollExit, ScheduleKept, Down, Stuck,
           Active
<1>16. ASSUME NEW c \in Conns, BootIdStep(c) PROVE WantedIsScheduled'
  <2>1. Aside
    <3>1. CASE BootIdRead(c)
      BY <3>1 DEF BootIdRead, Aside
    <3>2. CASE BootIdStore(c)
      BY <3>2 DEF BootIdStore, Aside
    <3>3. CASE BootIdSave(c)
      BY <3>3 DEF BootIdSave, Aside
    <3> QED
      BY <1>16, <3>1, <3>2, <3>3 DEF BootIdStep
  <2> QED
    BY <2>1, AsideKeeps, KeptIsScheduled
<1>17. ASSUME NEW w \in Ops, RebootStep(w) PROVE WantedIsScheduled'
  <2>f. UNCHANGED <<conVars, dialing, removed, diagVars>>
    BY <1>17, WorkerSets DEF RebootStep, RebootCancelled, RebootReads, RebootPhase, RebootPhaseUnsaved,
           RebootCommands, RebootSees, RebootFails
  <2>0. Stuck => Stuck'
    BY <1>17, WorkerSteps, WorkerSets, TypeParts
       DEF Stuck, Active, Accepts, RebootInv, OperationsNumbered
  <2>1. \A t \in Threads : tear[t] = "closing" => tear'[t] = "closing"
    <3>1. tear' = tear \/ (tear[Reboot(w)] = "none" /\ tear' = [tear EXCEPT ![Reboot(w)] = tear'[Reboot(w)]])
      BY <1>17, ThreadNames DEF RebootStep, RebootCancelled, RebootReads, RebootPhase, RebootPhaseUnsaved, RebootCommands,
                   RebootSees, RebootFails, Runs, TeardownTypes
    <3> QED
      BY <3>1, ThreadNames DEF TeardownTypes
  <2> QED
    BY <2>f, <2>0, <2>1, KeptIsScheduled DEF ScheduleKept, Down
<1>18. CASE ProbeStep
  <2>1. CASE ProbeStart \/ ProbeResult
    BY <2>1 DEF ProbeStart, ProbeResult, WantedIsScheduled
  <2>2. CASE ProbeDone /\ (Down /\ wants /\ ~removed)
    BY <2>2 DEF ProbeDone, WantedIsScheduled
  <2>3. CASE ProbeDone /\ ~(Down /\ wants /\ ~removed)
    BY <2>3 DEF ProbeDone, WantedIsScheduled, Down
  <2> QED
    BY <1>18, <2>1, <2>2, <2>3 DEF ProbeStep
<1>19. CASE RequestStep
  <2>1. Aside
    BY <1>19 DEF RequestStep, RequestSwaps, RequestSavesCopy, RequestSavesHeld, OnlyTheStore, Aside
  <2> QED
    BY <2>1, AsideKeeps, KeptIsScheduled
<1>20. CASE UNCHANGED vars
  <2>1. Aside
    BY <1>20 DEF vars, Aside
  <2> QED
    BY <2>1, AsideKeeps, KeptIsScheduled
<1> QED
  BY <1>1, <1>2, <1>3, <1>4, <1>5, <1>6, <1>7, <1>8, <1>9, <1>10, <1>11, <1>12, <1>13, <1>14,
     <1>15, <1>16, <1>17, <1>18, <1>19, <1>20 DEF Next, ConnectStep, TearStep

\* A device that is down and wants a diagnosis stays scheduled for one, however
\* teardowns, probes, reboots and requests to connect overlap.
THEOREM WantedIsScheduledHolds == Spec => []WantedIsScheduled
<1> DEFINE Inv == CallersAreFree /\ RecoveryWantsNone /\ WantedIsScheduled
<1>1. Init => Inv
  BY DEF Init, CallersAreFree, RecoveryWantsNone, WantedIsScheduled, Active, Idle, Terminal
<1>2. SessionInv /\ Inv /\ [Next]_vars => Inv'
  BY CallersStep, WantsNoneStep, ScheduledStep DEF SessionInv, ConnectInv
<1>3. Inv => WantedIsScheduled
  OBVIOUS
<1> HIDE DEF Inv
<1> QED
  BY <1>1, <1>2, <1>3, InductiveInvariant, PTL DEF Spec

-----------------------------------------------------------------------------
(***************************************************************************)
(* The live stream: what the last status published, queued or in the       *)
(* hands of a sender is, by its place in the sequences of messages.        *)
(***************************************************************************)

\* The last status of the messages s is the n-th; there is none.
LastIs(s, n) ==
    \E i \in 1..Len(s) :
        /\ s[i].type = "status" /\ s[i].n = n
        /\ \A j \in 1..Len(s) : j > i => s[j].type # "status"
NoStatus(s) == \A i \in 1..Len(s) : s[i].type # "status"

Served(c) == socket[c] = "open" /\ registered[c] /\ dropping[c] = "no"

\* What the tab will show when nothing else is broadcast to it.
WillShow(c, n) ==
    \/ LastIs(queue[c], n)
    \/ /\ NoStatus(queue[c])
       /\ IF sender[c] = "sending" /\ sending[c].type = "status"
            THEN sending[c].n = n ELSE view[c] = n

\* A frame is there to be published, and who has a sender is registered.
Connections ==
    /\ peeked => frame >= 1
    /\ \A c \in Clients : sender[c] # "none" <=> registered[c]

\* Once nobody is publishing, the last status to be broadcast is the one that was
\* published last; or all have been broadcast, and each tab that is served will
\* come to show that one or, if it was given a snapshot since, the current one.
WillShowEither(c) == WillShow(c, value) \/ WillShow(c, published)

CurrentIsComing ==
    (\A w \in Writers : doing[w] = "idle") =>
        \/ LastIs(calls, published)
        \/ NoStatus(calls) /\ \A c \in Clients : Served(c) => WillShowEither(c)

Connected == StreamTypeOK /\ Connections /\ NoLostWakeup /\ OpenMeansServed
StreamInv == Connected /\ CurrentIsComing

-----------------------------------------------------------------------------
(* Messages and their order.                                               *)

LEMMA MsgTyped ==
    /\ \A n \in 0..MaxChanges : Status(n) \in Msgs
    /\ \A n \in 1..MaxFrames : Plot(n) \in Msgs
    /\ \A n : Status(n).type = "status" /\ Status(n).n = n /\ Plot(n).type = "plot"
    /\ \A msg \in Msgs : /\ msg.type \in {"status", "plot"}
                         /\ msg.type = "status" => msg.n \in 0..MaxChanges
                         /\ msg.type = "plot" => msg.n \in 1..MaxFrames
BY DEF Msgs, StatusMsgs, PlotMsgs, Status, Plot

LEMMA EmptyHasNone == NoStatus(<<>>) /\ \A n : ~LastIs(<<>>, n)
<1>1. 1..Len(<<>>) = {}
  BY EmptySeq
<1> QED
  BY <1>1 DEF NoStatus, LastIs

LEMMA StatusIsLast ==
    ASSUME NEW s \in Seq(Msgs), NEW msg \in Msgs, msg.type = "status"
    PROVE  LastIs(Append(s, msg), msg.n)
<1> DEFINE all == Append(s, msg)
<1>1. /\ Len(all) = Len(s) + 1 /\ Len(s) \in Nat /\ all[Len(s) + 1] = msg
  BY AppendProperties, LenProperties
<1> HIDE DEF all
<1>2. Len(s) + 1 \in 1..Len(all) /\ \A j \in 1..Len(all) : ~(j > Len(s) + 1)
  BY <1>1
<1> QED
  BY <1>1, <1>2 DEF LastIs, all

LEMMA FrameIsNone ==
    ASSUME NEW s \in Seq(Msgs), NEW msg \in Msgs, msg.type = "plot"
    PROVE  /\ \A n : LastIs(s, n) => LastIs(Append(s, msg), n)
           /\ NoStatus(s) => NoStatus(Append(s, msg))
<1> DEFINE all == Append(s, msg)
<1>1. /\ Len(all) = Len(s) + 1 /\ Len(s) \in Nat /\ all[Len(s) + 1] = msg
      /\ \A i \in 1..Len(s) : all[i] = s[i]
  BY AppendProperties, LenProperties
<1> HIDE DEF all
<1>2. \A n : LastIs(s, n) => LastIs(all, n)
  BY <1>1 DEF LastIs
<1>3. NoStatus(s) => NoStatus(all)
  BY <1>1 DEF NoStatus
<1> QED
  BY <1>2, <1>3 DEF all

LEMMA HeadGone ==
    ASSUME NEW s \in Seq(Msgs), s # <<>>
    PROVE  /\ Head(s) \in Msgs /\ Tail(s) \in Seq(Msgs) /\ Len(Tail(s)) <= Len(s)
           /\ \A n : LastIs(s, n) =>
                \/ LastIs(Tail(s), n)
                \/ Head(s).type = "status" /\ Head(s).n = n /\ NoStatus(Tail(s))
           /\ NoStatus(s) => Head(s).type # "status" /\ NoStatus(Tail(s))
<1> DEFINE rest == Tail(s)
<1>1. /\ Head(s) = s[1] /\ Head(s) \in Msgs /\ rest \in Seq(Msgs)
      /\ Len(rest) = Len(s) - 1 /\ Len(s) \in Nat /\ Len(s) >= 1
      /\ \A i \in 1..Len(rest) : rest[i] = s[i + 1]
  BY HeadTailProperties, LenProperties, EmptySeq
<1> HIDE DEF rest
<1>2. ASSUME NEW n, LastIs(s, n)
      PROVE  LastIs(rest, n) \/ (Head(s).type = "status" /\ Head(s).n = n /\ NoStatus(rest))
  <2>1. PICK i \in 1..Len(s) : /\ s[i].type = "status" /\ s[i].n = n
                               /\ \A j \in 1..Len(s) : j > i => s[j].type # "status"
    BY <1>2 DEF LastIs
  <2>2. CASE i = 1
    BY <1>1, <2>1, <2>2, SMTT(30) DEF NoStatus
  <2>3. CASE i # 1
    <3>1. i - 1 \in 1..Len(rest) /\ rest[i - 1] = s[i]
      BY <1>1, <2>3
    <3>2. \A j \in 1..Len(rest) : j > i - 1 => rest[j].type # "status"
      BY <1>1, <2>1
    <3> QED
      BY <2>1, <3>1, <3>2 DEF LastIs
  <2> QED
    BY <2>2, <2>3
<1>3. NoStatus(s) => Head(s).type # "status" /\ NoStatus(rest)
  BY <1>1 DEF NoStatus
<1> QED
  BY <1>1, <1>2, <1>3 DEF rest

LEMMA Appended ==
    ASSUME NEW s \in Seq(Msgs), NEW msg \in Msgs
    PROVE  /\ Append(s, msg) \in Seq(Msgs)
           /\ Len(Append(s, msg)) = Len(s) + 1 /\ Len(s) \in Nat
BY AppendProperties, LenProperties

LEMMA SnapshotIsCurrent ==
    ASSUME value \in 0..MaxChanges, frame \in 0..MaxFrames
    PROVE  Snapshot \in Seq(Msgs) /\ Len(Snapshot) <= 2 /\ LastIs(Snapshot, value)
<1>1. Status(value) \in Msgs
  BY MsgTyped
<1>2. ASSUME NEW s \in Seq(Msgs), Len(s) <= 1, Snapshot = Append(s, Status(value))
      PROVE  Snapshot \in Seq(Msgs) /\ Len(Snapshot) <= 2 /\ LastIs(Snapshot, value)
  <2>1. /\ Append(s, Status(value)) \in Seq(Msgs)
        /\ Len(Append(s, Status(value))) = Len(s) + 1 /\ Len(s) \in Nat
    BY <1>1, Appended
  <2>2. LastIs(Append(s, Status(value)), value)
    BY <1>1, StatusIsLast, MsgTyped
  <2>3. Len(Append(s, Status(value))) <= 2
    BY <1>2, <2>1
  <2> QED
    BY <1>2, <2>1, <2>2, <2>3
<1>3. CASE frame = Nothing
  <2>1. Snapshot = Append(<<>>, Status(value)) /\ <<>> \in Seq(Msgs) /\ Len(<<>>) <= 1
    BY <1>3, EmptySeq DEF Snapshot
  <2> QED
    BY <2>1, <1>2
<1>4. CASE frame # Nothing
  <2>1. Plot(frame) \in Msgs
    BY <1>4, MsgTyped, ConstantsAssumption DEF Nothing
  <2>2. <<Plot(frame)>> \in Seq(Msgs) /\ Len(<<Plot(frame)>>) <= 1
    BY <2>1
  <2>3. Snapshot = Append(<<Plot(frame)>>, Status(value))
    BY <1>4, <2>2 DEF Snapshot
  <2> QED
    BY <2>2, <2>3, <1>2
<1> QED
  BY <1>3, <1>4

-----------------------------------------------------------------------------
(* Types, and who has a sender.                                            *)

LEMMA PullTyped ==
    ASSUME StreamTypeOK, NEW c \in Clients, Pull(c)
    PROVE  /\ queue' \in [Clients -> Seq(Msgs)] /\ \A d \in Clients : Len(queue'[d]) <= QueueSize
           /\ slot' \in [Clients -> 0..MaxFrames] /\ sending' \in [Clients -> Msgs]
           /\ wake' \in [Clients -> BOOLEAN]
           /\ sender' \in [Clients -> {"none", "waiting", "sending"}]
           /\ sender'[c] # "none" /\ \A d \in Clients \ {c} : sender'[d] = sender[d]
<1> USE DEF StreamTypeOK
<1>1. CASE queue[c] # <<>>
  <2>1. Head(queue[c]) \in Msgs /\ Tail(queue[c]) \in Seq(Msgs) /\ Len(Tail(queue[c])) <= Len(queue[c])
        /\ Len(queue[c]) \in Nat /\ Len(Tail(queue[c])) \in Nat
    BY <1>1, HeadGone, LenProperties
  <2>2. /\ sending' = [sending EXCEPT ![c] = Head(queue[c])]
        /\ queue' = [queue EXCEPT ![c] = Tail(queue[c])]
        /\ sender' = [sender EXCEPT ![c] = "sending"] /\ slot' = slot /\ wake' = wake
    BY <1>1 DEF Pull
  <2>3. queue' \in [Clients -> Seq(Msgs)] /\ \A d \in Clients : Len(queue'[d]) <= QueueSize
    <3>1. Len(Tail(queue[c])) <= QueueSize
      BY <2>1, ConstantsAssumption
    <3>2. \A d \in Clients : queue'[d] = IF d = c THEN Tail(queue[c]) ELSE queue[d]
      BY <2>2
    <3>3. queue' \in [Clients -> Seq(Msgs)]
      BY <2>1, <2>2
    <3> QED
      BY <3>1, <3>2, <3>3
  <2>4. sending' \in [Clients -> Msgs]
    BY <2>1, <2>2
  <2> QED
    BY <2>2, <2>3, <2>4
<1>2. CASE queue[c] = <<>> /\ slot[c] # Nothing
  <2>1. Plot(slot[c]) \in Msgs
    BY <1>2, MsgTyped, ConstantsAssumption DEF Nothing
  <2>2. /\ sending' = [sending EXCEPT ![c] = Plot(slot[c])]
        /\ slot' = [slot EXCEPT ![c] = Nothing]
        /\ sender' = [sender EXCEPT ![c] = "sending"] /\ queue' = queue /\ wake' = wake
    BY <1>2 DEF Pull
  <2>3. slot' \in [Clients -> 0..MaxFrames]
    BY <2>2, ConstantsAssumption DEF Nothing
  <2>4. sending' \in [Clients -> Msgs]
    BY <2>1, <2>2
  <2> QED
    BY <2>2, <2>3, <2>4
<1>3. CASE queue[c] = <<>> /\ slot[c] = Nothing
  <2>1. Status(0) \in Msgs
    BY MsgTyped, ConstantsAssumption
  <2> QED
    BY <1>3, <2>1 DEF Pull
<1> QED
  BY <1>1, <1>2, <1>3

LEMMA ForgetTyped ==
    ASSUME StreamTypeOK, NEW c \in Clients, Forget(c)
    PROVE  /\ queue' \in [Clients -> Seq(Msgs)] /\ \A d \in Clients : Len(queue'[d]) <= QueueSize
           /\ slot' \in [Clients -> 0..MaxFrames] /\ sending' \in [Clients -> Msgs]
           /\ wake' \in [Clients -> BOOLEAN] /\ registered' \in [Clients -> BOOLEAN]
           /\ sender' \in [Clients -> {"none", "waiting", "sending"}]
           /\ ~registered'[c] /\ queue'[c] = <<>> /\ sender'[c] = "none"
           /\ \A d \in Clients \ {c} : /\ registered'[d] = registered[d] /\ sender'[d] = sender[d]
                                       /\ queue'[d] = queue[d] /\ slot'[d] = slot[d]
                                       /\ wake'[d] = wake[d] /\ sending'[d] = sending[d]
<1>1. Status(0) \in Msgs /\ <<>> \in Seq(Msgs) /\ Len(<<>>) = 0 /\ QueueSize \in Nat
      /\ Nothing \in 0..MaxFrames
  BY MsgTyped, EmptySeq, ConstantsAssumption DEF Nothing
<1> QED
  BY <1>1 DEF StreamTypeOK, Forget

LEMMA BroadcastTyped ==
    ASSUME StreamTypeOK, Broadcast
    PROVE  /\ calls' \in Seq(Msgs) /\ Head(calls) \in Msgs
           /\ queue' \in [Clients -> Seq(Msgs)] /\ \A d \in Clients : Len(queue'[d]) <= QueueSize
           /\ slot' \in [Clients -> 0..MaxFrames] /\ wake' \in [Clients -> BOOLEAN]
           /\ dropping' \in [Clients -> {"no", "due", "closing"}]
<1>1. calls' \in Seq(Msgs) /\ Head(calls) \in Msgs
  BY HeadGone DEF StreamTypeOK, Broadcast
<1> DEFINE msg == Head(calls)
<1>2. CASE BroadcastStatus(msg)
  <2>1. \A c \in Clients : /\ Append(queue[c], msg) \in Seq(Msgs)
                           /\ Len(Append(queue[c], msg)) = Len(queue[c]) + 1 /\ Len(queue[c]) \in Nat
    BY <1>1, AppendProperties, LenProperties DEF StreamTypeOK
  <2>2. slot' = slot
    BY <1>2 DEF BroadcastStatus
  <2>3. queue' \in [Clients -> Seq(Msgs)] /\ \A d \in Clients : Len(queue'[d]) <= QueueSize
    BY <1>2, <2>1, ConstantsAssumption DEF BroadcastStatus, StreamTypeOK
  <2>4. wake' \in [Clients -> BOOLEAN] /\ dropping' \in [Clients -> {"no", "due", "closing"}]
    BY <1>2 DEF BroadcastStatus, StreamTypeOK
  <2> QED
    BY <1>1, <2>2, <2>3, <2>4 DEF StreamTypeOK
<1>3. CASE BroadcastPlot(msg)
  <2>1. msg.n \in 1..MaxFrames /\ UNCHANGED <<queue, dropping>>
    BY <1>1, <1>3, MsgTyped DEF BroadcastPlot
  <2>2. slot' \in [Clients -> 0..MaxFrames]
    BY <1>3, <2>1, ConstantsAssumption DEF BroadcastPlot, StreamTypeOK
  <2>3. wake' \in [Clients -> BOOLEAN]
    BY <1>3 DEF BroadcastPlot, StreamTypeOK
  <2> QED
    BY <1>1, <2>1, <2>2, <2>3 DEF StreamTypeOK
<1> QED
  BY <1>2, <1>3 DEF Broadcast

LEMMA SessionTyped ==
    ASSUME StreamTypeOK, Connections,
           \/ \E w \in Writers : Write(w)
           \/ BuildFrame \/ PublishFrame
    PROVE  StreamTypeOK' /\ Connections'
<1>1. ASSUME NEW w \in Writers, Change(w) PROVE StreamTypeOK' /\ Connections'
  <2>1. value + 1 \in 0..MaxChanges
    BY <1>1, ConstantsAssumption DEF Change, StreamTypeOK
  <2> QED
    BY <1>1, <2>1 DEF Change, StreamTypeOK, Connections, conn
<1>2. ASSUME NEW w \in Writers, ComputeStatus(w) PROVE StreamTypeOK' /\ Connections'
  BY <1>2 DEF ComputeStatus, StatusFields, StreamTypeOK, Connections, conn
<1>3. ASSUME NEW w \in Writers, PublishStatus(w) PROVE StreamTypeOK' /\ Connections'
  <2>1. Append(calls, Status(computed[w])) \in Seq(Msgs) /\ 0 \in 0..MaxChanges
    <3>1. Status(computed[w]) \in Msgs
      BY MsgTyped DEF StreamTypeOK
    <3> QED
      BY <3>1, Appended, ConstantsAssumption DEF StreamTypeOK
  <2> QED
    BY <1>3, <2>1 DEF PublishStatus, StreamTypeOK, Connections, conn
<1>4. CASE BuildFrame
  <2>1. frame + 1 \in 0..MaxFrames /\ frame + 1 >= 1
    BY <1>4, ConstantsAssumption DEF BuildFrame, Subscribed, StreamTypeOK
  <2>2. peeked' \in BOOLEAN
    BY <1>4, Zenon DEF BuildFrame, Subscribed
  <2> QED
    BY <1>4, <2>1, <2>2 DEF BuildFrame, StreamTypeOK, Connections, conn
<1>5. CASE PublishFrame
  <2>1. Append(calls, Plot(frame)) \in Seq(Msgs)
    <3>1. frame \in 1..MaxFrames
      BY <1>5, ConstantsAssumption DEF PublishFrame, StreamTypeOK, Connections
    <3> QED
      BY <3>1, MsgTyped, AppendProperties DEF StreamTypeOK
  <2> QED
    BY <1>5, <2>1 DEF PublishFrame, StreamTypeOK, Connections, conn
<1> QED
  BY <1>1, <1>2, <1>3, <1>4, <1>5 DEF Write

LEMMA LoopTyped ==
    ASSUME StreamTypeOK, Connections,
           Broadcast \/ \E c \in Clients : Open(c) \/ Send(c) \/ Release(c) \/ Leave(c)
    PROVE  StreamTypeOK' /\ Connections'
<1>1. CASE Broadcast
  <2>1. UNCHANGED <<session, registered, sender, sending, socket, view, faults>>
    BY <1>1 DEF Broadcast
  <2> QED
    BY <1>1, <2>1, BroadcastTyped DEF StreamTypeOK, Connections, session
<1>2. ASSUME NEW c \in Clients, Reconnect(c) PROVE StreamTypeOK' /\ Connections'
  BY <1>2 DEF Reconnect, StreamTypeOK, Connections, session, conn
<1>3. ASSUME NEW c \in Clients, Handshake(c) PROVE StreamTypeOK' /\ Connections'
  <2>1. Snapshot \in Seq(Msgs) /\ Len(Snapshot) <= QueueSize
    <3>1. Snapshot \in Seq(Msgs) /\ Len(Snapshot) <= 2 /\ Len(Snapshot) \in Nat
      BY SnapshotIsCurrent, LenProperties DEF StreamTypeOK
    <3> QED
      BY <3>1, ConstantsAssumption
  <2> QED
    BY <1>3, <2>1 DEF Handshake, Register, SendInitial, StreamTypeOK, Connections, session
<1>4. ASSUME NEW c \in Clients, WakeUp(c) PROVE StreamTypeOK' /\ Connections'
  BY <1>4, PullTyped DEF WakeUp, StreamTypeOK, Connections, session
<1>5. ASSUME NEW c \in Clients, Deliver(c) PROVE StreamTypeOK' /\ Connections'
  <2>1. view' \in [Clients -> 0..MaxChanges]
    BY <1>5, MsgTyped DEF Deliver, StreamTypeOK
  <2>2. /\ Pull(c) /\ UNCHANGED <<session, calls, registered, socket, dropping, faults>>
        /\ sender[c] # "none"
    BY <1>5 DEF Deliver
  <2>3. /\ queue' \in [Clients -> Seq(Msgs)] /\ \A d \in Clients : Len(queue'[d]) <= QueueSize
        /\ slot' \in [Clients -> 0..MaxFrames] /\ sending' \in [Clients -> Msgs]
        /\ wake' \in [Clients -> BOOLEAN]
        /\ sender' \in [Clients -> {"none", "waiting", "sending"}]
        /\ sender'[c] # "none" /\ \A d \in Clients \ {c} : sender'[d] = sender[d]
    BY <2>2, PullTyped
  <2>4. StreamTypeOK'
    BY <2>1, <2>2, <2>3 DEF StreamTypeOK, session
  <2> QED
    BY <2>2, <2>3, <2>4 DEF Connections, session
<1>6. ASSUME NEW c \in Clients, SendFails(c) PROVE StreamTypeOK' /\ Connections'
  <2>1. faults' \in 0..MaxFaults
    BY <1>6, ConstantsAssumption DEF SendFails, StreamTypeOK
  <2>2. /\ Forget(c) /\ UNCHANGED <<session, calls, socket, view>>
        /\ dropping' = [dropping EXCEPT ![c] = "closing"]
    BY <1>6 DEF SendFails
  <2>3. /\ queue' \in [Clients -> Seq(Msgs)] /\ \A d \in Clients : Len(queue'[d]) <= QueueSize
        /\ slot' \in [Clients -> 0..MaxFrames] /\ sending' \in [Clients -> Msgs]
        /\ wake' \in [Clients -> BOOLEAN] /\ registered' \in [Clients -> BOOLEAN]
        /\ sender' \in [Clients -> {"none", "waiting", "sending"}]
        /\ ~registered'[c] /\ sender'[c] = "none"
        /\ \A d \in Clients \ {c} : registered'[d] = registered[d] /\ sender'[d] = sender[d]
    BY <2>2, ForgetTyped
  <2>4. StreamTypeOK'
    BY <2>1, <2>2, <2>3 DEF StreamTypeOK, session
  <2> QED
    BY <2>2, <2>3, <2>4 DEF Connections, session
<1>7. ASSUME NEW c \in Clients, Drop(c) \/ EndpointEnds(c) PROVE StreamTypeOK' /\ Connections'
  <2>1. dropping' \in [Clients -> {"no", "due", "closing"}]
    BY <1>7 DEF Drop, EndpointEnds, StreamTypeOK
  <2>2. Forget(c) /\ UNCHANGED <<session, calls, socket, view, faults>>
    BY <1>7 DEF Drop, EndpointEnds
  <2>3. /\ queue' \in [Clients -> Seq(Msgs)] /\ \A d \in Clients : Len(queue'[d]) <= QueueSize
        /\ slot' \in [Clients -> 0..MaxFrames] /\ sending' \in [Clients -> Msgs]
        /\ wake' \in [Clients -> BOOLEAN] /\ registered' \in [Clients -> BOOLEAN]
        /\ sender' \in [Clients -> {"none", "waiting", "sending"}]
        /\ ~registered'[c] /\ sender'[c] = "none"
        /\ \A d \in Clients \ {c} : registered'[d] = registered[d] /\ sender'[d] = sender[d]
    BY <2>2, ForgetTyped
  <2>4. StreamTypeOK'
    BY <2>1, <2>2, <2>3 DEF StreamTypeOK, session
  <2> QED
    BY <2>2, <2>3, <2>4 DEF Connections, session
<1>8. ASSUME NEW c \in Clients, CloseSocket(c) PROVE StreamTypeOK' /\ Connections'
  BY <1>8 DEF CloseSocket, StreamTypeOK, Connections, session, conn
<1>9. ASSUME NEW c \in Clients, Leave(c) PROVE StreamTypeOK' /\ Connections'
  <2>1. faults + 1 \in 0..MaxFaults
    BY <1>9, ConstantsAssumption DEF Leave, StreamTypeOK
  <2> QED
    BY <1>9, <2>1 DEF Leave, StreamTypeOK, Connections, session, conn
<1> QED
  BY <1>1, <1>2, <1>3, <1>4, <1>5, <1>6, <1>7, <1>8, <1>9 DEF Open, Send, Release
-----------------------------------------------------------------------------
(* A sleeping sender has nothing to send; an open socket is served.        *)

LEMMA AllTyped ==
    ASSUME StreamTypeOK, Connections, StreamNext PROVE StreamTypeOK' /\ Connections'
BY SessionTyped, LoopTyped DEF StreamNext

LEMMA WakeupKept ==
    ASSUME StreamTypeOK, NoLostWakeup, StreamNext PROVE NoLostWakeup'
<1>1. ASSUME UNCHANGED <<sender, wake, queue, slot>> PROVE NoLostWakeup'
  BY <1>1 DEF NoLostWakeup
<1>2. CASE Broadcast
  <2>1. sender' = sender
    BY <1>2 DEF Broadcast
  <2>2. ASSUME BroadcastStatus(Head(calls)), NEW c \in Clients, sender[c] = "waiting", ~wake'[c]
        PROVE  ~wake[c] /\ queue'[c] = queue[c] /\ slot'[c] = slot[c]
    BY <2>2 DEF BroadcastStatus, StreamTypeOK
  <2>3. ASSUME BroadcastPlot(Head(calls)), NEW c \in Clients, sender[c] = "waiting", ~wake'[c]
        PROVE  ~wake[c] /\ queue'[c] = queue[c] /\ slot'[c] = slot[c]
    BY <2>3 DEF BroadcastPlot, StreamTypeOK
  <2> QED
    BY <1>2, <2>1, <2>2, <2>3 DEF Broadcast, NoLostWakeup
<1>3. ASSUME NEW c \in Clients, Pull(c) PROVE NoLostWakeup'
  <2>1. \A d \in Clients \ {c} : /\ sender'[d] = sender[d] /\ wake'[d] = wake[d]
                                 /\ queue'[d] = queue[d] /\ slot'[d] = slot[d]
    BY <1>3 DEF Pull, StreamTypeOK
  <2>2. sender'[c] = "waiting" => queue'[c] = <<>> /\ slot'[c] = Nothing
    BY <1>3 DEF Pull, StreamTypeOK
  <2> QED
    BY <2>1, <2>2 DEF NoLostWakeup
<1>4. ASSUME NEW c \in Clients, Forget(c) PROVE NoLostWakeup'
  BY <1>4, ForgetTyped DEF NoLostWakeup
<1>5. ASSUME NEW c \in Clients, Handshake(c) PROVE NoLostWakeup'
  BY <1>5 DEF Handshake, Register, SendInitial, NoLostWakeup, StreamTypeOK
<1>6. ASSUME NEW c \in Clients, Open(c) \/ Send(c) \/ Release(c) \/ Leave(c)
      PROVE  \/ UNCHANGED <<sender, wake, queue, slot>>
             \/ Pull(c) \/ Forget(c) \/ Handshake(c)
  BY <1>6, Zenon DEF Open, Reconnect, Send, WakeUp, Deliver, SendFails, Release, Drop, CloseSocket,
              EndpointEnds, Leave, conn
<1>7. ASSUME (\E w \in Writers : Write(w)) \/ BuildFrame \/ PublishFrame
      PROVE  UNCHANGED <<sender, wake, queue, slot>>
  BY <1>7, Zenon DEF Write, Change, ComputeStatus, PublishStatus, BuildFrame, PublishFrame, conn
<1> QED
  BY <1>1, <1>2, <1>3, <1>4, <1>5, <1>6, <1>7 DEF StreamNext

LEMMA ServedKept ==
    ASSUME StreamTypeOK, OpenMeansServed, StreamNext PROVE OpenMeansServed'
<1>1. ASSUME UNCHANGED <<socket, registered, dropping>> PROVE OpenMeansServed'
  BY <1>1 DEF OpenMeansServed
<1>2. CASE Broadcast
  <2>1. socket' = socket /\ registered' = registered
    BY <1>2 DEF Broadcast
  <2>2. \A c \in Clients : dropping[c] # "no" => dropping'[c] # "no"
    BY <1>2 DEF Broadcast, BroadcastStatus, BroadcastPlot, StreamTypeOK
  <2> QED
    BY <2>1, <2>2 DEF OpenMeansServed
<1>3. ASSUME NEW c \in Clients, Reconnect(c) \/ Handshake(c) \/ CloseSocket(c) \/ Leave(c)
      PROVE  OpenMeansServed'
  BY <1>3 DEF Reconnect, Handshake, Register, SendInitial, CloseSocket, Leave, conn,
              OpenMeansServed, StreamTypeOK
<1>4. ASSUME NEW c \in Clients, WakeUp(c) \/ Deliver(c)
      PROVE  UNCHANGED <<socket, registered, dropping>>
  BY <1>4, Zenon DEF WakeUp, Deliver
<1>5. ASSUME NEW c \in Clients, Drop(c) \/ SendFails(c) \/ EndpointEnds(c) PROVE OpenMeansServed'
  <2>1. Forget(c) /\ socket' = socket
    BY <1>5, Zenon DEF Drop, SendFails, EndpointEnds
  <2>2. socket[c] = "closed" \/ dropping'[c] # "no"
    BY <1>5 DEF Drop, SendFails, EndpointEnds, StreamTypeOK
  <2>3. \A d \in Clients \ {c} : dropping'[d] = dropping[d]
    BY <1>5 DEF Drop, SendFails, EndpointEnds, StreamTypeOK
  <2>4. \A d \in Clients \ {c} : registered'[d] = registered[d]
    BY <2>1, ForgetTyped
  <2> QED
    BY <2>1, <2>2, <2>3, <2>4 DEF OpenMeansServed
<1>6. ASSUME (\E w \in Writers : Write(w)) \/ BuildFrame \/ PublishFrame
      PROVE  UNCHANGED <<socket, registered, dropping>>
  BY <1>6, Zenon DEF Write, Change, ComputeStatus, PublishStatus, BuildFrame, PublishFrame, conn
<1> QED
  BY <1>1, <1>2, <1>3, <1>4, <1>5, <1>6 DEF StreamNext, Open, Send, Release

-----------------------------------------------------------------------------
(* What was published last is on its way, whoever published it.            *)

\* What the tab of a connection will show, when nothing is in the hands of its
\* sender that it has not shown.
LEMMA PullShows ==
    ASSUME StreamTypeOK, NEW c \in Clients, Pull(c), NEW n,
           LastIs(queue[c], n) \/ (NoStatus(queue[c]) /\ view'[c] = n)
    PROVE  \/ LastIs(queue'[c], n)
           \/ /\ NoStatus(queue'[c])
              /\ IF sender'[c] = "sending" /\ sending'[c].type = "status"
                   THEN sending'[c].n = n ELSE view'[c] = n
<1>1. CASE queue[c] # <<>>
  <2>1. /\ queue'[c] = Tail(queue[c]) /\ sending'[c] = Head(queue[c]) /\ sender'[c] = "sending"
    BY <1>1 DEF Pull, StreamTypeOK
  <2>2. queue[c] \in Seq(Msgs)
    BY DEF StreamTypeOK
  <2>3. /\ LastIs(queue[c], n) =>
             \/ LastIs(Tail(queue[c]), n)
             \/ Head(queue[c]).type = "status" /\ Head(queue[c]).n = n /\ NoStatus(Tail(queue[c]))
        /\ NoStatus(queue[c]) => Head(queue[c]).type # "status" /\ NoStatus(Tail(queue[c]))
    BY <1>1, <2>2, HeadGone
  <2> QED
    BY <2>1, <2>3
<1>2. CASE queue[c] = <<>>
  <2>1. queue'[c] = <<>> /\ NoStatus(queue'[c]) /\ view'[c] = n
    BY <1>2, EmptyHasNone DEF Pull, StreamTypeOK
  <2>2. sender'[c] = "sending" => sending'[c].type # "status"
    BY <1>2, MsgTyped DEF Pull, StreamTypeOK
  <2> QED
    BY <2>1, <2>2
<1> QED
  BY <1>1, <1>2

\* A step that leaves the session and the broadcasts alone, and every connection
\* but one: that one is not served after it, or will come to show the status.
LEMMA OneConnection ==
    ASSUME CurrentIsComing, NEW c \in Clients,
           UNCHANGED <<value, published, doing, calls>>,
           \A d \in Clients \ {c} : /\ socket'[d] = socket[d] /\ registered'[d] = registered[d]
                                    /\ dropping'[d] = dropping[d] /\ queue'[d] = queue[d]
                                    /\ sender'[d] = sender[d] /\ sending'[d] = sending[d]
                                    /\ view'[d] = view[d],
           Served(c)' /\ (Served(c) => WillShowEither(c)) => WillShowEither(c)'
    PROVE  CurrentIsComing'
<1> SUFFICES ASSUME \A w \in Writers : doing[w] = "idle",
                    NoStatus(calls), \A d \in Clients : Served(d) => WillShowEither(d),
                    NEW d \in Clients, Served(d)'
             PROVE  WillShowEither(d)'
  BY DEF CurrentIsComing
<1>1. CASE d = c
  BY <1>1
<1>2. CASE d # c
  <2>1. WillShowEither(d)
    BY <1>2 DEF Served
  <2> QED
    BY <1>2, <2>1 DEF WillShow, WillShowEither
<1> QED
  BY <1>1, <1>2

LEMMA ConnectionComing ==
    ASSUME StreamTypeOK, CurrentIsComing, NEW c \in Clients,
           Open(c) \/ Send(c) \/ Release(c) \/ Leave(c)
    PROVE  CurrentIsComing'
<1>1. CASE Reconnect(c) \/ CloseSocket(c) \/ Leave(c)
  <2>1. socket'[c] # "open"
    BY <1>1 DEF Reconnect, CloseSocket, Leave, StreamTypeOK
  <2>2. UNCHANGED <<session, calls, conn, view>>
    BY <1>1, Zenon DEF Reconnect, CloseSocket, Leave
  <2>3. \A d \in Clients \ {c} : socket'[d] = socket[d] /\ dropping'[d] = dropping[d]
    BY <1>1 DEF Reconnect, CloseSocket, Leave, StreamTypeOK
  <2> QED
    BY <2>1, <2>2, <2>3, OneConnection DEF session, conn, Served
<1>2. CASE Handshake(c)
  <2>1. LastIs(Snapshot, value)
    BY SnapshotIsCurrent DEF StreamTypeOK
  <2>2. /\ UNCHANGED <<session, calls, sending, dropping, view>> /\ queue'[c] = Snapshot
        /\ \A d \in Clients \ {c} : /\ socket'[d] = socket[d] /\ registered'[d] = registered[d]
                                    /\ queue'[d] = queue[d] /\ sender'[d] = sender[d]
    BY <1>2 DEF Handshake, Register, SendInitial, StreamTypeOK
  <2>3. WillShowEither(c)'
    BY <2>1, <2>2 DEF WillShow, WillShowEither, session
  <2> QED
    BY <2>2, <2>3, OneConnection DEF session
<1>3. CASE Drop(c) \/ SendFails(c) \/ EndpointEnds(c)
  <2>1. Forget(c) /\ UNCHANGED <<session, calls, socket, view>>
    BY <1>3, Zenon DEF Drop, SendFails, EndpointEnds
  <2>2. \A d \in Clients \ {c} : dropping'[d] = dropping[d]
    BY <1>3 DEF Drop, SendFails, EndpointEnds, StreamTypeOK
  <2>3. /\ ~registered'[c]
        /\ \A d \in Clients \ {c} : /\ registered'[d] = registered[d] /\ sender'[d] = sender[d]
                                    /\ queue'[d] = queue[d] /\ sending'[d] = sending[d]
    BY <2>1, ForgetTyped
  <2> QED
    BY <2>1, <2>2, <2>3, OneConnection DEF session, Served
<1>4. CASE WakeUp(c) \/ Deliver(c)
  <2>1. Pull(c) /\ UNCHANGED <<session, calls, registered, socket, dropping>>
    BY <1>4, Zenon DEF WakeUp, Deliver
  <2>2. \A d \in Clients \ {c} : queue'[d] = queue[d] /\ sender'[d] = sender[d] /\ sending'[d] = sending[d]
    BY <2>1 DEF Pull, StreamTypeOK
  <2>3. \A d \in Clients \ {c} : view'[d] = view[d]
    BY <1>4 DEF WakeUp, Deliver, StreamTypeOK
  <2>4. ASSUME NEW n, WillShow(c, n)
        PROVE  LastIs(queue[c], n) \/ (NoStatus(queue[c]) /\ view'[c] = n)
    <3>1. CASE WakeUp(c)
      BY <2>4, <3>1 DEF WillShow, WakeUp
    <3>2. CASE Deliver(c)
      BY <2>4, <3>2 DEF WillShow, Deliver, StreamTypeOK
    <3> QED
      BY <1>4, <3>1, <3>2
  <2>5. ASSUME NEW n, WillShow(c, n)
        PROVE  \/ LastIs(queue'[c], n)
               \/ /\ NoStatus(queue'[c])
                  /\ IF sender'[c] = "sending" /\ sending'[c].type = "status"
                       THEN sending'[c].n = n ELSE view'[c] = n
    BY <2>1, <2>4, <2>5, PullShows
  <2>7. WillShowEither(c) => WillShowEither(c)'
    BY <2>1, <2>5 DEF WillShowEither, WillShow, session
  <2>6. Served(c)' => Served(c)
    BY <2>1 DEF Served
  <2> QED
    BY <2>1, <2>2, <2>3, <2>6, <2>7, OneConnection DEF session
<1> QED
  BY <1>1, <1>2, <1>3, <1>4 DEF Open, Send, Release

LEMMA BroadcastComing ==
    ASSUME StreamTypeOK, CurrentIsComing, Broadcast PROVE CurrentIsComing'
<1> DEFINE msg == Head(calls)
<1> SUFFICES ASSUME \A w \in Writers : doing[w] = "idle", ~LastIs(Tail(calls), published)
             PROVE  NoStatus(Tail(calls)) /\ \A c \in Clients : Served(c)' => WillShowEither(c)'
  BY DEF CurrentIsComing, Broadcast, session
<1>1. /\ msg \in Msgs
      /\ LastIs(calls, published) => msg.type = "status" /\ msg.n = published /\ NoStatus(Tail(calls))
      /\ NoStatus(calls) => msg.type # "status" /\ NoStatus(Tail(calls))
  BY HeadGone DEF StreamTypeOK, Broadcast
<1>2. UNCHANGED <<session, registered, sender, sending, socket, view>>
  BY DEF Broadcast
<1>3. CASE LastIs(calls, published)
  <2>1. BroadcastStatus(msg)
    BY <1>1, <1>3 DEF Broadcast, BroadcastPlot
  <2>2. ASSUME NEW c \in Clients, Served(c)' PROVE WillShowEither(c)'
    <3>1. registered[c] /\ Len(queue[c]) < QueueSize
      <4>1. dropping'[c] = "no" /\ registered[c] /\ Len(queue[c]) \in Nat
        BY <1>2, <2>2, LenProperties DEF Served, StreamTypeOK
      <4> QED
        BY <2>1, <4>1, ConstantsAssumption DEF BroadcastStatus, StreamTypeOK
    <3>2. queue'[c] = Append(queue[c], msg)
      BY <2>1, <3>1 DEF BroadcastStatus
    <3>3. LastIs(Append(queue[c], msg), published)
      BY <1>1, <1>3, StatusIsLast DEF StreamTypeOK
    <3>4. published' = published
      BY <1>2 DEF session
    <3> QED
      BY <3>2, <3>3, <3>4 DEF WillShow, WillShowEither
  <2> QED
    BY <1>1, <1>3, <2>2
<1>4. CASE NoStatus(calls) /\ \A c \in Clients : Served(c) => WillShowEither(c)
  <2>1. UNCHANGED <<queue, dropping>>
    BY <1>1, <1>4 DEF Broadcast, BroadcastStatus, BroadcastPlot
  <2> QED
    BY <1>1, <1>2, <1>4, <2>1 DEF Served, WillShow, WillShowEither, session
<1> QED
  BY <1>3, <1>4 DEF CurrentIsComing

LEMMA ComingKept ==
    ASSUME StreamTypeOK, Connections, CurrentIsComing, StreamNext
    PROVE  CurrentIsComing'
<1>1. ASSUME NEW w \in Writers, Change(w) \/ ComputeStatus(w) PROVE CurrentIsComing'
  <2>1. doing'[w] # "idle"
    BY <1>1 DEF Change, ComputeStatus, StreamTypeOK
  <2> QED
    BY <2>1 DEF CurrentIsComing
<1>2. ASSUME NEW w \in Writers, PublishStatus(w) PROVE CurrentIsComing'
  <2>1. calls' = Append(calls, Status(computed[w])) /\ published' = computed[w]
    BY <1>2 DEF PublishStatus
  <2>2. LastIs(Append(calls, Status(computed[w])), computed[w])
    <3>1. Status(computed[w]) \in Msgs /\ calls \in Seq(Msgs)
      BY MsgTyped DEF StreamTypeOK
    <3>2. Status(computed[w]).type = "status" /\ Status(computed[w]).n = computed[w]
      BY MsgTyped
    <3> QED
      BY <3>1, <3>2, StatusIsLast
  <2>3. LastIs(calls', published')
    BY <2>1, <2>2
  <2> QED
    BY <2>3 DEF CurrentIsComing
<1>3. CASE BuildFrame
  BY <1>3 DEF BuildFrame, conn, CurrentIsComing, Served, WillShow, WillShowEither
<1>4. CASE PublishFrame
  <2>1. Plot(frame) \in Msgs /\ Plot(frame).type = "plot"
    <3>1. frame \in 1..MaxFrames
      BY <1>4, ConstantsAssumption DEF PublishFrame, Connections, StreamTypeOK
    <3> QED
      BY <3>1, MsgTyped
  <2>2. /\ LastIs(calls, published) => LastIs(Append(calls, Plot(frame)), published)
        /\ NoStatus(calls) => NoStatus(Append(calls, Plot(frame)))
    BY <2>1, FrameIsNone DEF StreamTypeOK
  <2>3. calls' = Append(calls, Plot(frame)) /\ UNCHANGED <<value, published, doing, conn, socket, dropping, view>>
    BY <1>4 DEF PublishFrame
  <2> QED
    BY <2>2, <2>3 DEF conn, CurrentIsComing, Served, WillShow, WillShowEither
<1> QED
  BY <1>1, <1>2, <1>3, <1>4, ConnectionComing, BroadcastComing DEF StreamNext, Write

-----------------------------------------------------------------------------
(* Theorems.                                                               *)

LEMMA StreamInitConnected == StreamInit => Connected
<1> SUFFICES ASSUME StreamInit PROVE Connected
  OBVIOUS
<1>1. /\ 0 \in 0..MaxChanges /\ 0 \in 0..MaxFrames /\ 0 \in 0..MaxFaults
      /\ Status(0) \in Msgs /\ <<>> \in Seq(Msgs) /\ Len(<<>>) = 0 /\ 0 <= QueueSize
  BY MsgTyped, EmptySeq, ConstantsAssumption
<1>2. StreamTypeOK
  BY <1>1 DEF StreamInit, StreamTypeOK, Nothing
<1> QED
  BY <1>2 DEF StreamInit, Connected, Connections, NoLostWakeup, OpenMeansServed

LEMMA ConnectedKept == Connected /\ [StreamNext]_streamVars => Connected'
<1> SUFFICES ASSUME Connected, [StreamNext]_streamVars PROVE Connected'
  OBVIOUS
<1>1. CASE StreamNext
  BY <1>1, AllTyped, WakeupKept, ServedKept DEF Connected
<1>2. CASE UNCHANGED streamVars
  BY <1>2 DEF streamVars, session, conn, Connected, StreamTypeOK, Connections, NoLostWakeup,
              OpenMeansServed
<1> QED
  BY <1>1, <1>2

LEMMA AlwaysConnected == StreamSpec => []Connected
BY StreamInitConnected, ConnectedKept, PTL DEF StreamSpec

\* Types, and a reliable queue within its bound: the snapshot fits, and a status
\* is only queued where there is room (stream.py:292-341).
THEOREM StreamTypeCorrect == StreamSpec => []StreamTypeOK
<1>1. Connected => StreamTypeOK
  BY DEF Connected
<1> QED
  BY <1>1, AlwaysConnected, PTL

\* The sender clears its event only when it has found nothing, and whoever puts a
\* message sets it in the same step (stream.py:155-205).
THEOREM NoLostWakeupHolds == StreamSpec => []NoLostWakeup
<1>1. Connected => NoLostWakeup
  BY DEF Connected
<1> QED
  BY <1>1, AlwaysConnected, PTL

\* Whichever of a full queue, a failed send and a closed tab comes first, a socket
\* that is still open is registered or on its way to be closed (stream.py:345-391).
THEOREM OpenMeansServedHolds == StreamSpec => []OpenMeansServed
<1>1. Connected => OpenMeansServed
  BY DEF Connected
<1> QED
  BY <1>1, AlwaysConnected, PTL

\* Whichever threads publish, and however queues overflow, sends fail and tabs
\* come back, the statuses published to a tab, the snapshot it is given and the
\* messages its sender holds stay in the order they were published: the tab that
\* has received all shows the last one published, or the current one.
THEOREM SettledIsCurrentHolds == StreamSpec => []SettledIsCurrent
<1>1. StreamInit => StreamInv
  <2> SUFFICES ASSUME StreamInit PROVE StreamInv
    OBVIOUS
  <2>1. CurrentIsComing
    BY EmptyHasNone DEF StreamInit, CurrentIsComing, Served
  <2> QED
    BY <2>1, StreamInitConnected DEF StreamInv
<1>2. StreamInv /\ [StreamNext]_streamVars => StreamInv'
  <2> SUFFICES ASSUME StreamInv, [StreamNext]_streamVars PROVE StreamInv'
    OBVIOUS
  <2>1. CASE StreamNext
    BY <2>1, ConnectedKept, ComingKept DEF StreamInv, Connected
  <2>2. CASE UNCHANGED streamVars
    <3>1. CurrentIsComing'
      BY <2>2 DEF streamVars, session, conn, StreamInv, CurrentIsComing, Served, WillShow,
                  WillShowEither
    <3> QED
      BY <3>1, ConnectedKept DEF StreamInv
  <2> QED
    BY <2>1, <2>2
<1>3. StreamInv => SettledIsCurrent
  <2> SUFFICES ASSUME StreamInv, NEW c \in Clients, Settled(c)
               PROVE  view[c] \in {value, published}
    BY DEF SettledIsCurrent
  <2>1. Served(c)
    BY DEF Settled, Served, StreamInv, Connected, OpenMeansServed
  <2>2. WillShowEither(c)
    BY <2>1, EmptyHasNone DEF Settled, StreamInv, CurrentIsComing
  <2> QED
    BY <2>2, EmptyHasNone DEF Settled, WillShow, WillShowEither
<1> QED
  BY <1>1, <1>2, <1>3, PTL DEF StreamSpec

=============================================================================
