------------------------- MODULE PersistenceProofs -------------------------
(***************************************************************************)
(* Proofs about what the gateway keeps of a session.                       *)
(*                                                                         *)
(* The rows of the lock results, for any number of rows, settings threads, *)
(* databases and saves, and any bound of the queue.                        *)
(*                                                                         *)
(* The settings of a board, for any set of values and any number of        *)
(* writes, losses and restarts.                                            *)
(***************************************************************************)
EXTENDS LockResultWriter, Settings, SequenceTheorems, TLAPS

\* The worker holds a row from taking it to marking it, and only the worker
\* has a row in its hands; nothing but stop() lets it leave.
RowsBacked ==
    /\ held = NoRow <=> at[Worker] = "idle"
    /\ Len(accepted) + admitted <= offered
    /\ due <= Len(accepted)
    /\ exit = "drained" => shutdown # "no"

\* A connection that committed brought its database up to date, so that the flag
\* is wrong about the configured one only when it went astray.
SchemaBacked ==
    /\ at[Worker] # "saved"
    /\ \A c \in Requests : at[c] \notin {"taken", "missing"}
    /\ schemaReady /\ ~astray => database \in migrated
    /\ \A c \in Clients : at[c] = "committed" => target[c] \in migrated

\* The inductive invariant, in three groups that the actions disturb apart
\* from one another.
FlagsInv   == ConfigTypeOK /\ ActiveIsEnabled
RowsInv    == RowsTypeOK /\ RowsInOrder /\ DrainedOnExit /\ RowsBacked
ThreadsInv == ThreadsTypeOK /\ SchemaBacked
IInv == FlagsInv /\ RowsInv /\ ThreadsInv

\* The initial states satisfy the inductive invariant.
LEMMA InitIInv == Init => IInv
<1> SUFFICES ASSUME Init PROVE IInv
  OBVIOUS
<1>1. FlagsInv
  BY DEF Init, FlagsInv, ConfigTypeOK, ActiveIsEnabled
<1>2. RowsInv
  <2>1. RowsTypeOK /\ DrainedOnExit /\ RowsBacked
    BY ConstantsAssumption
       DEF Init, RowsTypeOK, DrainedOnExit, RowsBacked, NoRow, Clients
  <2>2. RowsInOrder
    BY ConcatEmptySeq DEF Init, RowsInOrder, InHand, Rows
  <2> QED
    BY <2>1, <2>2 DEF RowsInv
<1>3. ThreadsInv
  BY ConstantsAssumption
     DEF Init, ThreadsInv, ThreadsTypeOK, SchemaBacked, Places, Clients
<1> QED
  BY <1>1, <1>2, <1>3 DEF IInv

\* A step of a settings thread, of the worker or of the gateway keeps the
\* status flags in step with the configuration.
LEMMA FlagsKept == ASSUME IInv, [Next]_vars PROVE FlagsInv'
<1> USE DEF FlagsInv, ConfigTypeOK, ActiveIsEnabled, IInv, faults
<1>1. CASE UNCHANGED <<enabled, schemaReady, lastTestOk, active, faults>>
  BY <1>1
<1>2. CASE MarkWritten
  BY <1>2 DEF MarkWritten, Finished, config
<1>3. CASE MarkFailed
  BY <1>3 DEF MarkFailed, Finished, config
<1>4. ASSUME NEW c \in Clients, NoteSchema(c) PROVE FlagsInv'
  BY <1>4 DEF NoteSchema, config, status
<1>5. ASSUME NEW c \in Requests, UpdateConfig(c) PROVE FlagsInv'
  <2>1. /\ enabled' \in BOOLEAN /\ schemaReady' = FALSE /\ lastTestOk' = lastTestOk
        /\ astray' = FALSE
    BY <1>5 DEF UpdateConfig, Configure
  <2>2. CASE unsaved' = FALSE /\ active' = (active /\ enabled')
    BY <2>1, <2>2
  <2>3. CASE unsaved' = TRUE /\ active' = active
    BY <2>1, <2>3
  <2> QED
    BY <1>5, <2>2, <2>3 DEF UpdateConfig, Configure
<1>6. ASSUME NEW c \in Requests, MarkTest(c) PROVE FlagsInv'
  BY <1>6 DEF MarkTest, config
<1>7. CASE StopReturns
  BY <1>7 DEF StopReturns, config
<1>8. CASE Take \/ CheckEnabled \/ Insert \/ WorkerLeaves \/ Admit \/ Enqueue \/ Stop
           \/ UNCHANGED vars
  BY <1>1, <1>8 DEF Take, CheckEnabled, Insert, WorkerLeaves, Admit, Offer, Enqueue, Put, Stop,
     vars, config, status
<1>9. ASSUME NEW c \in Clients,
             ReadTarget(c) \/ ConnectionFails(c) \/ ApplySchema(c) \/ DecideTest(c)
               \/ TestConnection(c)
      PROVE  FlagsInv'
  BY <1>1, <1>9 DEF ReadTarget, ConnectionFails, ApplySchema, DecideTest, TestConnection,
     config, status
<1>10. Worker \in Clients /\ Requests \subseteq Clients
  BY DEF Clients
<1> QED
  BY <1>2, <1>3, <1>4, <1>5, <1>6, <1>7, <1>8, <1>9, <1>10
     DEF Next, WorkerStep, Request, Connection

\* A taken row moves from the head of the queue to the worker's hands.
LEMMA HeadMoves ==
  ASSUME NEW S, NEW h \in Seq(S), NEW q \in Seq(S), q # <<>>
  PROVE  h \o <<Head(q)>> \o Tail(q) = h \o <<>> \o q
<1>1. Head(q) \in S /\ Tail(q) \in Seq(S) /\ <<Head(q)>> \in Seq(S)
  BY HeadTailProperties
<1>2. <<Head(q)>> \o Tail(q) = q
  <2>1. Len(<<Head(q)>> \o Tail(q)) = Len(q)
    BY <1>1, HeadTailProperties, ConcatProperties
  <2>2. \A i \in 1..Len(q) : (<<Head(q)>> \o Tail(q))[i] = q[i]
    BY <1>1, HeadTailProperties, ConcatProperties
  <2> QED
    BY <1>1, <2>1, <2>2, ConcatProperties, SeqEqual
<1>3. h \o <<Head(q)>> \o Tail(q) = h \o (<<Head(q)>> \o Tail(q))
  BY <1>1, ConcatAssociative
<1>4. h \o <<>> = h
  BY ConcatEmptySeq
<1> QED
  BY <1>2, <1>3, <1>4

\* A row put at the end of the queue comes after all that were accepted.
LEMMA PutGoesLast ==
  ASSUME NEW h \in Seq(Rows), NEW i \in Seq(Rows), NEW q \in Seq(Rows), NEW r \in Rows
  PROVE  Append(h \o i \o q, r) = h \o i \o Append(q, r)
<1>1. h \o i \in Seq(Rows) /\ <<r>> \in Seq(Rows) /\ (h \o i) \o q \in Seq(Rows)
  BY ConcatProperties
<1>2. Append((h \o i) \o q, r) = ((h \o i) \o q) \o <<r>> /\ Append(q, r) = q \o <<r>>
  BY <1>1, AppendIsConcat
<1> DEFINE ahead == h \o i
           last == <<r>>
<1> HIDE DEF ahead, last
<1>3. (ahead \o q) \o last = ahead \o (q \o last)
  BY <1>1, ConcatAssociative, SMTT(30) DEF ahead, last
<1> QED
  BY <1>2, <1>3 DEF ahead, last

LEMMA PutKeepsOrder ==
  ASSUME RowsInOrder, held \in Rows \cup {NoRow},
         handled \in Seq(Rows), queue \in Seq(Rows),
         NEW row \in Rows,
         accepted' = Append(accepted, row), queue' = Append(queue, row),
         UNCHANGED <<held, handled>>
  PROVE  RowsInOrder'
<1>1. InHand \in Seq(Rows) /\ InHand' = InHand
  BY DEF InHand
<1>2. Append(handled \o InHand \o queue, row) = handled \o InHand \o Append(queue, row)
  BY <1>1, PutGoesLast, ZenonT(60)
<1> QED
  BY <1>1, <1>2 DEF RowsInOrder

\* No step loses, repeats or reorders a row the queue accepted.
LEMMA RowsKept == ASSUME IInv, [Next]_vars PROVE RowsInv'
<1> USE ConstantsAssumption
    DEF RowsInv, RowsTypeOK, DrainedOnExit, RowsBacked, IInv, rows, NoRow
<1>0. at \in [Clients -> Places] /\ Worker \in Clients /\ Requests \subseteq Clients
  BY DEF ThreadsInv, ThreadsTypeOK, Clients
<1>1. CASE Take
  <2>1. Head(queue) \in Rows /\ Tail(queue) \in Seq(Rows) /\ Len(Tail(queue)) = Len(queue) - 1
    BY <1>1, HeadTailProperties DEF Take
  <2>2. RowsInOrder'
    <3>1. InHand = <<>> /\ InHand' = <<Head(queue)>>
      BY <1>1, <2>1 DEF Take, InHand, Idle, Rows
    <3>2. handled \o <<Head(queue)>> \o Tail(queue) = handled \o <<>> \o queue
      BY <1>1, HeadMoves DEF Take
    <3> QED
      BY <1>1, <3>1, <3>2 DEF Take, RowsInOrder
  <2> QED
    BY <1>0, <1>1, <2>1, <2>2 DEF Take, Go, Rows, Idle
<1>2. CASE MarkWritten \/ MarkFailed
  <2>1. held \in Rows /\ Finished /\ exit' = exit
    BY <1>2 DEF MarkWritten, MarkFailed, Finished
  <2>2. /\ handled' \in Seq(Rows) /\ Len(handled') = Len(handled) + 1
        /\ handled' = handled \o <<held>>
    BY <2>1, AppendProperties, AppendIsConcat DEF Finished
  <2>3. RowsInOrder'
    <3>1. InHand = <<held>> /\ InHand' = <<>>
      BY <2>1 DEF Finished, InHand, Rows
    <3>2. handled' \o <<>> = handled'
      BY <2>2, ConcatEmptySeq
    <3> QED
      BY <2>1, <2>2, <3>1, <3>2 DEF Finished, RowsInOrder
  <2> QED
    BY <1>0, <2>1, <2>2, <2>3 DEF Finished, Go
<1>3. CASE WorkerLeaves
  <2>1. handled = accepted
    BY <1>3, ConcatEmptySeq DEF WorkerLeaves, Idle, RowsInOrder, InHand
  <2> QED
    BY <1>3, <2>1 DEF WorkerLeaves, RowsInOrder, InHand
<1>4. CASE Enqueue
  <2>1. CASE accepted' = accepted /\ queue' = queue
    BY <1>4, <2>1 DEF Enqueue, Put, RowsInOrder, InHand
  <2>2. CASE /\ Len(queue) < QueueSize
             /\ accepted' = Append(accepted, Len(accepted) + 1)
             /\ queue' = Append(queue, Len(accepted) + 1)
    <3>1. Len(accepted) + 1 \in Rows
      BY <1>4, <2>2 DEF Enqueue, Put, Rows
    <3>2. /\ accepted' \in Seq(Rows) /\ Len(accepted') = Len(accepted) + 1
          /\ queue' \in Seq(Rows) /\ Len(queue') = Len(queue) + 1
      BY <2>2, <3>1, AppendProperties
    <3>3. RowsInOrder'
      BY <1>4, <2>2, <3>1, PutKeepsOrder DEF Enqueue, Put
    <3> QED
      BY <1>4, <2>2, <3>2, <3>3 DEF Enqueue, Put
  <2> QED
    BY <1>4, <2>1, <2>2 DEF Enqueue
<1>5. CASE Admit
  <2>1. UNCHANGED <<rows, shutdown, at, accepted, due>>
    BY <1>5 DEF Admit, Offer
  <2>2. offered' = offered + 1 /\ admitted' = admitted + 1 /\ offered < MaxRows
    BY <1>5 DEF Admit, Offer
  <2>3. Len(accepted) \in Nat
    BY LenProperties
  <2>4. offered' \in 0..MaxRows /\ admitted' \in 0..MaxRows
    BY <2>2, <2>3
  <2>5. RowsInOrder'
    BY <2>1 DEF RowsInOrder, InHand
  <2>6. DrainedOnExit' /\ RowsTypeOK'
    BY <2>1, <2>4
  <2>7. RowsBacked'
    <3>1. Len(accepted') + admitted' <= offered'
      BY <2>1, <2>2, <2>3
    <3> QED
      BY <2>1, <3>1
  <2> QED
    BY <2>5, <2>6, <2>7
<1>6. CASE Stop
  BY <1>6 DEF Stop, RowsInOrder, InHand
<1>7. CASE StopReturns
  BY <1>7 DEF StopReturns, RowsInOrder, InHand
<1>8. CASE CheckEnabled \/ ReadTarget(Worker) \/ ConnectionFails(Worker) \/ Insert
           \/ NoteSchema(Worker)
  BY <1>0, <1>8 DEF CheckEnabled, ReadTarget, ConnectionFails, Insert, NoteSchema, Go,
     RowsInOrder, InHand
<1>9. ASSUME NEW c \in Requests, Request(c) PROVE RowsInv'
  BY <1>0, <1>9 DEF Request, UpdateConfig, Configure, DecideTest, TestConnection, Connection,
     ReadTarget, ConnectionFails, ApplySchema, NoteSchema, MarkTest, Go, RowsInOrder,
     InHand
<1>10. CASE UNCHANGED vars
  BY <1>10 DEF vars, RowsInOrder, InHand
<1> QED
  BY <1>1, <1>2, <1>3, <1>4, <1>5, <1>6, <1>7, <1>8, <1>9, <1>10 DEF Next, WorkerStep

\* No step lets the schema flag run ahead of the configured database unnoticed.
LEMMA ThreadsKept == ASSUME IInv, [Next]_vars PROVE ThreadsInv'
<1> USE ConstantsAssumption
    DEF ThreadsInv, ThreadsTypeOK, SchemaBacked, IInv, config, faults, Places, Go
<1>0. Worker \in Clients /\ Requests \subseteq Clients
  BY DEF Clients
<1>1. CASE Take \/ CheckEnabled \/ WorkerLeaves
  BY <1>0, <1>1 DEF Take, CheckEnabled, WorkerLeaves, Idle
<1>2. CASE MarkWritten \/ MarkFailed
  BY <1>0, <1>2 DEF MarkWritten, MarkFailed, Finished
<1>3. CASE Insert
  BY <1>0, <1>3 DEF Insert
<1>4. ASSUME NEW c \in Clients, ReadTarget(c) PROVE ThreadsInv'
  BY <1>0, <1>4 DEF ReadTarget
<1>5. ASSUME NEW c \in Clients, ConnectionFails(c) PROVE ThreadsInv'
  BY <1>0, <1>5 DEF ConnectionFails
<1>6. ASSUME NEW c \in Clients, NoteSchema(c) PROVE ThreadsInv'
  BY <1>0, <1>6 DEF NoteSchema
<1>7. ASSUME NEW c \in Requests, ApplySchema(c) PROVE ThreadsInv'
  BY <1>0, <1>7 DEF ApplySchema
<1>8. ASSUME NEW c \in Requests, UpdateConfig(c) PROVE ThreadsInv'
  BY <1>0, <1>8 DEF UpdateConfig, Configure, Idle
<1>9. ASSUME NEW c \in Requests, DecideTest(c) \/ TestConnection(c) \/ MarkTest(c)
      PROVE ThreadsInv'
  BY <1>0, <1>9 DEF DecideTest, TestConnection, MarkTest, Idle
<1>10. CASE Admit \/ Enqueue \/ Stop \/ StopReturns \/ UNCHANGED vars
  BY <1>10 DEF Admit, Offer, Enqueue, Put, Stop, StopReturns, vars
<1> QED
  BY <1>0, <1>1, <1>2, <1>3, <1>4, <1>5, <1>6, <1>7, <1>8, <1>9, <1>10
     DEF Next, WorkerStep, Request, Connection

\* The inductive invariant holds in every reachable state.
THEOREM InductiveInvariant == Spec => []IInv
<1>1. IInv /\ [Next]_vars => IInv'
  BY FlagsKept, RowsKept, ThreadsKept DEF IInv
<1> QED
  BY InitIInv, <1>1, PTL DEF Spec

\* Types: whatever the number of handlers and rows, the queue never exceeds
\* its bound.
THEOREM TypeCorrect == Spec => []TypeOK
<1>1. IInv => TypeOK
  BY DEF IInv, FlagsInv, RowsInv, ThreadsInv, TypeOK
<1> QED
  BY InductiveInvariant, <1>1, PTL

\* Every row the queue accepted is handled once and in order.
THEOREM RowsInOrderHolds == Spec => []RowsInOrder
<1>1. IInv => RowsInOrder
  BY DEF IInv, RowsInv
<1> QED
  BY InductiveInvariant, <1>1, PTL

\* The writer is shown as active only when it is enabled and tested.
THEOREM ActiveIsEnabledHolds == Spec => []ActiveIsEnabled
<1>1. IInv => ActiveIsEnabled
  BY DEF IInv, FlagsInv
<1> QED
  BY InductiveInvariant, <1>1, PTL

\* A worker that left has handled every row accepted before the shutdown.
THEOREM DrainedOnExitHolds == Spec => []DrainedOnExit
<1>1. IInv => DrainedOnExit
  BY DEF IInv, RowsInv
<1> QED
  BY InductiveInvariant, <1>1, PTL

\* A write to the configured database misses columns only while a connection to
\* another one holds the flag up, whatever overlaps: only an INSERT without a
\* migration can miss them, and the flag that leaves the migration out is true of
\* the configured database unless it went astray.
THEOREM ColumnsExistHolds == Spec => ColumnsExist
<1>1. IInv /\ [Next]_vars => [MissesColumns => astray \/ target[Worker] # database]_vars
  <2> SUFFICES ASSUME IInv, Next, MissesColumns, ~astray, target[Worker] = database
               PROVE  FALSE
    OBVIOUS
  <2>0. /\ at \in [Clients -> Places] /\ Worker \in Clients /\ Requests \subseteq Clients
        /\ Worker \notin Requests
    BY ConstantsAssumption DEF IInv, ThreadsInv, ThreadsTypeOK, Clients
  <2>1. ~Insert
    <3> SUFFICES ASSUME Insert PROVE FALSE
      OBVIOUS
    <3>1. target[Worker] \notin migrated'
      BY <2>0 DEF Insert, MissesColumns, Go
    <3>2. schemaReady /\ migrated' = migrated
      BY <3>1 DEF Insert, IInv, FlagsInv, ConfigTypeOK
    <3> QED
      BY <3>1, <3>2 DEF IInv, ThreadsInv, SchemaBacked
  <2>2. CASE WorkerStep
    BY <2>0, <2>1, <2>2 DEF WorkerStep, Take, CheckEnabled, ReadTarget, ConnectionFails,
       NoteSchema, MarkWritten, MarkFailed, Finished, WorkerLeaves, MissesColumns, Go, Idle
  <2>3. ASSUME NEW c \in Requests, Request(c) PROVE FALSE
    BY <2>0, <2>3 DEF Request, UpdateConfig, Configure, DecideTest, TestConnection,
       Connection, ReadTarget, ConnectionFails, ApplySchema, NoteSchema, MarkTest,
       MissesColumns, Go
  <2> QED
    BY <2>2, <2>3 DEF Next, Admit, Offer, Enqueue, Put, Stop, StopReturns, MissesColumns
<1> QED
  BY InductiveInvariant, <1>1, PTL DEF Spec, ColumnsExist

\* What the queue and the worker's hands may hold of the rows accepted.
LEMMA RowsWaiting ==
  ASSUME RowsTypeOK, RowsInOrder
  PROVE  /\ Len(handled) \in Nat /\ Len(accepted) \in Nat /\ Len(queue) \in Nat
         /\ Len(accepted) = Len(handled) + Len(InHand) + Len(queue)
         /\ Len(InHand) = IF held = NoRow THEN 0 ELSE 1
<1>1. InHand \in Seq(Rows) /\ Len(InHand) = IF held = NoRow THEN 0 ELSE 1
  BY DEF InHand, RowsTypeOK
<1>2. handled \o InHand \in Seq(Rows) /\ Len(handled \o InHand) = Len(handled) + Len(InHand)
  BY <1>1, ConcatProperties DEF RowsTypeOK
<1>3. Len(accepted) = Len(handled \o InHand) + Len(queue)
  BY <1>2, ConcatProperties DEF RowsInOrder, RowsTypeOK
<1> QED
  BY <1>1, <1>2, <1>3, LenProperties DEF RowsTypeOK

\* The row the worker is done with is the next one of those accepted.
LEMMA HeldIsNext ==
  ASSUME RowsTypeOK, RowsInOrder, held # NoRow
  PROVE  held = accepted[Len(handled) + 1]
<1>1. InHand = <<held>> /\ held \in Rows
  BY DEF InHand, RowsTypeOK
<1>2. /\ handled \o InHand \in Seq(Rows) /\ Len(handled \o InHand) = Len(handled) + 1
      /\ (handled \o InHand)[Len(handled) + 1] = held
  BY <1>1, ConcatProperties, LenProperties DEF RowsTypeOK
<1> QED
  BY <1>2, ConcatProperties, LenProperties DEF RowsInOrder, RowsTypeOK

\* The writer is a log of rows dealt with in order, for every bound of the
\* queue: only a put accepts a row, and only a mark deals with one.
THEOREM WriterImplementsRowLog == Spec => ImplementsRowLog
<1>1. Init => Log!Init
  BY DEF Init, Log!Init
<1>2. ASSUME IInv, [Next]_vars PROVE [Log!Next]_(Log!logVars)
  <2> USE DEF Log!logVars
  <2>1. RowsTypeOK /\ RowsInOrder /\ (held = NoRow <=> at[Worker] = "idle")
    BY <1>2 DEF IInv, RowsInv, RowsBacked
  <2>2. CASE MarkWritten \/ MarkFailed
    <3>1. held # NoRow /\ handled' = Append(handled, held) /\ accepted' = accepted
      BY <2>1, <2>2 DEF MarkWritten, MarkFailed, Finished
    <3>2. held = accepted[Len(handled) + 1] /\ Len(handled) < Len(accepted)
      BY <2>1, <3>1, HeldIsNext, RowsWaiting
    <3> QED
      BY <3>1, <3>2 DEF Log!Next, Log!DealWith
  <2>3. CASE Enqueue
    <3>1. CASE UNCHANGED <<queue, accepted>>
      BY <2>3, <3>1 DEF Enqueue, Put
    <3>2. CASE Len(queue) < QueueSize /\ accepted' = Append(accepted, Len(accepted) + 1)
      <4>1. Len(accepted) - Len(handled) < QueueSize + 1
        <5>1. Len(InHand) \in 0..1 /\ QueueSize \in Nat /\ Len(queue) < QueueSize
          BY <2>1, <3>2, RowsWaiting, ConstantsAssumption
        <5>2. /\ Len(accepted) = Len(handled) + Len(InHand) + Len(queue)
              /\ {Len(accepted), Len(handled), Len(queue)} \subseteq Nat
          BY <2>1, RowsWaiting
        <5>3. \A a, h, q, n \in Nat, i \in 0..1 : a = h + i + q /\ q < n => a - h < n + 1
          OBVIOUS
        <5> QED
          BY <5>1, <5>2, <5>3
      <4> QED
        BY <2>3, <3>2, <4>1 DEF Enqueue, Put, Log!Next, Log!Accept
    <3> QED
      BY <2>3, <3>1, <3>2 DEF Enqueue
  <2>4. ASSUME NEW c \in Clients,
               \/ ReadTarget(c) \/ ConnectionFails(c) \/ ApplySchema(c) \/ NoteSchema(c)
               \/ UpdateConfig(c) \/ DecideTest(c) \/ TestConnection(c) \/ MarkTest(c)
        PROVE  UNCHANGED <<accepted, handled>>
    BY <2>4, Zenon DEF ReadTarget, ConnectionFails, ApplySchema, NoteSchema, UpdateConfig, Configure,
       DecideTest, TestConnection, MarkTest, rows
  <2>5. ASSUME \/ Take \/ CheckEnabled \/ Insert \/ WorkerLeaves
               \/ Admit \/ Stop \/ StopReturns \/ UNCHANGED vars
        PROVE  UNCHANGED <<accepted, handled>>
    BY <2>5, Zenon DEF Take, CheckEnabled, Insert, WorkerLeaves, Admit, Stop, StopReturns,
       vars, rows
  <2>6. Worker \in Clients /\ Requests \subseteq Clients
    BY DEF Clients
  <2> QED
    BY <1>2, <2>2, <2>3, <2>4, <2>5, <2>6 DEF Next, WorkerStep, Request, Connection
<1> QED
  BY <1>1, <1>2, InductiveInvariant, PTL DEF Spec, ImplementsRowLog, Log!Spec

-----------------------------------------------------------------------------
\* The settings of a board: the snapshot, the client's cache and the browsers.

Connected == {"ready", "adopting", "registered", "up"}

\* The last notification on its way, or x when there is none.
Latest(x) ==
    IF notices # <<>> THEN notices[Len(notices)]
    ELSE IF conn = "up" /\ batch # <<>> THEN batch[Len(batch)] ELSE x

Told == notices = <<>> /\ batch = <<>>

\* Who holds _rpyc_lock has work under it, and a connection is not taken up
\* before the last one's work is done.
OneHolder ==
    /\ batch # <<>> <=> rpyc = "poll"
    /\ setter.at # "idle" <=> rpyc = "set"
    /\ conn = "sane" <=> rpyc = "connect"
    /\ setter.at = "idle" => setter = NoSetter
    /\ batch # <<>> => conn \in {"down", "made", "up"}
    /\ setter.cut => conn \in {"down", "made"}
    /\ setter.at # "idle" /\ ~setter.cut => conn # "down"
    /\ setter.alone /\ ~setter.cut => conn = "up"
    /\ conn \in Connected => listed /\ snap # None

\* What the client has, and what it will be told, ends in what the board has.
Follows ==
    /\ conn = "down" => notices = <<>>
    /\ conn # "down" => Latest(cached) = board
    /\ conn = "up" => view = cached

WriteKnown ==
    setter.at = "record" /\ ~setter.cut =>
        board = wanted /\ \E i \in 1..Len(notices) : notices[i] = setter.value

\* Unless a write fell into the making of a connection:
Tracks ==
    "early" \notin doubt =>
        /\ setter.at # "idle" /\ ~setter.cut => conn = "up"
        /\ conn = "made" => notices = <<>>
        /\ conn = "sane" => board = Normal(cached)
        /\ conn \in {"adopting", "registered"} => pending = None
        /\ conn \in Connected /\ Told => Normal(snap) = Normal(board)
        /\ conn = "up" /\ setter.at = "idle" /\ Told => pending = None
        /\ conn = "up" /\ setter.at = "idle" /\ Len(notices) + Len(batch) = 1
             /\ pending = board => Normal(snap) = Normal(board)

Survives ==
    doubt = {} =>
        /\ conn \notin Connected => setter = NoSetter /\ Safe(batch)
        /\ wanted # None /\ conn \in Connected => board \in {wanted, Normal(wanted)}

Known == SettingTypeOK /\ OneHolder /\ Follows /\ WriteKnown

SettingsInv == Known /\ Tracks /\ Survives

-----------------------------------------------------------------------------
(* Notifications.                                                          *)

LEMMA NormalTyped == \A v \in Values : Normal(v) \in Values /\ Normal(Normal(v)) = Normal(v)
BY DEF Values, Normal

LEMMA WritesTyped ==
    ASSUME SettingTypeOK, NEW v \in Values, Writes(v)
    PROVE  /\ board' = v /\ notices' \in Seq(Values)
           /\ conn = "down" => notices' = notices
           /\ conn # "down" => notices' = Append(notices, v)
BY DEF SettingTypeOK, Writes

\* A step that reports v last.
LEMMA Appended ==
    ASSUME NEW v \in Values, notices \in Seq(Values), notices' = Append(notices, v)
    PROVE  /\ notices' # <<>> /\ notices'[Len(notices')] = v /\ Len(notices') = Len(notices) + 1
           /\ notices' \in Seq(Values)
           /\ \A i \in 1..Len(notices) : notices'[i] = notices[i]
<1>1. /\ notices' \in Seq(Values) /\ Len(notices') = Len(notices) + 1
      /\ notices'[Len(notices) + 1] = v
      /\ \A i \in 1..Len(notices) : notices'[i] = notices[i]
  BY AppendProperties
<1>2. notices' # <<>>
  BY <1>1, EmptySeq, LenProperties
<1> QED
  BY <1>1, <1>2

\* What is left of the notifications and what the poll loop has of them.
LEMMA Fetched ==
    ASSUME notices \in Seq(Values), NEW n \in 1..Len(notices),
           batch' = SubSeq(notices, 1, n), notices' = SubSeq(notices, n + 1, Len(notices))
    PROVE  /\ notices' \in Seq(Values) /\ batch' \in Seq(Values) /\ batch' # <<>>
           /\ Len(notices') = Len(notices) - n /\ Len(batch') = n
           /\ notices' # <<>> => notices'[Len(notices')] = notices[Len(notices)]
           /\ notices' = <<>> => batch'[Len(batch')] = notices[Len(notices)]
<1>1. /\ batch' \in Seq(Values) /\ Len(batch') = n /\ \A i \in 1..n : batch'[i] = notices[i]
  OBVIOUS
<1>2. /\ notices' \in Seq(Values) /\ Len(notices') = Len(notices) - n
      /\ \A i \in 1..(Len(notices) - n) : notices'[i] = notices[n + i]
  OBVIOUS
<1>3. Len(notices) \in Nat /\ n \in 1..Len(notices) /\ notices \in Seq(Values)
  OBVIOUS
<1> HIDE DEF Values
<1>4. ASSUME notices' = <<>> PROVE batch'[Len(batch')] = notices[Len(notices)]
  <2>1. Len(notices') = 0
    BY <1>4, EmptySeq
  <2>2. n = Len(notices)
    BY <1>2, <1>3, <2>1
  <2> QED
    BY <1>1, <1>3, <2>2
<1>5. ASSUME notices' # <<>> PROVE notices'[Len(notices')] = notices[Len(notices)]
  <2>1. Len(notices') # 0
    BY <1>2, <1>5, EmptySeq
  <2>2. Len(notices) - n \in 1..(Len(notices) - n) /\ n + (Len(notices) - n) = Len(notices)
    BY <1>2, <1>3, <2>1
  <2>3. notices'[Len(notices) - n] = notices[n + (Len(notices) - n)]
    BY <1>2, <2>2
  <2> QED
    BY <1>2, <2>2, <2>3
<1>6. batch' # <<>>
  BY <1>1, <1>3, EmptySeq, SMTT(30)
<1> QED
  BY <1>1, <1>2, <1>4, <1>5, <1>6

LEMMA Delivered ==
    ASSUME batch \in Seq(Values), batch # <<>>
    PROVE  /\ Head(batch) \in Values /\ Tail(batch) \in Seq(Values)
           /\ Len(Tail(batch)) = Len(batch) - 1 /\ Len(batch) \in Nat \ {0}
           /\ Tail(batch) = <<>> <=> Len(batch) = 1
           /\ Len(batch) = 1 => batch[Len(batch)] = Head(batch)
           /\ Tail(batch) # <<>> => Tail(batch)[Len(Tail(batch))] = batch[Len(batch)]
<1>1. /\ Head(batch) \in Values /\ Tail(batch) \in Seq(Values) /\ Head(batch) = batch[1]
      /\ Len(Tail(batch)) = Len(batch) - 1 /\ Len(batch) \in Nat \ {0}
      /\ \A i \in 1..Len(Tail(batch)) : Tail(batch)[i] = batch[i + 1]
  BY HeadTailProperties, EmptySeq
<1>2. Tail(batch) = <<>> <=> Len(batch) = 1
  BY <1>1, EmptySeq
<1>3. ASSUME Len(batch) # 1 PROVE Tail(batch)[Len(Tail(batch))] = batch[Len(batch)]
  BY <1>1, <1>3
<1> QED
  BY <1>1, <1>2, <1>3

-----------------------------------------------------------------------------
(* Types.                                                                  *)

Setters == [at : {"idle", "write", "record"}, value : Values, cut : BOOLEAN, alone : BOOLEAN]

LEMMA AtBootTyped == AtBoot \in Values
BY DEF AtBoot, Values

LEMMA SettersTyped ==
    /\ NoSetter \in Setters
    /\ \A s \in Setters, b \in BOOLEAN : [s EXCEPT !.cut = b] \in Setters
    /\ [NoSetter EXCEPT !.cut = FALSE] = NoSetter
    /\ ~NoSetter.alone /\ ~NoSetter.cut /\ NoSetter.at = "idle"
<1>1. NoSetter \in Setters
  BY DEF NoSetter, Setters, Values
<1>2. ASSUME NEW s \in Setters, NEW b \in BOOLEAN PROVE [s EXCEPT !.cut = b] \in Setters
  BY DEF Setters
<1>3. ~NoSetter.alone /\ NoSetter.cut = FALSE /\ NoSetter.at = "idle"
  BY DEF NoSetter
<1>4. \A s \in Setters : s.cut = FALSE => [s EXCEPT !.cut = FALSE] = s
  BY DEF Setters
<1>5. [NoSetter EXCEPT !.cut = FALSE] = NoSetter
  BY <1>1, <1>3, <1>4
<1> QED
  BY <1>1, <1>2, <1>3, <1>5

LEMMA DoubtTyped ==
    ASSUME SettingTypeOK, Drop \/ Restart
    PROVE  doubt' \subseteq {"early", "dropped"}
<1>1. CutOff(batch') = {"dropped"} \/ CutOff(batch') = {}
  BY DEF CutOff
<1>2. doubt' = doubt \cup CutOff(batch') /\ doubt \subseteq {"early", "dropped"}
  BY DEF Drop, Restart, SettingTypeOK
<1> QED
  BY <1>1, <1>2

LEMMA TypeStep == SettingTypeOK /\ [SettingsNext]_settingsVars => SettingTypeOK'
<1> SUFFICES ASSUME SettingTypeOK, [SettingsNext]_settingsVars PROVE SettingTypeOK'
  OBVIOUS
<1> USE DEF SettingTypeOK, Phases, Holders, memory, client, bounds
<1>1. CASE Dial
  BY <1>1 DEF Dial
<1>2. CASE Sanitize
  BY <1>2, WritesTyped, NormalTyped DEF Sanitize, Read
<1>3. CASE SeedOrReplay
  BY <1>3, WritesTyped, NormalTyped DEF SeedOrReplay, Seeds, Read
<1>4. CASE Register
  BY <1>4 DEF Register
<1>5. CASE RegisterAdopts
  BY <1>5 DEF RegisterAdopts, Read
<1>6. CASE PublishSnapshot
  BY <1>6 DEF PublishSnapshot, Read
<1>7. CASE Fetch
  <2>1. PICK n \in 1..Len(notices) : /\ batch' = SubSeq(notices, 1, n)
                                     /\ notices' = SubSeq(notices, n + 1, Len(notices))
    BY <1>7 DEF Fetch
  <2>2. notices' \in Seq(Values) /\ batch' \in Seq(Values)
    BY <2>1, Fetched
  <2> QED
    BY <1>7, <2>2 DEF Fetch
<1>8. CASE Deliver
  BY <1>8, Delivered DEF Deliver, Shown, OwnEcho
<1>9. ASSUME NEW v \in Values, SetBegin(v) PROVE SettingTypeOK'
  BY <1>9, NormalTyped, BoundsAssumption DEF SetBegin, Quiet
<1>10. ASSUME NEW v \in Values, OtherWrites(v) PROVE SettingTypeOK'
  BY <1>10, WritesTyped, BoundsAssumption DEF OtherWrites
<1>11. CASE SetWrites
  BY <1>11, WritesTyped DEF SetWrites
<1>12. CASE SetFails
  <2>1. /\ notices' \in Seq(Values) /\ board' \in Values
        /\ wanted' \in Values \cup {None}
    BY <1>12, WritesTyped DEF SetFails
  <2> QED
    BY <1>12, <2>1, SettersTyped DEF SetFails, AfterFailure, Setters
<1>13. CASE SetRecords
  BY <1>13, SettersTyped DEF SetRecords, Recorded, Setters
<1>14. CASE Drop
  <2>1. setter' \in Setters
    BY <1>14, SettersTyped DEF Drop, Setters
  <2>2. doubt' \subseteq {"early", "dropped"}
    BY <1>14, DoubtTyped
  <2>3. board' \in Values /\ batch' \in Seq(Values) /\ notices' \in Seq(Values)
    BY <1>14, AtBootTyped, EmptySeq DEF Drop
  <2>4. drops' \in 0..MaxDrops
    BY <1>14, BoundsAssumption DEF Drop
  <2>5. rpyc' \in {"connect", "poll", "set"} \cup {None} /\ conn' = "down"
    BY <1>14 DEF Drop
  <2> QED
    BY <1>14, <2>1, <2>2, <2>3, <2>4, <2>5 DEF Drop, Setters
<1>15. CASE Restart
  <2>1. doubt' \subseteq {"early", "dropped"}
    BY <1>15, DoubtTyped
  <2>2. drops' \in 0..MaxDrops
    BY <1>15, BoundsAssumption DEF Restart
  <2>3. setter' \in Setters
    BY <1>15, SettersTyped DEF Restart
  <2>4. batch' \in Seq(Values) /\ notices' \in Seq(Values) /\ {snap', None} \subseteq Values \cup {None}
    BY <1>15, EmptySeq DEF Restart
  <2> QED
    BY <1>15, <2>1, <2>2, <2>3, <2>4 DEF Restart, Setters
<1>16. CASE UNCHANGED settingsVars
  BY <1>16 DEF settingsVars
<1> QED
  BY <1>1, <1>2, <1>3, <1>4, <1>5, <1>6, <1>7, <1>8, <1>9, <1>10, <1>11, <1>12, <1>13, <1>14,
     <1>15, <1>16 DEF SettingsNext

LEMMA HolderStep ==
    SettingTypeOK /\ OneHolder /\ [SettingsNext]_settingsVars => OneHolder'
<1> SUFFICES ASSUME SettingTypeOK, OneHolder, [SettingsNext]_settingsVars PROVE OneHolder'
  OBVIOUS
<1> USE NoneAssumption DEF OneHolder, Connected, Holders, memory, client, bounds, NoSetter
<1>1. CASE Dial
  BY <1>1 DEF Dial
<1>2. CASE Sanitize
  BY <1>2 DEF Sanitize
<1>3. CASE SeedOrReplay
  BY <1>3 DEF SeedOrReplay, Seeds, Read, SettingTypeOK
<1>4. CASE Register
  BY <1>4 DEF Register
<1>5. CASE RegisterAdopts
  BY <1>5 DEF RegisterAdopts, Read, SettingTypeOK
<1>6. CASE PublishSnapshot
  BY <1>6 DEF PublishSnapshot
<1>7. CASE Fetch
  <2>1. PICK n \in 1..Len(notices) : /\ batch' = SubSeq(notices, 1, n)
                                     /\ notices' = SubSeq(notices, n + 1, Len(notices))
    BY <1>7 DEF Fetch
  <2>2. batch' # <<>>
    BY <2>1, Fetched DEF SettingTypeOK
  <2> QED
    BY <1>7, <2>2 DEF Fetch
<1>8. CASE Deliver
  <2>1. /\ batch' = <<>> <=> Len(batch) = 1
        /\ Head(batch) # None
    BY <1>8, Delivered DEF Deliver, SettingTypeOK
  <2> QED
    BY <1>8, <2>1 DEF Deliver, OwnEcho
<1>9. ASSUME NEW v \in Values, SetBegin(v) PROVE OneHolder'
  BY <1>9 DEF SetBegin, Quiet
<1>10. ASSUME NEW v \in Values, OtherWrites(v) PROVE OneHolder'
  BY <1>10 DEF OtherWrites
<1>11. CASE SetWrites
  BY <1>11 DEF SetWrites, SettingTypeOK
<1>12. CASE SetFails
  BY <1>12 DEF SetFails
<1>13. CASE SetRecords
  BY <1>13 DEF SetRecords, Recorded, SettingTypeOK
<1>14. CASE Drop
  <2>1. setter' = [setter EXCEPT !.cut = (setter # NoSetter)] /\ conn' = "down"
    BY <1>14 DEF Drop
  <2>2. setter \in Setters /\ (setter.at = "idle" <=> setter = NoSetter)
    BY DEF SettingTypeOK, Setters
  <2>3. /\ setter'.at = setter.at /\ setter'.alone = setter.alone
        /\ setter'.cut <=> setter.at # "idle"
    BY <2>1, <2>2 DEF Setters
  <2>4. setter = NoSetter => setter' = NoSetter /\ ~setter.alone
    BY <2>1, SettersTyped
  <2>5. /\ batch' # <<>> => batch' = batch
        /\ rpyc' = IF setter = NoSetter /\ batch' = <<>> THEN None ELSE rpyc
    BY <1>14 DEF Drop
  <2> HIDE DEF NoSetter
  <2> QED
    BY <2>1, <2>2, <2>3, <2>4, <2>5
<1>15. CASE Restart
  BY <1>15 DEF Restart
<1>16. CASE UNCHANGED settingsVars
  BY <1>16 DEF settingsVars
<1> QED
  BY <1>1, <1>2, <1>3, <1>4, <1>5, <1>6, <1>7, <1>8, <1>9, <1>10, <1>11, <1>12, <1>13, <1>14,
     <1>15, <1>16 DEF SettingsNext

-----------------------------------------------------------------------------
(* What is on its way.                                                     *)

LEMMA LatestWritten ==
    ASSUME SettingTypeOK, NEW v \in Values, Writes(v), conn # "down", NEW x
    PROVE  Latest(x)' = v /\ board' = v /\ notices' # <<>>
BY WritesTyped, Appended DEF SettingTypeOK, Latest

LEMMA FollowsStep ==
    ASSUME SettingTypeOK, OneHolder, Follows, [SettingsNext]_settingsVars
    PROVE  Follows'
<1> USE DEF Follows, memory, client, bounds
<1>1. CASE Dial
  BY <1>1 DEF Dial, Latest
<1>2. CASE Sanitize
  <2>1. Normal(Read) \in Values
    BY NormalTyped DEF SettingTypeOK, Read
  <2>2. CASE Normal(Read) # Read
    <3>1. Writes(Normal(Read)) /\ conn = "made" /\ conn' = "sane"
      BY <1>2, <2>2 DEF Sanitize
    <3> QED
      BY <2>1, <3>1, LatestWritten
  <2>3. CASE Normal(Read) = Read
    BY <1>2, <2>3 DEF Sanitize, Latest
  <2> QED
    BY <2>2, <2>3
<1>3. CASE SeedOrReplay
  <2>1. CASE Writes(Normal(snap)) /\ snap # None
    <3>1. Normal(snap) \in Values /\ conn = "sane" /\ conn' = "ready"
      BY <1>3, <2>1, NormalTyped DEF SettingTypeOK, SeedOrReplay
    <3> QED
      BY <2>1, <3>1, LatestWritten
  <2>2. CASE UNCHANGED <<board, notices>>
    BY <1>3, <2>2 DEF SeedOrReplay, Latest
  <2> QED
    BY <1>3, <2>1, <2>2 DEF SeedOrReplay, Seeds
<1>4. CASE Register
  BY <1>4 DEF Register, Latest
<1>5. CASE RegisterAdopts
  BY <1>5 DEF RegisterAdopts, Latest
<1>6. CASE PublishSnapshot
  BY <1>6 DEF PublishSnapshot, Latest, Read, OneHolder
<1>7. CASE Fetch
  <2>1. PICK n \in 1..Len(notices) : /\ batch' = SubSeq(notices, 1, n)
                                     /\ notices' = SubSeq(notices, n + 1, Len(notices))
    BY <1>7 DEF Fetch
  <2>2. notices # <<>> /\ board = notices[Len(notices)]
    BY <1>7, <2>1, EmptySeq DEF Fetch, Latest, SettingTypeOK
  <2>3. Latest(cached)' = notices[Len(notices)]
    BY <1>7, <2>1, Fetched DEF Fetch, Latest, SettingTypeOK
  <2> QED
    BY <1>7, <2>2, <2>3 DEF Fetch
<1>8. CASE Deliver
  <2>1. CASE conn = "up"
    <3>1. cached' = Head(batch) /\ view' = Head(batch) /\ batch' = Tail(batch)
          /\ UNCHANGED <<board, notices, conn>>
      BY <1>8, <2>1 DEF Deliver, Shown
    <3>2. Latest(cached)' = Latest(cached)
      BY <1>8, <2>1, <3>1, Delivered DEF Deliver, Latest, SettingTypeOK
    <3> QED
      BY <2>1, <3>1, <3>2
  <2>2. CASE conn # "up"
    BY <1>8, <2>2 DEF Deliver, Latest
  <2> QED
    BY <2>1, <2>2
<1>9. ASSUME NEW v \in Values, SetBegin(v) PROVE Follows'
  BY <1>9 DEF SetBegin, Latest
<1>10. ASSUME NEW v \in Values, OtherWrites(v) PROVE Follows'
  BY <1>10, LatestWritten, WritesTyped DEF OtherWrites
<1>11. CASE SetWrites
  <2>1. setter.value \in Values
    BY DEF SettingTypeOK
  <2> QED
    BY <1>11, <2>1, LatestWritten, WritesTyped DEF SetWrites
<1>12. CASE SetFails
  <2>1. setter.value \in Values
    BY DEF SettingTypeOK
  <2>2. CASE Writes(setter.value)
    BY <1>12, <2>1, <2>2, LatestWritten, WritesTyped DEF SetFails
  <2>3. CASE UNCHANGED <<board, notices>>
    BY <1>12, <2>3 DEF SetFails, Latest
  <2> QED
    BY <1>12, <2>2, <2>3 DEF SetFails
<1>13. CASE SetRecords
  BY <1>13 DEF SetRecords, Latest
<1>14. CASE Drop \/ Restart
  BY <1>14 DEF Drop, Restart
<1>15. CASE UNCHANGED settingsVars
  BY <1>15 DEF settingsVars, Latest
<1> QED
  BY <1>1, <1>2, <1>3, <1>4, <1>5, <1>6, <1>7, <1>8, <1>9, <1>10, <1>11, <1>12, <1>13, <1>14,
     <1>15 DEF SettingsNext

\* Only a set_param that is not cut off by the end of its connection can have
\* written; a write is in the notifications as long as it holds _rpyc_lock.
LEMMA WriteKnownStep ==
    ASSUME SettingTypeOK, OneHolder, WriteKnown, [SettingsNext]_settingsVars
    PROVE  WriteKnown'
<1> USE DEF WriteKnown, memory, client, bounds
<1>1. ASSUME setter.at = "idle", UNCHANGED setter PROVE WriteKnown'
  BY <1>1
<1>2. ASSUME UNCHANGED <<board, notices, setter, wanted>> PROVE WriteKnown'
  BY <1>2
<1>3. CASE Dial
  <2>1. setter.at = "idle" \/ setter.cut
    BY <1>3 DEF Dial, OneHolder
  <2> QED
    BY <1>3, <2>1 DEF Dial
<1>4. CASE Sanitize \/ SeedOrReplay \/ Fetch
  <2>1. setter.at = "idle" /\ UNCHANGED setter
    BY <1>4, NoneAssumption DEF Sanitize, SeedOrReplay, Fetch, OneHolder, Holders
  <2> QED
    BY <1>1, <2>1
<1>5. CASE Register \/ RegisterAdopts \/ PublishSnapshot \/ Deliver
  BY <1>2, <1>5 DEF Register, RegisterAdopts, PublishSnapshot, Deliver
<1>6. ASSUME NEW v \in Values, SetBegin(v) PROVE WriteKnown'
  BY <1>6 DEF SetBegin
<1>7. ASSUME NEW v \in Values, OtherWrites(v) PROVE WriteKnown'
  <2>1. setter' = setter /\ board' = v /\ wanted' = v
    BY <1>7, WritesTyped DEF OtherWrites
  <2>2. ASSUME setter.at = "record", ~setter.cut
        PROVE  \E i \in 1..Len(notices') : notices'[i] = setter.value
    <3>1. conn # "down"
      BY <2>2 DEF OneHolder
    <3>2. notices' = Append(notices, v) /\ notices \in Seq(Values)
      BY <1>7, <3>1, WritesTyped DEF OtherWrites, SettingTypeOK
    <3>3. /\ Len(notices') = Len(notices) + 1 /\ Len(notices) \in Nat
          /\ \A i \in 1..Len(notices) : notices'[i] = notices[i]
      BY <3>2, Appended
    <3>4. PICK i \in 1..Len(notices) : notices[i] = setter.value
      BY <2>2
    <3> QED
      BY <3>3, <3>4
  <2> QED
    BY <2>1, <2>2
<1>8. CASE SetWrites
  <2>1. /\ setter.value \in Values /\ setter'.value = setter.value
        /\ conn # "down"
    BY <1>8 DEF SetWrites, SettingTypeOK, OneHolder
  <2>2. /\ board' = setter.value /\ wanted' = setter.value
        /\ notices' = Append(notices, setter.value) /\ notices \in Seq(Values)
    BY <1>8, <2>1, WritesTyped DEF SetWrites, SettingTypeOK
  <2>3. Len(notices') \in 1..Len(notices') /\ notices'[Len(notices')] = setter.value
    BY <2>1, <2>2, Appended
  <2> QED
    BY <2>1, <2>2, <2>3
<1>9. CASE SetFails \/ SetRecords \/ Restart
  BY <1>9 DEF SetFails, SetRecords, Restart, NoSetter
<1>10. CASE Drop
  <2>1. setter' = [setter EXCEPT !.cut = (setter # NoSetter)] /\ setter \in Setters
    BY <1>10 DEF Drop, SettingTypeOK, Setters
  <2>2. setter'.at = setter.at /\ (setter'.cut <=> setter # NoSetter)
    BY <2>1 DEF Setters
  <2>3. setter'.at = "record" => setter'.cut
    BY <2>2, SettersTyped
  <2> QED
    BY <2>3
<1>11. CASE UNCHANGED settingsVars
  BY <1>2, <1>11 DEF settingsVars
<1> QED
  BY <1>3, <1>4, <1>5, <1>6, <1>7, <1>8, <1>9, <1>10, <1>11 DEF SettingsNext

-----------------------------------------------------------------------------
(* The snapshot.                                                           *)

\* Without a write on its way the client has what the board has.
LEMMA ToldClient ==
    ASSUME Known, notices = <<>>, conn # "down", conn # "up" \/ batch = <<>>
    PROVE  cached = board
BY DEF Known, Follows, Latest

LEMMA SetterFree ==
    ASSUME Known, rpyc # "set"
    PROVE  setter.at = "idle" /\ setter = NoSetter
BY DEF Known, OneHolder

LEMMA NoneUnwritten == SettingTypeOK => None # board /\ None # cached
BY NoneAssumption DEF SettingTypeOK

\* A write that was recorded is the last word when it is alone on its way.
LEMMA RecordedLast ==
    ASSUME Known, setter.at = "record", ~setter.cut, conn = "up"
    PROVE  /\ notices # <<>> /\ batch = <<>> /\ Recorded = setter.value
           /\ Len(notices) = 1 => board = setter.value
<1>1. PICK i \in 1..Len(notices) : notices[i] = setter.value
  BY DEF Known, WriteKnown
<1>2. notices # <<>>
  BY <1>1, EmptySeq
<1>3. batch = <<>> /\ Recorded = setter.value
  BY NoneAssumption DEF Known, OneHolder, Connected, Recorded, Holders
<1>4. board = notices[Len(notices)]
  BY <1>2 DEF Known, Follows, Latest
<1> QED
  BY <1>1, <1>2, <1>3, <1>4

\* The doubt that a write fell into the making of a connection goes with a later
\* set_param alone.
LEMMA DoubtKept ==
    ASSUME [SettingsNext]_settingsVars, ~SetRecords
    PROVE  doubt \subseteq doubt'
BY DEF SettingsNext, settingsVars, Dial, Sanitize, SeedOrReplay, Register, RegisterAdopts,
       PublishSnapshot, Fetch, Deliver, SetBegin, OtherWrites, SetWrites, SetFails, Drop, Restart

LEMMA TracksStep ==
    ASSUME Known, Tracks, [SettingsNext]_settingsVars
    PROVE  Tracks'
<1> SUFFICES ASSUME "early" \notin doubt' PROVE Tracks'
  BY DEF Tracks
<1>1. ~SetRecords => "early" \notin doubt
  BY DoubtKept
<1>2. SettingTypeOK /\ OneHolder
  BY DEF Known
<1>3. CASE Dial
  BY <1>1, <1>2, <1>3 DEF Dial, Tracks, OneHolder, Connected, memory, client, bounds
<1>4. CASE Sanitize
  <2>1. setter.at = "idle" /\ UNCHANGED <<setter, cached, doubt>> /\ conn' = "sane"
    BY <1>4, SetterFree, NoneAssumption DEF Sanitize, Holders
  <2>2. cached = board
    BY <1>1, <1>4, <2>1, ToldClient DEF Sanitize, Tracks
  <2>3. Normal(Read) \in Values
    BY <1>2, NormalTyped DEF SettingTypeOK, Read
  <2>4. board' = Normal(cached)
    BY <1>2, <1>4, <2>2, <2>3, WritesTyped DEF Sanitize, Read
  <2> QED
    BY <2>1, <2>4 DEF Tracks, Connected
<1>5. CASE SeedOrReplay
  <2>1. setter.at = "idle" /\ UNCHANGED setter /\ conn = "sane" /\ conn' = "ready"
    BY <1>2, <1>5, SetterFree DEF SeedOrReplay, OneHolder
  <2>2. ASSUME UNCHANGED <<board, notices>>, snap' = cached, notices' = <<>>
        PROVE  Normal(snap') = Normal(board')
    BY <2>1, <2>2, ToldClient
  <2>3. ASSUME Writes(Normal(snap)), snap # None PROVE notices' # <<>>
    <3>1. Normal(snap) \in Values
      BY <1>2, <2>3, NormalTyped DEF SettingTypeOK
    <3> QED
      BY <1>2, <2>1, <2>3, <3>1, LatestWritten
  <2>4. notices' = <<>> => Normal(snap') = Normal(board')
    BY <1>5, <2>2, <2>3 DEF SeedOrReplay, Seeds, Read
  <2> QED
    BY <2>1, <2>4 DEF Tracks, Told
<1>6. CASE Register
  BY <1>1, <1>6 DEF Register, Tracks, Told, Connected
<1>7. CASE RegisterAdopts
  <2>1. notices = <<>> => Normal(cached) = Normal(board)
    BY <1>7, ToldClient DEF RegisterAdopts
  <2> QED
    BY <1>1, <1>7, <2>1 DEF RegisterAdopts, Tracks, Told, Connected, Read
<1>8. CASE PublishSnapshot
  <2>1. setter.at = "idle" \/ setter.cut => conn # "registered" \/ setter.at = "idle"
    BY <1>2 DEF OneHolder
  <2>2. pending = None /\ conn = "registered" /\ conn' = "up"
    BY <1>1, <1>8 DEF PublishSnapshot, Tracks
  <2> QED
    BY <1>1, <1>2, <1>8, <2>1, <2>2, NoneUnwritten
       DEF PublishSnapshot, Tracks, Told, Connected, memory
<1>9. CASE Fetch
  <2>1. PICK n \in 1..Len(notices) : /\ batch' = SubSeq(notices, 1, n)
                                     /\ notices' = SubSeq(notices, n + 1, Len(notices))
    BY <1>9 DEF Fetch
  <2>2. /\ batch' # <<>> /\ Len(batch') = n /\ Len(notices') = Len(notices) - n
        /\ Len(notices) \in Nat /\ n \in Nat
    BY <1>2, <2>1, Fetched DEF SettingTypeOK
  <2>3. batch = <<>> /\ Len(batch) = 0
    BY <1>2, <1>9, NoneAssumption, EmptySeq DEF Fetch, OneHolder, Holders
  <2>4. Len(notices') + Len(batch') = Len(notices) + Len(batch)
    BY <2>2, <2>3
  <2>5. conn = "up" /\ UNCHANGED <<board, conn, snap, pending, setter, doubt>>
    BY <1>9 DEF Fetch, memory
  <2> QED
    BY <1>1, <1>9, <2>2, <2>4, <2>5 DEF Tracks, Told, Connected
<1>10. CASE Deliver
  <2>1. CASE conn # "up"
    <3>1. conn \in {"down", "made"} /\ UNCHANGED <<board, notices, conn, setter, doubt>>
      BY <1>2, <1>10, <2>1 DEF Deliver, OneHolder
    <3> QED
      BY <1>1, <1>10, <3>1 DEF Tracks, Connected
  <2>2. CASE conn = "up"
    <3>1. setter.at = "idle"
      BY <1>2, <1>10 DEF Deliver, OneHolder
    <3>2. /\ pending' = None /\ snap' = IF pending = Head(batch) THEN snap ELSE Head(batch)
          /\ batch' = Tail(batch) /\ UNCHANGED <<board, notices, conn, setter, doubt>>
      BY <1>10 DEF Deliver, OwnEcho
    <3>3. None # board
      BY <1>2, NoneUnwritten
    <3>4. ASSUME notices = <<>>, Tail(batch) = <<>>
          PROVE  Normal(snap') = Normal(board)
      <4>1. /\ Len(batch) = 1 /\ board = Head(batch) /\ Len(notices) = 0
        BY <1>2, <1>10, <2>2, <3>4, Delivered, EmptySeq
           DEF Known, Follows, Latest, Deliver, SettingTypeOK
      <4>2. pending = board => Normal(snap) = Normal(board)
        BY <1>1, <2>2, <3>1, <3>2, <4>1 DEF Tracks
      <4> QED
        BY <3>2, <4>1, <4>2
    <3> QED
      BY <2>2, <3>1, <3>2, <3>3, <3>4 DEF Tracks, Told, Connected
  <2> QED
    BY <2>1, <2>2
<1>11. ASSUME NEW v \in Values, SetBegin(v) PROVE Tracks'
  <2>1. conn = "up" /\ UNCHANGED <<board, notices, batch, conn, snap, doubt>>
        /\ setter'.at = "write"
    BY <1>11 DEF SetBegin, client
  <2> QED
    BY <1>1, <1>11, <2>1 DEF Tracks, Told, Connected
<1>12. ASSUME NEW v \in Values, OtherWrites(v) PROVE Tracks'
  <2>1. conn = "up" /\ UNCHANGED <<batch, conn, snap, pending, setter, doubt>>
    BY <1>12 DEF OtherWrites, memory
  <2>2. board' = v /\ notices' = Append(notices, v) /\ notices \in Seq(Values)
    BY <1>2, <1>12, <2>1, WritesTyped DEF OtherWrites, SettingTypeOK
  <2>3. notices' # <<>> /\ Len(notices') = Len(notices) + 1 /\ Len(notices) \in Nat
    BY <2>2, Appended
  <2>4. ASSUME setter.at = "idle", Len(notices') + Len(batch) = 1 PROVE pending # v
    <3>1. Len(batch) \in Nat /\ batch \in Seq(Values)
      BY <1>2 DEF SettingTypeOK
    <3>2. Len(notices) = 0 /\ Len(batch) = 0
      BY <2>3, <2>4, <3>1
    <3>3. Told
      BY <2>2, <3>1, <3>2, EmptySeq DEF Told
    <3> QED
      BY <1>1, <1>12, <2>1, <2>4, <3>3, NoneAssumption DEF Tracks
  <2> QED
    BY <1>1, <1>12, <2>1, <2>2, <2>3, <2>4 DEF Tracks, Told, Connected
<1>13. CASE SetWrites
  <2>1. conn = "up" /\ conn' = "up" /\ setter'.at = "record" /\ setter.value \in Values
    BY <1>1, <1>2, <1>13 DEF SetWrites, Tracks, SettingTypeOK
  <2>2. notices' # <<>>
    BY <1>2, <1>13, <2>1, LatestWritten DEF SetWrites
  <2> QED
    BY <2>1, <2>2 DEF Tracks, Told
<1>14. CASE SetFails
  <2>1. setter' = NoSetter /\ pending' = None /\ UNCHANGED <<batch, conn, snap, cached, doubt>>
    BY <1>14 DEF SetFails, AfterFailure
  <2>2. None # board'
    <3>1. SettingTypeOK'
      BY <1>2, TypeStep
    <3> QED
      BY <3>1, NoneAssumption DEF SettingTypeOK
  <2>3. CASE ~setter.cut /\ Writes(setter.value)
    <3>1. conn = "up" /\ setter.value \in Values
      BY <1>1, <1>2, <1>14, <2>3 DEF SetFails, Tracks, SettingTypeOK
    <3>2. notices' # <<>>
      BY <1>2, <2>3, <3>1, LatestWritten
    <3> QED
      BY <2>1, <2>2, <3>1, <3>2, SettersTyped DEF Tracks, Told
  <2>4. CASE UNCHANGED <<board, notices>>
    BY <1>1, <1>14, <2>1, <2>2, <2>4, SettersTyped DEF Tracks, Told
  <2> QED
    BY <1>14, <2>3, <2>4 DEF SetFails
<1>15. CASE SetRecords
  <2>1. /\ setter.at = "record" /\ setter' = NoSetter /\ snap' = Recorded
        /\ UNCHANGED <<board, notices, batch, cached, conn, pending>>
    BY <1>15 DEF SetRecords, client
  <2>2. CASE setter.cut
    <3>1. "early" \notin doubt /\ conn \in {"down", "made"}
      BY <1>2, <1>15, <2>2 DEF SetRecords, OneHolder
    <3> QED
      BY <2>1, <3>1, SettersTyped DEF Tracks, Connected
  <2>3. CASE ~setter.cut
    <3>1. conn = "up"
      BY <1>2, <1>15, <2>1, <2>3 DEF SetRecords, OneHolder, Tracks
    <3>2. /\ notices # <<>> /\ batch = <<>> /\ snap' = setter.value
          /\ Len(notices) = 1 => board = setter.value
      BY <2>1, <2>3, <3>1, RecordedLast
    <3>3. Len(batch) = 0 /\ Len(notices) \in Nat
      BY <1>2, <3>2, EmptySeq DEF SettingTypeOK
    <3> QED
      BY <2>1, <3>1, <3>2, <3>3, SettersTyped DEF Tracks, Told, Connected
  <2> QED
    BY <2>2, <2>3
<1>16. CASE Drop
  <2>1. conn' = "down"
    BY <1>16 DEF Drop
  <2>2. OneHolder'
    BY <1>2, HolderStep
  <2> QED
    BY <2>1, <2>2 DEF Tracks, Connected, OneHolder
<1>17. CASE Restart
  BY <1>17, SettersTyped DEF Restart, Tracks, Connected
<1>18. CASE UNCHANGED settingsVars
  BY <1>1, <1>18 DEF settingsVars, Tracks, Told, client, memory, bounds
<1> QED
  BY <1>3, <1>4, <1>5, <1>6, <1>7, <1>8, <1>9, <1>10, <1>11, <1>12, <1>13, <1>14, <1>15, <1>16,
     <1>17, <1>18 DEF SettingsNext

\* What was set survives.
LEMMA SurvivesStep ==
    ASSUME Known, Tracks, Survives, [SettingsNext]_settingsVars
    PROVE  Survives'
<1> SUFFICES ASSUME doubt' = {} PROVE Survives'
  BY DEF Survives
<1>1. ~SetRecords => doubt = {}
  BY DoubtKept
<1>2. SettingTypeOK /\ OneHolder
  BY DEF Known
<1>3. CASE Dial
  BY <1>1, <1>3 DEF Dial, Survives, Safe, Connected, memory
<1>4. CASE Sanitize
  BY <1>1, <1>4 DEF Sanitize, Survives, Safe, Connected, memory
<1>5. CASE SeedOrReplay
  <2>1. conn = "sane" /\ conn' = "ready" /\ board = Normal(cached) /\ UNCHANGED <<wanted, doubt>>
    BY <1>5 DEF SeedOrReplay, Tracks
  <2>2. ASSUME wanted # None PROVE board' = Normal(wanted)
    <3>1. snap # None /\ Normal(snap) = Normal(wanted)
      BY <1>1, <1>5, <2>1, <2>2 DEF Survives, Safe, Connected
    <3>2. Normal(snap) \in Values
      BY <1>2, <3>1, NormalTyped DEF SettingTypeOK
    <3> QED
      BY <1>2, <1>5, <2>1, <3>1, <3>2, WritesTyped DEF SeedOrReplay, Seeds, Read
  <2> QED
    BY <2>1, <2>2 DEF Survives, Connected
<1>6. CASE Register \/ RegisterAdopts \/ PublishSnapshot
  BY <1>1, <1>6 DEF Register, RegisterAdopts, PublishSnapshot, Survives, Connected
<1>7. CASE Fetch
  BY <1>1, <1>7 DEF Fetch, Survives, Connected
<1>8. CASE Deliver
  <2>1. /\ batch # <<>> /\ batch' = Tail(batch) /\ snap' \in {snap, Head(batch)}
        /\ UNCHANGED <<board, conn, setter, wanted, doubt>>
    BY <1>8 DEF Deliver
  <2>2. ASSUME wanted # None, Safe(batch) PROVE Safe(batch)'
    <3>1. \A i \in 1..Len(batch) : Normal(batch[i]) = Normal(wanted)
      BY <2>2 DEF Safe
    <3>2. /\ Head(batch) = batch[1] /\ Len(Tail(batch)) = Len(batch) - 1
          /\ Len(batch) \in Nat \ {0}
          /\ \A i \in 1..Len(Tail(batch)) : Tail(batch)[i] = batch[i + 1]
      BY <1>2, <2>1, HeadTailProperties, EmptySeq DEF SettingTypeOK
    <3>3. Normal(Head(batch)) = Normal(wanted)
      BY <3>1, <3>2
    <3>4. \A i \in 1..Len(Tail(batch)) : Normal(Tail(batch)[i]) = Normal(wanted)
      BY <3>1, <3>2
    <3>5. Head(batch) # None
      BY <1>2, <2>1, <3>2, NoneAssumption DEF SettingTypeOK
    <3>6. snap' # None /\ Normal(snap') = Normal(wanted)
      BY <2>1, <2>2, <3>3, <3>5 DEF Safe
    <3> QED
      BY <2>1, <3>4, <3>6 DEF Safe
  <2>3. Safe(batch) => Safe(batch)'
    BY <2>1, <2>2 DEF Safe
  <2> QED
    BY <1>1, <1>8, <2>1, <2>3 DEF Survives, Connected
<1>9. ASSUME NEW v \in Values, SetBegin(v) PROVE Survives'
  <2>1. conn = "up" /\ UNCHANGED <<board, conn, wanted, doubt>>
    BY <1>9 DEF SetBegin, client
  <2> QED
    BY <1>1, <1>9, <2>1 DEF Survives, Connected
<1>10. ASSUME NEW v \in Values, OtherWrites(v) PROVE Survives'
  <2>1. conn' = "up" /\ board' = v /\ wanted' = v
    BY <1>2, <1>10, WritesTyped DEF OtherWrites
  <2> QED
    BY <2>1 DEF Survives, Connected
<1>11. CASE SetWrites
  <2>1. conn' = "up" /\ board' = setter.value /\ wanted' = setter.value
    BY <1>1, <1>2, <1>11, WritesTyped DEF SetWrites, Tracks, SettingTypeOK
  <2> QED
    BY <2>1 DEF Survives, Connected
<1>12. CASE SetFails
  <2>1. conn \in Connected /\ conn' = conn /\ doubt' = doubt
    BY <1>1, <1>12, SettersTyped DEF SetFails, Survives
  <2>2. \/ UNCHANGED <<board, wanted>>
        \/ board' = setter.value /\ wanted' = setter.value
    BY <1>2, <1>12, WritesTyped DEF SetFails, SettingTypeOK
  <2> QED
    BY <1>1, <1>12, <2>1, <2>2 DEF Survives
<1>13. CASE SetRecords
  <2>1. /\ setter.at = "record" /\ UNCHANGED <<board, conn, wanted>>
        /\ doubt = {} \/ (setter.alone /\ ~setter.cut)
    BY <1>13 DEF SetRecords, client
  <2>2. CASE doubt = {}
    <3>1. conn \in Connected
      BY <2>1, <2>2, SettersTyped DEF Survives
    <3> QED
      BY <2>1, <2>2, <3>1 DEF Survives
  <2>3. CASE setter.alone /\ ~setter.cut
    <3>1. conn = "up" /\ board = wanted
      BY <1>2, <2>1, <2>3 DEF OneHolder, Known, WriteKnown
    <3> QED
      BY <2>1, <3>1 DEF Survives, Connected
  <2> QED
    BY <2>1, <2>2, <2>3
<1>14. CASE Drop \/ Restart
  <2>1. doubt = {} /\ "early" \notin doubt
    BY <1>1, <1>14 DEF Drop, Restart, SetRecords
  <2>2. /\ doubt' = doubt \cup CutOff(batch') /\ batch' \in {<<>>, batch}
        /\ conn' = "down" /\ UNCHANGED <<snap, wanted>>
    BY <1>14 DEF Drop, Restart, memory
  <2>3. setter = NoSetter /\ ((notices = <<>> /\ batch = <<>>) \/ Safe(batch'))
    BY <2>2 DEF CutOff
  <2>4. setter' = NoSetter
    BY <1>14, <2>3, SettersTyped DEF Drop, Restart
  <2>5. ASSUME notices = <<>>, batch = <<>>, wanted # None
        PROVE  snap # None /\ Normal(snap) = Normal(wanted)
    <3>1. CASE conn \in Connected
      <4>1. Normal(snap) = Normal(board) /\ snap # None
        BY <1>2, <2>1, <2>5, <3>1 DEF Tracks, Told, OneHolder
      <4>2. board \in {wanted, Normal(wanted)} /\ wanted \in Values
        BY <1>2, <2>1, <2>5, <3>1 DEF Survives, SettingTypeOK
      <4> QED
        BY <4>1, <4>2, NormalTyped
    <3>2. CASE conn \notin Connected
      BY <2>1, <2>5, <3>2 DEF Survives, Safe
    <3> QED
      BY <3>1, <3>2
  <2>6. ASSUME notices = <<>>, batch = <<>> PROVE Safe(batch')
    <3>1. batch' = <<>> /\ 1..Len(<<>>) = {}
      BY <2>2, <2>6, EmptySeq
    <3> QED
      BY <2>5, <2>6, <3>1 DEF Safe
  <2>7. Safe(batch)'
    BY <2>2, <2>3, <2>6 DEF Safe
  <2> QED
    BY <2>2, <2>4, <2>7 DEF Survives, Connected
<1>15. CASE UNCHANGED settingsVars
  BY <1>1, <1>15 DEF settingsVars, Survives, Safe, Connected, client, memory, bounds
<1> QED
  BY <1>3, <1>4, <1>5, <1>6, <1>7, <1>8, <1>9, <1>10, <1>11, <1>12, <1>13, <1>14, <1>15
     DEF SettingsNext

LEMMA SettingsStart == SettingsInit => SettingsInv
<1> SUFFICES ASSUME SettingsInit PROVE SettingsInv
  OBVIOUS
<1>1. SettingTypeOK
  <2>1. setter \in Setters /\ cached \in Values /\ notices \in Seq(Values) /\ batch \in Seq(Values)
    BY AtBootTyped, SettersTyped, EmptySeq DEF SettingsInit
  <2>2. sets \in 0..MaxSets /\ others \in 0..MaxOthers /\ drops \in 0..MaxDrops
    BY BoundsAssumption DEF SettingsInit
  <2> QED
    BY <2>1, <2>2 DEF SettingsInit, SettingTypeOK, Setters, Phases, Holders
<1>2. OneHolder /\ Follows /\ WriteKnown
  BY NoneAssumption, SettersTyped
     DEF SettingsInit, OneHolder, Follows, WriteKnown, Connected, Holders
<1>3. Tracks /\ Survives
  BY SettersTyped DEF SettingsInit, Tracks, Survives, Safe, Connected
<1> QED
  BY <1>1, <1>2, <1>3 DEF SettingsInv, Known

LEMMA SettingsStep == SettingsInv /\ [SettingsNext]_settingsVars => SettingsInv'
<1> SUFFICES ASSUME SettingsInv, [SettingsNext]_settingsVars PROVE SettingsInv'
  OBVIOUS
<1>1. Known'
  BY TypeStep, HolderStep, FollowsStep, WriteKnownStep DEF SettingsInv, Known
<1> QED
  BY <1>1, TracksStep, SurvivesStep DEF SettingsInv

\* One parameter, from the board to the snapshot and to the browsers.
THEOREM SettingsKnown == SettingsSpec => []SettingsInv
BY SettingsStart, SettingsStep, PTL DEF SettingsSpec

\* What somebody set survives reboots, lost connections and restarts.
THEOREM SettingsSurviveHolds == SettingsSpec => []SettingsSurvive
<1>1. SettingsInv => SettingsSurvive
  BY DEF SettingsInv, SettingsSurvive, Survives, Quiet, Connected
<1> QED
  BY <1>1, SettingsKnown, PTL

\* Once all is told, the snapshot is what the board has.
THEOREM SnapshotAgreesHolds == SettingsSpec => []SnapshotAgrees
<1>1. SettingsInv => SnapshotAgrees
  BY DEF SettingsInv, SnapshotAgrees, Tracks, Told, Quiet, Connected
<1> QED
  BY <1>1, SettingsKnown, PTL

\* Once all is told, the browsers show what the board has.
THEOREM BrowserAgreesHolds == SettingsSpec => []BrowserAgrees
<1>1. SettingsInv => BrowserAgrees
  BY DEF SettingsInv, Known, BrowserAgrees, Follows, Latest, Quiet
<1> QED
  BY <1>1, SettingsKnown, PTL
=============================================================================
