------------------------- MODULE BoardEventsProofs -------------------------
(***************************************************************************)
(* Proofs about the durable timeline of a board, for any length of the     *)
(* history, number of calls, reboots, and failed or torn writes: what the  *)
(* store takes for written is what a restart would load, and the history   *)
(* has no more reboots than the board made by itself.                      *)
(***************************************************************************)
EXTENDS BoardEvents, SequenceTheorems, FiniteSetTheorems, TLAPS

\* The state a flush would write.
Current == [bootId |-> bootId, events |-> events]

\* A change of the boot id is not marked dirty before its event is recorded.
Clean == ~dirty /\ ~inverted /\ \A t \in Threads : ~At(t, "detected")

\* The newest snapshot is in the hands of a thread, and every other one in a
\* thread's hands is older.
InHand ==
    \E h \in Threads :
        /\ At(h, "submit") /\ thread[h].payload = Current
        /\ \A u \in Threads \ {h} : At(u, "submit") => u \in thread[h].older

\* What will be on disk once the writer has nothing left to do.
HandedOver ==
    /\ \A t \in Threads : ~At(t, "submit")
    /\ writer.queue # <<>> => writer.queue[Len(writer.queue)] = Current
    /\ writer.queue = <<>> /\ writer.write # NoWrite => writer.write.payload = Current
    /\ writer.queue = <<>> /\ writer.write = NoWrite => Loaded = Current

\* Only after the writer is gone does a thread write by itself.
WriterWrites ==
    ~inverted => /\ \A t \in Threads : thread[t].at \notin {"inline", "writing"}
                 /\ writer.write.by = None

\* A write in place that is not the writer's is of a thread that waits for it.
InPlace == writer.write.by \in Threads => At(writer.write.by, "writing")

WrittenInv == TypeOK /\ InPlace /\ WriterWrites /\ (Clean => InHand \/ HandedOver)

-----------------------------------------------------------------------------
(* Places and payloads.                                                    *)

LEMMA PlaceFields ==
    ASSUME NEW p \in Places
    PROVE  /\ p.at \in {"flush", "submit", "inline", "writing"} => p.then \in Nexts
           /\ p.at \in {"submit", "inline"} => p.payload \in Payloads
           /\ p.at = "submit" => p.older \in SUBSET Threads
           /\ p.at \in {"read", "noting", "detected"} => p.id \in Nat
BY DEF Places

LEMMA PlainPlaces ==
    /\ Idle \in Places /\ Idle \in Nexts
    /\ \A n \in Nexts : n \in Places /\ Flushing(n) \in Places
    /\ \A place \in {"forgetting", "closing", "joining", "closed", "completed"} :
         [at |-> place] \in Places
    /\ [at |-> "forgetting"] \in Nexts /\ [at |-> "closing"] \in Nexts
    /\ \A id \in Nat : /\ [at |-> "read", id |-> id] \in Places
                       /\ [at |-> "noting", id |-> id] \in Places
                       /\ [at |-> "detected", id |-> id] \in Places
BY DEF Idle, Places, Nexts, Flushing

LEMMA FlushPlaces ==
    ASSUME NEW n \in Nexts, NEW b \in Payloads, NEW o \in SUBSET Threads
    PROVE  /\ [at |-> "submit", then |-> n, payload |-> b, older |-> o] \in Places
           /\ [at |-> "inline", then |-> n, payload |-> b] \in Places
           /\ [at |-> "writing", then |-> n] \in Places
BY DEF Places

LEMMA PruneTyped ==
    ASSUME NEW items \in Seq(Kinds), NEW kind \in Kinds
    PROVE  Prune(Append(items, kind)) \in Seq(Kinds)
<1> DEFINE all == Append(items, kind)
<1>1. all \in Seq(Kinds) /\ Len(all) \in Nat
  BY AppendProperties, LenProperties
<1>2. CASE Len(all) <= MaxPerDevice
  BY <1>1, <1>2, BoundsAssumption DEF Prune
<1>3. CASE Len(all) > MaxPerDevice
  <2> HIDE DEF all
  <2>1. Len(all) - MaxPerDevice + 1 \in 1..(Len(all) + 1)
    BY <1>1, <1>3, BoundsAssumption
  <2>2. SubSeq(all, Len(all) - MaxPerDevice + 1, Len(all)) \in Seq(Kinds)
    BY <1>1, <1>3, <2>1, BoundsAssumption, SubSeqProperties
  <2> QED
    BY <1>3, <2>2 DEF Prune, all
<1> QED
  BY <1>1, <1>2, <1>3, BoundsAssumption

ThreadTypes == thread \in [Threads -> Places]
StoreTypes == events \in Seq(Kinds) /\ bootId \in Ids /\ dirty \in BOOLEAN
WriterTypes ==
    writer \in [open : BOOLEAN, queue : Seq(Payloads),
                write : {NoWrite} \cup [by : Threads \cup {None}, payload : Payloads]]
DiskTypes == disk \in [torn : BOOLEAN, bootId : Ids, events : Seq(Kinds)]
OtherTypes ==
    /\ board \in Nat /\ recovery \in {"none", "active", "landed"} /\ deleted \in BOOLEAN
    /\ calls \in Nat /\ faults \in Nat /\ spontaneous \in Nat
    /\ crossed \in BOOLEAN /\ inverted \in BOOLEAN

LEMMA TypeParts ==
    TypeOK <=> ThreadTypes /\ StoreTypes /\ WriterTypes /\ DiskTypes /\ OtherTypes
BY DEF TypeOK, ThreadTypes, StoreTypes, WriterTypes, DiskTypes, OtherTypes

LEMMA GotoTyped ==
    ASSUME ThreadTypes, NEW t, NEW p \in Places, Goto(t, p) PROVE ThreadTypes'
BY DEF ThreadTypes, Goto

LEMMA CurrentTyped == StoreTypes => Current \in Payloads
BY DEF StoreTypes, Current, Payloads

-----------------------------------------------------------------------------
(* What the steps do to the threads.                                       *)

LEMMA RecordThread ==
    ASSUME ThreadTypes, NEW t \in Threads, NEW kind, NEW id, NEW n \in Nexts, Record(t, kind, id, n)
    PROVE  ThreadTypes' /\ dirty' = TRUE
<1>1. Goto(t, Flushing(n)) \/ Goto(t, n)
  BY DEF Record
<1> QED
  BY <1>1, GotoTyped, PlainPlaces DEF Record

LEMMA WriteEndsThread ==
    ASSUME ThreadTypes, NEW t, t \in Threads => thread[t].at \in {"inline", "writing"},
           t \in Threads \cup {None}, WriteEnds(t)
    PROVE  ThreadTypes'
<1>1. CASE t = None
  BY <1>1 DEF WriteEnds, ThreadTypes
<1>2. CASE t # None
  <2>1. thread[t].then \in Places /\ Goto(t, thread[t].then)
    BY <1>2, PlaceFields, PlainPlaces DEF WriteEnds, ThreadTypes
  <2> QED
    BY <2>1, GotoTyped
<1> QED
  BY <1>1, <1>2

LEMMA TakeNextInline ==
    ASSUME NEW t \in Threads \cup {None}, NEW place, TakeNext(t, place)
    PROVE  t \in Threads => At(t, "inline")
BY NoneAssumption DEF TakeNext

LEMMA ThreadStep == TypeOK /\ InPlace /\ [Next]_vars => ThreadTypes'
<1> SUFFICES ASSUME TypeOK, InPlace, [Next]_vars PROVE ThreadTypes'
  OBVIOUS
<1> ThreadTypes /\ StoreTypes /\ WriterTypes /\ OtherTypes
  BY TypeParts
<1>1. ASSUME NEW t \in Threads, NoteBootId(t) PROVE ThreadTypes'
  <2>1. thread[t].id \in Nat
    BY <1>1, PlaceFields DEF NoteBootId, At, ThreadTypes
  <2>2. Goto(t, Idle) \/ Goto(t, Flushing(Idle)) \/ Goto(t, [at |-> "detected", id |-> thread[t].id])
    BY <1>1 DEF NoteBootId
  <2> QED
    BY <2>1, <2>2, GotoTyped, PlainPlaces
<1>2. ASSUME NEW t \in Threads, RecordDetected(t) PROVE ThreadTypes'
  BY <1>2, RecordThread, PlainPlaces DEF RecordDetected
<1>3. ASSUME NEW t \in Threads, ForgetBootId(t) PROVE ThreadTypes'
  <2>1. Goto(t, Idle) \/ Goto(t, Flushing(Idle))
    BY <1>3 DEF ForgetBootId
  <2> QED
    BY <2>1, GotoTyped, PlainPlaces
<1>4. ASSUME NEW t \in Threads, Snapshot(t) PROVE ThreadTypes'
  <2>1. thread[t].then \in Nexts
    BY <1>4, PlaceFields DEF Snapshot, At, ThreadTypes
  <2>2. \/ Goto(t, thread[t].then)
        \/ Goto(t, [at |-> "submit", then |-> thread[t].then, payload |-> Current,
                    older |-> {u \in Threads : At(u, "submit")}])
    BY <1>4 DEF Snapshot, Current
  <2> QED
    BY <2>1, <2>2, GotoTyped, PlainPlaces, FlushPlaces, CurrentTyped
<1>5. ASSUME NEW t \in Threads, Submit(t) PROVE ThreadTypes'
  <2>1. thread[t].then \in Nexts /\ thread[t].payload \in Payloads
    BY <1>5, PlaceFields DEF Submit, At, ThreadTypes
  <2>2. \/ Goto(t, thread[t].then)
        \/ Goto(t, [at |-> "inline", then |-> thread[t].then, payload |-> thread[t].payload])
    BY <1>5 DEF Submit
  <2> QED
    BY <2>1, <2>2, GotoTyped, PlainPlaces, FlushPlaces
<1>6. ASSUME NEW t \in Threads \cup {None}, WriteByRename(t) \/ WriteFails(t) PROVE ThreadTypes'
  <2>1. (t \in Threads => At(t, "inline")) /\ WriteEnds(t)
    BY <1>6, TakeNextInline DEF WriteByRename, WriteFails
  <2> QED
    BY <2>1, WriteEndsThread DEF At
<1>7. ASSUME NEW t \in Threads \cup {None}, WriteInPlace(t) PROVE ThreadTypes'
  <2>1. CASE t = None
    BY <1>7, <2>1 DEF WriteInPlace, ThreadTypes
  <2>2. CASE t # None
    <3>1. thread[t].then \in Nexts /\ t \in Threads
      BY <1>7, <2>2, TakeNextInline, PlaceFields DEF WriteInPlace, At, ThreadTypes
    <3>2. Goto(t, [at |-> "writing", then |-> thread[t].then])
      BY <1>7, <2>2 DEF WriteInPlace
    <3>3. [at |-> "writing", then |-> thread[t].then] \in Places
      BY <3>1 DEF Places
    <3> QED
      BY <3>1, <3>2, <3>3, GotoTyped
  <2> QED
    BY <2>1, <2>2
<1>8. CASE WriteFills \/ FillFails
  <2>1. writer.write.by \in Threads \cup {None}
    BY DEF WriterTypes, NoWrite
  <2> QED
    BY <1>8, <2>1, WriteEndsThread DEF WriteFills, FillFails, InPlace, At
<1>9. CASE Close \/ CloseWriter \/ Closed
  <2>1. \/ Goto("closer", Flushing([at |-> "closing"])) \/ Goto("closer", [at |-> "joining"])
        \/ Goto("closer", [at |-> "closed"])
    BY <1>9 DEF Close, CloseWriter, Closed
  <2> QED
    BY <2>1, GotoTyped, PlainPlaces
<1>10. CASE Restart
  BY <1>10, PlainPlaces DEF Restart, ThreadTypes
<1>11. CASE ProbeReads \/ ProbeChecks
  <2>1. CASE ProbeReads
    <3>1. Goto("probe", [at |-> "read", id |-> board]) /\ board \in Nat
      BY <2>1 DEF ProbeReads, OtherTypes
    <3> QED
      BY <3>1, GotoTyped, PlainPlaces
  <2>2. CASE ProbeChecks
    <3>1. thread["probe"].id \in Nat
      BY <2>2, PlaceFields DEF ProbeChecks, At, ThreadTypes, Threads
    <3>2. Goto("probe", Idle) \/ Goto("probe", [at |-> "noting", id |-> thread["probe"].id])
      BY <2>2 DEF ProbeChecks
    <3> QED
      BY <3>1, <3>2, GotoTyped, PlainPlaces
  <2> QED
    BY <1>11, <2>1, <2>2
<1>12. CASE HookRecords
  BY <1>12, RecordThread, PlainPlaces DEF HookRecords, Threads
<1>13. CASE RequestReboot
  BY <1>13, GotoTyped, PlainPlaces DEF RequestReboot
<1>14. CASE RecoveryCompletes
  BY <1>14, GotoTyped, PlainPlaces DEF RecoveryCompletes
<1>15. CASE RecordRequested
  BY <1>15, RecordThread, PlainPlaces DEF RecordRequested, Threads
<1>16. CASE Forget
  BY <1>16, GotoTyped, PlainPlaces DEF Forget
<1>17. CASE CommandLands \/ RecoveryAbandoned \/ SpontaneousReboot \/ UNCHANGED vars
  BY <1>17 DEF CommandLands, RecoveryAbandoned, SpontaneousReboot, vars, ThreadTypes
<1> QED
  BY <1>1, <1>2, <1>3, <1>4, <1>5, <1>6, <1>7, <1>8, <1>9, <1>10, <1>11, <1>12, <1>13, <1>14,
     <1>15, <1>16, <1>17 DEF Next

-----------------------------------------------------------------------------
(* The other types.                                                        *)

LEMMA RecordStore ==
    ASSUME StoreTypes, NEW t, NEW kind \in Kinds, NEW id \in Ids, NEW n, Record(t, kind, id, n)
    PROVE  StoreTypes'
BY PruneTyped DEF Record, StoreTypes

LEMMA StoreStep == TypeOK /\ [Next]_vars => StoreTypes'
<1> SUFFICES ASSUME TypeOK, [Next]_vars PROVE StoreTypes'
  OBVIOUS
<1> ThreadTypes /\ StoreTypes /\ DiskTypes
  BY TypeParts
<1>1. ASSUME NEW t \in Threads, NoteBootId(t) PROVE StoreTypes'
  <2>1. thread[t].id \in Ids
    BY <1>1, PlaceFields DEF NoteBootId, At, ThreadTypes, Ids
  <2> QED
    BY <1>1, <2>1 DEF NoteBootId, StoreTypes
<1>2. ASSUME NEW t \in Threads, RecordDetected(t) PROVE StoreTypes'
  <2>1. thread[t].id \in Ids
    BY <1>2, PlaceFields DEF RecordDetected, At, ThreadTypes, Ids
  <2> QED
    BY <1>2, <2>1, RecordStore DEF RecordDetected, Kinds
<1>3. ASSUME NEW t \in Threads, ForgetBootId(t) \/ Snapshot(t) PROVE StoreTypes'
  <2>1. None \in Ids
    BY DEF Ids
  <2> QED
    BY <1>3, <2>1 DEF ForgetBootId, Snapshot, StoreTypes
<1>4. ASSUME NEW t \in Threads \cup {None}, WriteFails(t) PROVE StoreTypes'
  BY <1>4 DEF WriteFails, DirtyAfterFailure, StoreTypes
<1>5. CASE FillFails
  BY <1>5 DEF FillFails, DirtyAfterFailure, StoreTypes
<1>6. CASE Restart
  <2>1. Loaded.bootId \in Ids /\ Loaded.events \in Seq(Kinds)
    BY EmptySeq DEF Loaded, DiskTypes, Ids
  <2> QED
    BY <1>6, <2>1 DEF Restart, StoreTypes
<1>7. CASE HookRecords \/ RecordRequested
  <2>1. None \in Ids
    BY DEF Ids
  <2> QED
    BY <1>7, <2>1, RecordStore DEF HookRecords, RecordRequested, Kinds
<1>8. CASE Forget
  BY <1>8, EmptySeq DEF Forget, StoreTypes, Ids
<1>9. CASE UNCHANGED store
  BY <1>9 DEF store, StoreTypes
<1>10. \/ \E t \in Threads : NoteBootId(t) \/ RecordDetected(t) \/ ForgetBootId(t) \/ Snapshot(t)
       \/ \E t \in Threads \cup {None} : WriteFails(t)
       \/ FillFails \/ Restart \/ HookRecords \/ RecordRequested \/ Forget
       \/ UNCHANGED store
  BY DEF Next, vars, Submit, WriteByRename, WriteInPlace, WriteFills, Close, CloseWriter, Closed,
         ProbeReads, ProbeChecks, RequestReboot, CommandLands, RecoveryAbandoned, RecoveryCompletes,
         SpontaneousReboot
<1> QED
  BY <1>1, <1>2, <1>3, <1>4, <1>5, <1>6, <1>7, <1>8, <1>9, <1>10

Writes == {NoWrite} \cup [by : Threads \cup {None}, payload : Payloads]

LEMMA PayloadTyped ==
    ASSUME ThreadTypes, WriterTypes, NEW t \in Threads \cup {None}, NEW place, TakeNext(t, place)
    PROVE  Payload(t) \in Payloads
<1>1. CASE t = None
  BY <1>1, HeadTailProperties DEF TakeNext, Payload, WriterTypes
<1>2. CASE t # None
  BY <1>2, PlaceFields DEF TakeNext, Payload, ThreadTypes, At
<1> QED
  BY <1>1, <1>2

LEMMA TakeNextTyped ==
    ASSUME WriterTypes, NEW t \in Threads \cup {None}, NEW place \in Writes, TakeNext(t, place)
    PROVE  WriterTypes'
<1>1. CASE t = None
  <2>1. Tail(writer.queue) \in Seq(Payloads)
    BY <1>1, HeadTailProperties DEF TakeNext, WriterTypes
  <2>2. writer' = [writer EXCEPT !.queue = Tail(@), !.write = place]
    BY <1>1 DEF TakeNext
  <2> QED
    BY <2>1, <2>2 DEF WriterTypes, Writes
<1>2. CASE t # None
  <2>1. writer' = [writer EXCEPT !.write = place]
    BY <1>2 DEF TakeNext
  <2> QED
    BY <2>1 DEF WriterTypes, Writes
<1> QED
  BY <1>1, <1>2

LEMMA WriterStep == TypeOK /\ [Next]_vars => WriterTypes'
<1> SUFFICES ASSUME TypeOK, [Next]_vars PROVE WriterTypes'
  OBVIOUS
<1> ThreadTypes /\ WriterTypes
  BY TypeParts
<1>1. ASSUME NEW t \in Threads, Submit(t) PROVE WriterTypes'
  <2>1. thread[t].payload \in Payloads
    BY <1>1, PlaceFields DEF Submit, At, ThreadTypes
  <2>2. Append(writer.queue, thread[t].payload) \in Seq(Payloads)
    BY <2>1, AppendProperties DEF WriterTypes
  <2>3. writer' = writer \/ writer' = [writer EXCEPT !.queue = Append(@, thread[t].payload)]
    BY <1>1 DEF Submit
  <2> QED
    BY <2>2, <2>3 DEF WriterTypes
<1>2. ASSUME NEW t \in Threads \cup {None}, WriteByRename(t) \/ WriteFails(t) PROVE WriterTypes'
  BY <1>2, TakeNextTyped DEF WriteByRename, WriteFails, Writes
<1>3. ASSUME NEW t \in Threads \cup {None}, WriteInPlace(t) PROVE WriterTypes'
  <2>1. TakeNext(t, [by |-> t, payload |-> Payload(t)])
    BY <1>3 DEF WriteInPlace
  <2>2. [by |-> t, payload |-> Payload(t)] \in Writes
    BY <2>1, PayloadTyped DEF Writes
  <2> QED
    BY <2>1, <2>2, TakeNextTyped
<1>4. CASE WriteFills \/ FillFails \/ CloseWriter
  <2>1. writer' = [writer EXCEPT !.write = NoWrite] \/ writer' = [writer EXCEPT !.open = FALSE]
    BY <1>4 DEF WriteFills, FillFails, CloseWriter
  <2> QED
    BY <2>1 DEF WriterTypes
<1>5. CASE Restart
  BY <1>5, EmptySeq DEF Restart, WriterTypes
<1>6. CASE UNCHANGED writer
  BY <1>6 DEF WriterTypes
<1>7. \/ \E t \in Threads : Submit(t)
      \/ \E t \in Threads \cup {None} : WriteByRename(t) \/ WriteFails(t) \/ WriteInPlace(t)
      \/ WriteFills \/ FillFails \/ CloseWriter \/ Restart \/ UNCHANGED writer
  BY DEF Next, vars, NoteBootId, RecordDetected, ForgetBootId, Snapshot, Close, Closed, ProbeReads,
         ProbeChecks, HookRecords, RequestReboot, CommandLands, RecoveryAbandoned,
         RecoveryCompletes, RecordRequested, SpontaneousReboot, Forget
<1> QED
  BY <1>1, <1>2, <1>3, <1>4, <1>5, <1>6, <1>7

LEMMA WrittenDisk ==
    ASSUME NEW b \in Payloads, Written(b)
    PROVE  DiskTypes' /\ Loaded' = b
<1>1. b.bootId \in Ids /\ b.events \in Seq(Kinds)
      /\ b = [bootId |-> b.bootId, events |-> b.events]
  BY DEF Payloads
<1>2. disk' = [torn |-> FALSE, bootId |-> b.bootId, events |-> b.events]
  BY DEF Written
<1>3. Loaded' = [bootId |-> b.bootId, events |-> b.events]
  BY <1>2 DEF Loaded
<1> QED
  BY <1>1, <1>2, <1>3 DEF DiskTypes

LEMMA FillPayload ==
    ASSUME WriterTypes, writer.write # NoWrite PROVE writer.write.payload \in Payloads
BY DEF WriterTypes

LEMMA DiskStep == TypeOK /\ [Next]_vars => DiskTypes'
<1> SUFFICES ASSUME TypeOK, [Next]_vars PROVE DiskTypes'
  OBVIOUS
<1> ThreadTypes /\ WriterTypes /\ DiskTypes
  BY TypeParts
<1>1. ASSUME NEW t \in Threads \cup {None}, WriteByRename(t) PROVE DiskTypes'
  BY <1>1, PayloadTyped, WrittenDisk DEF WriteByRename
<1>2. ASSUME NEW t \in Threads \cup {None}, WriteInPlace(t) PROVE DiskTypes'
  BY <1>2 DEF WriteInPlace, DiskTypes
<1>3. CASE WriteFills
  BY <1>3, FillPayload, WrittenDisk DEF WriteFills
<1>4. CASE UNCHANGED disk
  BY <1>4 DEF DiskTypes
<1>5. \/ \E t \in Threads \cup {None} : WriteByRename(t) \/ WriteInPlace(t)
      \/ WriteFills \/ UNCHANGED disk
  BY DEF Next, vars, NoteBootId, RecordDetected, ForgetBootId, Snapshot, Submit, WriteFails,
         FillFails, Close, CloseWriter, Closed, Restart, ProbeReads, ProbeChecks, HookRecords,
         RequestReboot, CommandLands, RecoveryAbandoned, RecoveryCompletes, RecordRequested,
         SpontaneousReboot, Forget
<1> QED
  BY <1>1, <1>2, <1>3, <1>4, <1>5

LEMMA OtherStep == TypeOK /\ [Next]_vars => OtherTypes'
<1> SUFFICES ASSUME TypeOK, [Next]_vars PROVE OtherTypes'
  OBVIOUS
<1> OtherTypes
  BY TypeParts
<1>1. board' \in Nat /\ spontaneous' \in Nat
  <2>1. board' \in {board, board + 1} /\ spontaneous' \in {spontaneous, spontaneous + 1}
    BY DEF Next, vars, world, past, NoteBootId, RecordDetected, ForgetBootId, Snapshot, Submit,
           WriteByRename, WriteInPlace, WriteFails, WriteFills, FillFails, Close, CloseWriter,
           Closed, Restart, ProbeReads, ProbeChecks, HookRecords, RequestReboot, CommandLands,
           RecoveryAbandoned, RecoveryCompletes, RecordRequested, SpontaneousReboot, Forget
  <2> QED
    BY <2>1 DEF OtherTypes
<1>2. calls' \in Nat /\ faults' \in Nat
  <2>1. calls' \in {calls, calls + 1} /\ faults' \in {faults, faults + 1}
    BY DEF Next, vars, bounds, Call, Fault, NoteBootId, RecordDetected, ForgetBootId, Snapshot, Submit,
           WriteByRename, WriteInPlace, WriteFails, WriteFills, FillFails, Close, CloseWriter,
           Closed, Restart, ProbeReads, ProbeChecks, HookRecords, RequestReboot, CommandLands,
           RecoveryAbandoned, RecoveryCompletes, RecordRequested, SpontaneousReboot, Forget
  <2> QED
    BY <2>1 DEF OtherTypes
<1>3. recovery' \in {"none", "active", "landed"} /\ deleted' \in BOOLEAN
  <2>1. recovery' \in {recovery, "none", "active", "landed"} /\ deleted' \in {deleted, TRUE}
    BY DEF Next, vars, world, NoteBootId, RecordDetected, ForgetBootId, Snapshot, Submit,
           WriteByRename, WriteInPlace, WriteFails, WriteFills, FillFails, Close, CloseWriter,
           Closed, Restart, ProbeReads, ProbeChecks, HookRecords, RequestReboot, CommandLands,
           RecoveryAbandoned, RecoveryCompletes, RecordRequested, SpontaneousReboot, Forget
  <2> QED
    BY <2>1 DEF OtherTypes
<1>4. crossed' \in BOOLEAN
  BY DEF Next, vars, past, NoteBootId, RecordDetected, ForgetBootId, Snapshot, Submit,
         WriteByRename, WriteInPlace, WriteFails, WriteFills, FillFails, Close, CloseWriter,
         Closed, Restart, ProbeReads, ProbeChecks, HookRecords, RequestReboot, CommandLands,
         RecoveryAbandoned, RecoveryCompletes, RecordRequested, SpontaneousReboot, Forget,
         OtherTypes
<1>5. inverted' \in BOOLEAN
  BY DEF Next, vars, past, NoteBootId, RecordDetected, ForgetBootId, Snapshot, Submit,
         WriteByRename, WriteInPlace, WriteFails, WriteFills, FillFails, Close, CloseWriter,
         Closed, Restart, ProbeReads, ProbeChecks, HookRecords, RequestReboot, CommandLands,
         RecoveryAbandoned, RecoveryCompletes, RecordRequested, SpontaneousReboot, Forget,
         OtherTypes
<1> QED
  BY <1>1, <1>2, <1>3, <1>4, <1>5 DEF OtherTypes

LEMMA TypeStep == TypeOK /\ InPlace /\ [Next]_vars => TypeOK'
<1> SUFFICES ASSUME TypeOK, InPlace, [Next]_vars PROVE TypeOK'
  OBVIOUS
<1>1. ThreadTypes' /\ StoreTypes' /\ WriterTypes' /\ DiskTypes' /\ OtherTypes'
  BY ThreadStep, StoreStep, WriterStep, DiskStep, OtherStep
<1> QED
  BY <1>1 DEF TypeOK, ThreadTypes, StoreTypes, WriterTypes, DiskTypes, OtherTypes

-----------------------------------------------------------------------------
(* The newest snapshot.                                                    *)

LEMMA GotoOne ==
    ASSUME ThreadTypes, NEW t \in Threads, NEW p, Goto(t, p)
    PROVE  thread'[t] = p /\ \A u \in Threads \ {t} : thread'[u] = thread[u]
BY DEF ThreadTypes, Goto

\* A place where a thread holds no snapshot and no boot id to be recorded.
Calm(p) == p.at \notin {"submit", "detected", "inline", "writing"}

LEMMA CalmPlaces ==
    /\ \A n \in Nexts : Calm(n) /\ Calm(Flushing(n))
    /\ Calm(Idle) /\ Calm(Flushing(Idle))
    /\ \A place \in {"forgetting", "closing", "joining", "closed", "completed"} :
         Calm([at |-> place])
    /\ \A id : Calm([at |-> "read", id |-> id]) /\ Calm([at |-> "noting", id |-> id])
BY DEF Nexts, Calm, Flushing, Idle

\* One thread goes from a calm place to another.
CalmMove(t) ==
    /\ Calm(thread[t]) /\ Calm(thread'[t])
    /\ \A u \in Threads \ {t} : thread'[u] = thread[u]

LEMMA CalmGoto ==
    ASSUME ThreadTypes, NEW t \in Threads, NEW p, Goto(t, p), Calm(thread[t]), Calm(p)
    PROVE  CalmMove(t)
BY GotoOne DEF CalmMove

\* The steps that neither read nor write what is to be saved.
Aside ==
    /\ UNCHANGED <<events, bootId, dirty, disk, inverted>>
    /\ writer'.queue = writer.queue /\ writer'.write = writer.write
    /\ thread' = thread \/ \E t \in Threads : CalmMove(t)

LEMMA AsideSteps ==
    ASSUME TypeOK,
           \/ Close \/ CloseWriter \/ Closed \/ ProbeReads \/ ProbeChecks \/ RequestReboot
           \/ CommandLands \/ RecoveryAbandoned \/ RecoveryCompletes \/ SpontaneousReboot
           \/ UNCHANGED vars
    PROVE  Aside
<1> ThreadTypes /\ WriterTypes
  BY TypeParts
<1>1. UNCHANGED <<events, bootId, dirty, disk, inverted>>
  BY DEF vars, store, past, Close, CloseWriter, Closed, ProbeReads, ProbeChecks, RequestReboot,
         CommandLands, RecoveryAbandoned, RecoveryCompletes, SpontaneousReboot
<1>2. writer'.queue = writer.queue /\ writer'.write = writer.write
  <2>1. writer' = writer \/ writer' = [writer EXCEPT !.open = FALSE]
    BY DEF vars, Close, CloseWriter, Closed, ProbeReads, ProbeChecks, RequestReboot,
           CommandLands, RecoveryAbandoned, RecoveryCompletes, SpontaneousReboot
  <2> QED
    BY <2>1 DEF WriterTypes
<1>3. CASE Close \/ CloseWriter \/ Closed
  <2>1. Calm(thread["closer"]) /\ "closer" \in Threads
    BY <1>3 DEF Close, CloseWriter, Closed, At, Calm, Threads
  <2>2. \E p : Goto("closer", p) /\ Calm(p)
    <3>1. \/ Goto("closer", Flushing([at |-> "closing"])) \/ Goto("closer", [at |-> "joining"])
          \/ Goto("closer", [at |-> "closed"])
      BY <1>3 DEF Close, CloseWriter, Closed
    <3>2. /\ Calm(Flushing([at |-> "closing"])) /\ Calm([at |-> "joining"])
          /\ Calm([at |-> "closed"])
      BY DEF Calm, Flushing
    <3> QED
      BY <3>1, <3>2
  <2> QED
    BY <1>1, <1>2, <2>1, <2>2, CalmGoto DEF Aside
<1>4. CASE ProbeReads \/ ProbeChecks
  <2>1. Calm(thread["probe"]) /\ "probe" \in Threads
    BY <1>4 DEF ProbeReads, ProbeChecks, At, Calm, Threads
  <2>2. \E p : Goto("probe", p) /\ Calm(p)
    <3>1. \/ Goto("probe", [at |-> "read", id |-> board]) \/ Goto("probe", Idle)
          \/ Goto("probe", [at |-> "noting", id |-> thread["probe"].id])
      BY <1>4 DEF ProbeReads, ProbeChecks
    <3> QED
      BY <3>1, CalmPlaces
  <2> QED
    BY <1>1, <1>2, <2>1, <2>2, CalmGoto DEF Aside
<1>5. CASE RequestReboot
  <2>1. Calm(thread["hook"]) /\ "hook" \in Threads
    BY <1>5 DEF RequestReboot, At, Calm, Threads
  <2>2. Goto("hook", [at |-> "forgetting"]) /\ Calm([at |-> "forgetting"])
    BY <1>5, CalmPlaces DEF RequestReboot
  <2> QED
    BY <1>1, <1>2, <2>1, <2>2, CalmGoto DEF Aside
<1>6. CASE RecoveryCompletes
  <2>1. Calm(thread["worker"]) /\ "worker" \in Threads
    BY <1>6 DEF RecoveryCompletes, At, Calm, Threads
  <2>2. Goto("worker", [at |-> "completed"]) /\ Calm([at |-> "completed"])
    BY <1>6, CalmPlaces DEF RecoveryCompletes
  <2> QED
    BY <1>1, <1>2, <2>1, <2>2, CalmGoto DEF Aside
<1>7. CASE CommandLands \/ RecoveryAbandoned \/ SpontaneousReboot \/ UNCHANGED vars
  <2>1. thread' = thread
    BY <1>7 DEF CommandLands, RecoveryAbandoned, SpontaneousReboot, vars
  <2> QED
    BY <1>1, <1>2, <2>1 DEF Aside
<1> QED
  BY <1>3, <1>4, <1>5, <1>6, <1>7

\* The steps that change what is to be saved make it dirty, or leave a boot id
\* to be recorded; none of their threads holds a snapshot.
Changes ==
    /\ UNCHANGED <<writer, disk, inverted>>
    /\ \/ dirty' = TRUE
       \/ \E t \in Threads : At(t, "detected")'
       \/ UNCHANGED <<events, bootId, dirty>> /\ \E t \in Threads : CalmMove(t)
    /\ \E t \in Threads : /\ thread[t].at \notin {"submit", "inline", "writing"}
                          /\ thread'[t].at \notin {"submit", "inline", "writing"}
                          /\ \A u \in Threads \ {t} : thread'[u] = thread[u]

LEMMA RecordChanges ==
    ASSUME ThreadTypes, NEW t \in Threads, NEW kind, NEW id, NEW n \in Nexts,
           Record(t, kind, id, n), UNCHANGED <<writer, disk, inverted>>,
           thread[t].at \notin {"submit", "inline", "writing"}
    PROVE  Changes
<1>1. \E p : Goto(t, p) /\ Calm(p)
  BY CalmPlaces DEF Record
<1>2. Calm(thread'[t]) /\ \A u \in Threads \ {t} : thread'[u] = thread[u]
  BY <1>1, GotoOne
<1> QED
  BY <1>2 DEF Record, Changes, Calm

LEMMA ChangeSteps ==
    ASSUME TypeOK,
           \/ \E t \in Threads : NoteBootId(t) \/ RecordDetected(t) \/ ForgetBootId(t)
           \/ HookRecords \/ RecordRequested \/ Forget
    PROVE  Changes
<1> ThreadTypes
  BY TypeParts
<1>1. ASSUME NEW t \in Threads, NoteBootId(t) PROVE Changes
  <2>0. thread[t].id # None
    BY <1>1, PlaceFields, NoneAssumption DEF NoteBootId, At, ThreadTypes
  <2>1. Calm(thread[t]) /\ UNCHANGED <<events, writer, disk, inverted>>
    BY <1>1 DEF NoteBootId, At, Calm
  <2>2. CASE bootId = thread[t].id
    <3>a. Goto(t, Idle) /\ UNCHANGED bootId
      BY <1>1, <2>0, <2>2 DEF NoteBootId
    <3>b. dirty' = (dirty \/ bootId = None) /\ dirty \in BOOLEAN
      BY <1>1, TypeParts DEF NoteBootId, StoreTypes
    <3>c. dirty' = dirty \/ dirty' = TRUE
      BY <3>b
    <3>1. Goto(t, Idle) /\ UNCHANGED bootId /\ (dirty' = dirty \/ dirty' = TRUE)
      BY <3>a, <3>c
    <3>2. CalmMove(t)
      BY <2>1, <3>1, CalmGoto, CalmPlaces
    <3> QED
      BY <2>1, <3>1, <3>2 DEF Changes, CalmMove, Calm
  <2>3. CASE bootId # thread[t].id /\ bootId = None
    <3>1. Goto(t, Flushing(Idle)) /\ dirty' = TRUE
      BY <1>1, <2>3 DEF NoteBootId
    <3>2. CalmMove(t)
      BY <2>1, <3>1, CalmGoto, CalmPlaces
    <3> QED
      BY <2>1, <3>1, <3>2 DEF Changes, CalmMove, Calm
  <2>4. CASE bootId # thread[t].id /\ bootId # None
    <3>1. Goto(t, [at |-> "detected", id |-> thread[t].id])
      BY <1>1, <2>4 DEF NoteBootId
    <3>2. thread'[t].at = "detected" /\ \A u \in Threads \ {t} : thread'[u] = thread[u]
      BY <3>1, GotoOne
    <3> QED
      BY <2>1, <3>2 DEF Changes, Calm, At
  <2> QED
    BY <2>2, <2>3, <2>4
<1>2. ASSUME NEW t \in Threads, RecordDetected(t) PROVE Changes
  <2>1. thread[t].at = "detected" /\ UNCHANGED <<writer, disk, inverted>>
    BY <1>2 DEF RecordDetected, At, past
  <2>2. Record(t, "reboot_detected", thread[t].id, Idle)
    BY <1>2 DEF RecordDetected
  <2> QED
    BY <2>1, <2>2, RecordChanges, PlainPlaces
<1>3. ASSUME NEW t \in Threads, ForgetBootId(t) PROVE Changes
  <2>1. Calm(thread[t]) /\ UNCHANGED <<events, writer, disk, inverted>>
    BY <1>3 DEF ForgetBootId, At, Calm
  <2>2. \/ Goto(t, Idle) /\ UNCHANGED <<bootId, dirty>>
        \/ Goto(t, Flushing(Idle)) /\ dirty' = TRUE
    BY <1>3 DEF ForgetBootId
  <2>3. CalmMove(t)
    BY <2>1, <2>2, CalmGoto, CalmPlaces
  <2> QED
    BY <2>1, <2>2, <2>3 DEF Changes, CalmMove, Calm
<1>4. CASE HookRecords
  <2>1. /\ thread["hook"].at = "idle" /\ "hook" \in Threads /\ UNCHANGED <<writer, disk, inverted>>
        /\ Record("hook", "other", None, Idle)
    BY <1>4 DEF HookRecords, At, Threads, past
  <2> QED
    BY <2>1, RecordChanges, PlainPlaces
<1>5. CASE RecordRequested
  <2>1. /\ thread["worker"].at = "completed" /\ "worker" \in Threads
        /\ UNCHANGED <<writer, disk, inverted>>
        /\ Record("worker", "reboot_requested", None, [at |-> "forgetting"])
    BY <1>5 DEF RecordRequested, At, Threads, past
  <2> QED
    BY <2>1, RecordChanges, PlainPlaces
<1>6. CASE Forget
  <2>1. /\ Calm(thread["hook"]) /\ "hook" \in Threads /\ UNCHANGED <<writer, disk, inverted>>
        /\ dirty' = TRUE /\ Goto("hook", Flushing(Idle))
    BY <1>6 DEF Forget, At, Calm, Threads
  <2>2. CalmMove("hook")
    BY <2>1, CalmGoto, CalmPlaces
  <2> QED
    BY <2>1, <2>2 DEF Changes, CalmMove, Calm
<1> QED
  BY <1>1, <1>2, <1>3, <1>4, <1>5, <1>6

LEMMA NextCases ==
    TypeOK /\ [Next]_vars =>
        \/ Aside \/ Changes \/ Restart
        \/ \E t \in Threads : Snapshot(t) \/ Submit(t)
        \/ \E t \in Threads \cup {None} : WriteByRename(t) \/ WriteInPlace(t) \/ WriteFails(t)
        \/ WriteFills \/ FillFails
BY AsideSteps, ChangeSteps DEF Next

LEMMA TakeNextFields ==
    ASSUME WriterTypes, NEW t \in Threads \cup {None}, NEW place, TakeNext(t, place)
    PROVE  /\ writer.write = NoWrite /\ writer'.write = place
           /\ t # None => At(t, "inline") /\ writer'.queue = writer.queue
           /\ t = None => writer.queue # <<>> /\ writer'.queue = Tail(writer.queue)
BY DEF TakeNext, WriterTypes

LEMMA NoWriteBy == NoWrite.by = None /\ None \notin Threads
BY NoneAssumption DEF NoWrite

LEMMA InPlaceStep == TypeOK /\ InPlace /\ [Next]_vars => InPlace'
<1> SUFFICES ASSUME TypeOK, InPlace, [Next]_vars, writer'.write.by \in Threads
             PROVE  thread'[writer'.write.by].at = "writing"
  BY DEF InPlace, At
<1> ThreadTypes /\ WriterTypes
  BY TypeParts
<1>1. ASSUME writer'.write = writer.write,
             \/ thread' = thread
             \/ \E t \in Threads : /\ thread[t].at # "writing"
                                   /\ \A u \in Threads \ {t} : thread'[u] = thread[u]
      PROVE  thread'[writer'.write.by].at = "writing"
  BY <1>1 DEF InPlace, At
<1>2. CASE Aside
  BY <1>1, <1>2 DEF Aside, CalmMove, Calm
<1>3. CASE Changes
  BY <1>1, <1>3 DEF Changes
<1>4. ASSUME NEW t \in Threads, Snapshot(t) \/ Submit(t)
      PROVE  thread'[writer'.write.by].at = "writing"
  <2>1. thread[t].at # "writing"
    BY <1>4 DEF Snapshot, Submit, At
  <2>2. \E p : Goto(t, p)
    BY <1>4 DEF Snapshot, Submit
  <2>3. writer' = writer \/ writer' = [writer EXCEPT !.queue = Append(@, thread[t].payload)]
    BY <1>4 DEF Snapshot, Submit
  <2>4. writer'.write = writer.write
    BY <2>3 DEF WriterTypes
  <2> QED
    BY <1>1, <2>1, <2>2, <2>4, GotoOne
<1>5. ASSUME NEW t \in Threads \cup {None}, WriteByRename(t) \/ WriteFails(t) PROVE FALSE
  BY <1>5, TakeNextFields, NoWriteBy DEF WriteByRename, WriteFails
<1>6. ASSUME NEW t \in Threads \cup {None}, WriteInPlace(t)
      PROVE  thread'[writer'.write.by].at = "writing"
  <2>1. writer'.write = [by |-> t, payload |-> Payload(t)]
    BY <1>6, TakeNextFields DEF WriteInPlace
  <2>2. writer'.write.by = t /\ t \in Threads /\ t # None
    BY <2>1, NoWriteBy
  <2>3. Goto(t, [at |-> "writing", then |-> thread[t].then])
    BY <1>6, <2>2 DEF WriteInPlace
  <2> QED
    BY <2>2, <2>3, GotoOne
<1>7. CASE WriteFills \/ FillFails \/ Restart
  <2>1. writer'.write = NoWrite
    BY <1>7 DEF WriteFills, FillFails, Restart, WriterTypes
  <2> QED
    BY <2>1, NoWriteBy
<1> QED
  BY <1>2, <1>3, <1>4, <1>5, <1>6, <1>7, NextCases

LEMMA WriterWritesStep == TypeOK /\ WriterWrites /\ [Next]_vars => WriterWrites'
<1> SUFFICES ASSUME TypeOK, WriterWrites, [Next]_vars, ~inverted'
             PROVE  /\ \A t \in Threads : thread'[t].at \notin {"inline", "writing"}
                    /\ writer'.write.by = None
  BY DEF WriterWrites
<1> ThreadTypes /\ WriterTypes
  BY TypeParts
<1>1. ASSUME ~inverted, writer'.write.by = None,
             \/ thread' = thread
             \/ \E t \in Threads : /\ thread'[t].at \notin {"inline", "writing"}
                                   /\ \A u \in Threads \ {t} : thread'[u] = thread[u]
      PROVE  /\ \A t \in Threads : thread'[t].at \notin {"inline", "writing"}
             /\ writer'.write.by = None
  BY <1>1 DEF WriterWrites
<1>2. CASE Aside
  BY <1>1, <1>2 DEF Aside, CalmMove, Calm, WriterWrites
<1>3. CASE Changes
  BY <1>1, <1>3 DEF Changes, WriterWrites
<1>4. ASSUME NEW t \in Threads, Snapshot(t)
      PROVE  /\ \A u \in Threads : thread'[u].at \notin {"inline", "writing"}
             /\ writer'.write.by = None
  <2>1. ~inverted /\ writer' = writer
    BY <1>4 DEF Snapshot, past
  <2>2. thread[t].then \in Nexts
    BY <1>4, PlaceFields DEF Snapshot, At, ThreadTypes
  <2>3. \/ Goto(t, thread[t].then)
        \/ Goto(t, [at |-> "submit", then |-> thread[t].then, payload |-> Current,
                    older |-> {u \in Threads : At(u, "submit")}])
    BY <1>4 DEF Snapshot, Current
  <2>4. \E p : Goto(t, p) /\ p.at \notin {"inline", "writing"}
    BY <2>2, <2>3 DEF Nexts
  <2> QED
    BY <1>1, <2>1, <2>4, GotoOne DEF WriterWrites
<1>5. ASSUME NEW t \in Threads, Submit(t)
      PROVE  /\ \A u \in Threads : thread'[u].at \notin {"inline", "writing"}
             /\ writer'.write.by = None
  <2>1. ~inverted /\ writer.open
    BY <1>5 DEF Submit
  <2>2. thread[t].then \in Nexts
    BY <1>5, PlaceFields DEF Submit, At, ThreadTypes
  <2>3. Goto(t, thread[t].then) /\ thread[t].then.at \notin {"inline", "writing"}
    BY <1>5, <2>1, <2>2 DEF Submit, Nexts
  <2>4. writer'.write = writer.write
    BY <1>5, <2>1 DEF Submit, WriterTypes
  <2> QED
    BY <1>1, <2>1, <2>3, <2>4, GotoOne DEF WriterWrites
<1>6. ASSUME NEW t \in Threads \cup {None}, WriteByRename(t) \/ WriteInPlace(t) \/ WriteFails(t)
      PROVE  /\ \A u \in Threads : thread'[u].at \notin {"inline", "writing"}
             /\ writer'.write.by = None
  <2>1. ~inverted
    BY <1>6 DEF WriteByRename, WriteInPlace, WriteFails, past
  <2>2. t = None
    BY <1>6, <2>1, TakeNextFields DEF WriteByRename, WriteInPlace, WriteFails, WriterWrites, At
  <2>3. thread' = thread
    BY <1>6, <2>2 DEF WriteByRename, WriteInPlace, WriteFails, WriteEnds
  <2>4. writer'.write = NoWrite \/ writer'.write = [by |-> t, payload |-> Payload(t)]
    BY <1>6, TakeNextFields DEF WriteByRename, WriteInPlace, WriteFails
  <2> QED
    BY <1>1, <2>1, <2>2, <2>3, <2>4, NoWriteBy
<1>7. CASE WriteFills \/ FillFails
  <2>1. ~inverted /\ WriteEnds(writer.write.by) /\ writer' = [writer EXCEPT !.write = NoWrite]
    BY <1>7 DEF WriteFills, FillFails, past
  <2>2. thread' = thread
    BY <2>1 DEF WriterWrites, WriteEnds
  <2>3. writer'.write = NoWrite
    BY <2>1 DEF WriterTypes
  <2> QED
    BY <1>1, <2>1, <2>2, <2>3, NoWriteBy
<1>8. CASE Restart
  BY <1>8, NoWriteBy DEF Restart, Idle
<1> QED
  BY <1>2, <1>3, <1>4, <1>5, <1>6, <1>7, <1>8, NextCases

-----------------------------------------------------------------------------
(* The newest snapshot is what is current, or the store knows better.      *)

LEMMA Kept ==
    ASSUME InHand \/ HandedOver, UNCHANGED <<events, bootId, disk>>,
           writer'.queue = writer.queue, writer'.write = writer.write,
           \/ thread' = thread
           \/ \E t \in Threads : /\ thread[t].at # "submit" /\ thread'[t].at # "submit"
                                 /\ \A u \in Threads \ {t} : thread'[u] = thread[u]
    PROVE  (InHand \/ HandedOver)'
<1>1. /\ \A u \in Threads : thread'[u].at = "submit" <=> thread[u].at = "submit"
      /\ \A u \in Threads : thread[u].at = "submit" => thread'[u] = thread[u]
  OBVIOUS
<1>2. Current' = Current /\ Loaded' = Loaded
  BY DEF Current, Loaded
<1>3. CASE InHand
  <2>1. PICK h \in Threads :
          /\ thread[h].at = "submit" /\ thread[h].payload = Current
          /\ \A u \in Threads \ {h} : thread[u].at = "submit" => u \in thread[h].older
    BY <1>3 DEF InHand, At
  <2>2. thread'[h] = thread[h]
    BY <1>1, <2>1
  <2> QED
    BY <1>1, <1>2, <2>1, <2>2 DEF InHand, At
<1>4. CASE HandedOver
  BY <1>1, <1>2, <1>4 DEF HandedOver, At
<1> QED
  BY <1>3, <1>4

LEMMA CalmKeeps ==
    ASSUME Clean', Clean => InHand \/ HandedOver, UNCHANGED <<events, bootId, dirty, disk, inverted>>,
           writer'.queue = writer.queue, writer'.write = writer.write,
           thread' = thread \/ \E t \in Threads : CalmMove(t)
    PROVE  (InHand \/ HandedOver)'
<1>1. \A u \in Threads : thread[u].at = "detected" => thread'[u].at = "detected"
  BY DEF CalmMove, Calm
<1>2. Clean
  BY <1>1 DEF Clean, At
<1>3. \/ thread' = thread
      \/ \E t \in Threads : /\ thread[t].at # "submit" /\ thread'[t].at # "submit"
                            /\ \A u \in Threads \ {t} : thread'[u] = thread[u]
  BY DEF CalmMove, Calm
<1> QED
  BY <1>2, <1>3, Kept

LEMMA ChangesKeep ==
    ASSUME Changes, Clean', Clean => InHand \/ HandedOver
    PROVE  (InHand \/ HandedOver)'
<1>1. UNCHANGED <<events, bootId, dirty>> /\ \E t \in Threads : CalmMove(t)
  BY DEF Changes, Clean
<1> QED
  BY <1>1, CalmKeeps DEF Changes

LEMMA SnapshotKeeps ==
    ASSUME TypeOK, NEW t \in Threads, Snapshot(t), Clean', Clean => InHand \/ HandedOver
    PROVE  (InHand \/ HandedOver)'
<1> ThreadTypes /\ StoreTypes
  BY TypeParts
<1>1. thread[t].at = "flush" /\ thread[t].then \in Nexts
  BY PlaceFields DEF Snapshot, At, ThreadTypes
<1>2. UNCHANGED <<events, bootId, writer, disk, inverted>>
  BY DEF Snapshot, past
<1>3. CASE dirty
  <2> DEFINE place == [at |-> "submit", then |-> thread[t].then, payload |-> Current,
                       older |-> {u \in Threads : At(u, "submit")}]
  <2>1. Goto(t, place)
    BY <1>3 DEF Snapshot, Current
  <2>2. thread'[t] = place /\ \A u \in Threads \ {t} : thread'[u] = thread[u]
    BY <2>1, GotoOne
  <2>3. Current' = Current
    BY <1>2 DEF Current
  <2>4. thread'[t].at = "submit" /\ thread'[t].payload = Current
        /\ thread'[t].older = {u \in Threads : At(u, "submit")}
    BY <2>2
  <2>5. \A u \in Threads \ {t} : thread'[u].at = "submit" => u \in thread'[t].older
    BY <2>2, <2>4 DEF At
  <2> QED
    BY <2>3, <2>4, <2>5 DEF InHand, At
<1>4. CASE ~dirty
  <2>1. Goto(t, thread[t].then) /\ dirty' = dirty
    BY <1>4 DEF Snapshot, StoreTypes
  <2>2. CalmMove(t)
    BY <1>1, <2>1, CalmGoto, CalmPlaces DEF Calm
  <2> QED
    BY <1>2, <2>1, <2>2, CalmKeeps
<1> QED
  BY <1>3, <1>4

LEMMA SubmitKeeps ==
    ASSUME TypeOK, NEW t \in Threads, Submit(t), Clean', Clean => InHand \/ HandedOver
    PROVE  (InHand \/ HandedOver)'
<1> ThreadTypes /\ WriterTypes
  BY TypeParts
<1>1. thread[t].at = "submit" /\ thread[t].then \in Nexts /\ thread[t].payload \in Payloads
  BY PlaceFields DEF Submit, At, ThreadTypes
<1>2. ~inverted /\ writer.open /\ \A u \in thread[t].older : ~At(u, "submit")
  BY DEF Submit, Clean
<1>3. UNCHANGED <<events, bootId, dirty, disk>>
  BY DEF Submit, store
<1>4. Goto(t, thread[t].then) /\ writer' = [writer EXCEPT !.queue = Append(@, thread[t].payload)]
  BY <1>2 DEF Submit
<1>5. writer'.queue = Append(writer.queue, thread[t].payload) /\ writer.queue \in Seq(Payloads)
  BY <1>4 DEF WriterTypes
<1>6. /\ thread'[t].at # "submit" /\ thread'[t].at # "detected"
      /\ \A u \in Threads \ {t} : thread'[u] = thread[u]
  BY <1>1, <1>4, GotoOne, CalmPlaces DEF Calm
<1>7. Clean
  BY <1>1, <1>2, <1>3, <1>6 DEF Clean, At
<1>8. PICK h \in Threads :
        /\ thread[h].at = "submit" /\ thread[h].payload = Current
        /\ \A u \in Threads \ {h} : thread[u].at = "submit" => u \in thread[h].older
  BY <1>1, <1>7 DEF InHand, HandedOver, At
<1>9. Current' = Current
  BY <1>3 DEF Current
<1>10. CASE h = t
  <2>1. \A u \in Threads : thread'[u].at # "submit"
    BY <1>2, <1>6, <1>8, <1>10 DEF At
  <2>2. writer'.queue # <<>> /\ writer'.queue[Len(writer'.queue)] = Current'
    BY <1>1, <1>5, <1>8, <1>9, <1>10, AppendProperties
  <2> QED
    BY <2>1, <2>2 DEF HandedOver, At
<1>11. CASE h # t
  <2>1. thread'[h] = thread[h]
    BY <1>6, <1>11
  <2>2. \A u \in Threads \ {h} : thread'[u].at = "submit" => u \in thread'[h].older
    BY <1>6, <1>8, <2>1
  <2> QED
    BY <1>8, <1>9, <2>1, <2>2 DEF InHand, At
<1> QED
  BY <1>10, <1>11

\* The head of the queue, when it is taken, is the newest if nothing is behind it.
LEMMA TakenHead ==
    ASSUME WriterTypes, HandedOver, writer.queue # <<>>, writer'.queue = Tail(writer.queue)
    PROVE  /\ writer'.queue # <<>> => writer'.queue[Len(writer'.queue)] = Current
           /\ writer'.queue = <<>> => Head(writer.queue) = Current
<1> DEFINE q == writer.queue
<1>1. q \in Seq(Payloads) /\ q # <<>> /\ q[Len(q)] = Current
  BY DEF WriterTypes, HandedOver
<1> HIDE DEF q
<1>2. /\ Len(Tail(q)) = Len(q) - 1 /\ Len(q) \in Nat /\ Len(q) # 0
      /\ \A i \in 1..Len(Tail(q)) : Tail(q)[i] = q[i + 1]
      /\ Head(q) = q[1]
  BY <1>1, HeadTailProperties, EmptySeq, LenProperties
<1>3. CASE Tail(q) = <<>>
  <2>1. Len(Tail(q)) = 0
    BY <1>3, EmptySeq
  <2>2. Len(q) = 1
    <3>1. Len(q) - 1 = 0 /\ Len(q) \in Nat
      BY <1>2, <2>1
    <3> QED
      BY <3>1
  <2> QED
    BY <1>1, <1>2, <1>3, <2>2 DEF q
<1>4. CASE Tail(q) # <<>>
  <2>1. Tail(q) \in Seq(Payloads) /\ Len(Tail(q)) # 0
    BY <1>1, <1>4, HeadTailProperties, EmptySeq
  <2>2. Len(Tail(q)) \in 1..Len(Tail(q))
    BY <1>2, <2>1
  <2>3. Tail(q)[Len(Tail(q))] = q[Len(q)]
    BY <1>2, <2>2
  <2> QED
    BY <1>1, <1>4, <2>3 DEF q
<1> QED
  BY <1>3, <1>4

LEMMA WriteKeeps ==
    ASSUME TypeOK, WriterWrites, NEW t \in Threads \cup {None},
           WriteByRename(t) \/ WriteInPlace(t), Clean', Clean => InHand \/ HandedOver
    PROVE  (InHand \/ HandedOver)'
<1> ThreadTypes /\ WriterTypes
  BY TypeParts
<1>1. UNCHANGED <<events, bootId, dirty, inverted>>
  BY DEF WriteByRename, WriteInPlace, store, past
<1>2. t = None
  BY <1>1, TakeNextFields DEF WriteByRename, WriteInPlace, WriterWrites, At, Clean
<1>3. thread' = thread
  BY <1>2 DEF WriteByRename, WriteInPlace, WriteEnds
<1>4. Clean /\ Current' = Current
  BY <1>1, <1>3 DEF Clean, At, Current
<1>5. Payload(t) = Head(writer.queue) /\ Payload(t) \in Payloads
  BY <1>2, PayloadTyped DEF Payload, WriteByRename, WriteInPlace
<1>6. writer.queue # <<>> /\ writer'.queue = Tail(writer.queue)
  BY <1>2, TakeNextFields DEF WriteByRename, WriteInPlace
<1>7. CASE InHand
  BY <1>3, <1>4, <1>7 DEF InHand, At
<1>8. CASE HandedOver
  <2>1. /\ writer'.queue # <<>> => writer'.queue[Len(writer'.queue)] = Current
        /\ writer'.queue = <<>> => Payload(t) = Current
    BY <1>5, <1>6, <1>8, TakenHead
  <2>2. CASE WriteByRename(t)
    <3>1. Loaded' = Payload(t) /\ writer'.write = NoWrite
      BY <1>5, <2>2, WrittenDisk, TakeNextFields DEF WriteByRename
    <3> QED
      BY <1>3, <1>4, <1>8, <2>1, <3>1 DEF HandedOver, At
  <2>3. CASE WriteInPlace(t)
    <3>1. writer'.write = [by |-> t, payload |-> Payload(t)]
      BY <2>3, TakeNextFields DEF WriteInPlace
    <3>2. writer'.write # NoWrite /\ writer'.write.payload = Payload(t)
      BY <3>1 DEF NoWrite
    <3> QED
      BY <1>3, <1>4, <1>8, <2>1, <3>2 DEF HandedOver, At
  <2> QED
    BY <2>2, <2>3
<1> QED
  BY <1>4, <1>7, <1>8

LEMMA FillKeeps ==
    ASSUME TypeOK, WriterWrites, WriteFills, Clean', Clean => InHand \/ HandedOver
    PROVE  (InHand \/ HandedOver)'
<1> WriterTypes
  BY TypeParts
<1>1. UNCHANGED <<events, bootId, dirty, inverted>>
  BY DEF WriteFills, store, past
<1>2. thread' = thread
  BY <1>1 DEF WriteFills, WriteEnds, WriterWrites, Clean
<1>3. Clean /\ Current' = Current
  BY <1>1, <1>2 DEF Clean, At, Current
<1>4. writer'.queue = writer.queue /\ writer'.write = NoWrite /\ writer.write # NoWrite
  BY DEF WriteFills, WriterTypes
<1>5. Loaded' = writer.write.payload
  BY <1>4, FillPayload, WrittenDisk DEF WriteFills
<1>6. CASE InHand
  BY <1>2, <1>3, <1>6 DEF InHand, At
<1>7. CASE HandedOver
  BY <1>2, <1>3, <1>4, <1>5, <1>7 DEF HandedOver, At
<1> QED
  BY <1>3, <1>6, <1>7

LEMMA RestartKeeps == ASSUME DiskTypes, Restart PROVE (InHand \/ HandedOver)'
<1>1. /\ writer'.queue = <<>> /\ writer'.write = NoWrite
      /\ \A t \in Threads : thread'[t].at = "idle"
  BY DEF Restart, Idle
<1>2. Loaded = [bootId |-> Loaded.bootId, events |-> Loaded.events]
  BY DEF Loaded
<1>3. Loaded' = Loaded
  BY DEF Restart, Loaded
<1>4. Current' = [bootId |-> Loaded.bootId, events |-> Loaded.events]
  BY DEF Restart, Current
<1>5. Loaded' = Current'
  BY <1>2, <1>3, <1>4
<1> QED
  BY <1>1, <1>5 DEF HandedOver, At

-----------------------------------------------------------------------------
(* The theorems.                                                           *)

LEMMA WrittenInit == Init => WrittenInv
<1> SUFFICES ASSUME Init PROVE WrittenInv
  OBVIOUS
<1>1. ThreadTypes /\ StoreTypes /\ WriterTypes /\ DiskTypes /\ OtherTypes
  BY PlainPlaces, EmptySeq DEF Init, ThreadTypes, StoreTypes, WriterTypes, DiskTypes, OtherTypes, Ids
<1>2. writer.write = NoWrite /\ writer.queue = <<>> /\ \A t \in Threads : thread[t].at = "idle"
  BY DEF Init, Idle
<1>3. InPlace /\ WriterWrites
  BY <1>2, NoWriteBy DEF InPlace, WriterWrites
<1>4. Loaded = Current
  BY DEF Init, Loaded, Current
<1>5. HandedOver
  BY <1>2, <1>4 DEF HandedOver, At
<1> QED
  BY <1>1, <1>3, <1>5, TypeParts DEF WrittenInv

LEMMA WrittenStep == WrittenInv /\ [Next]_vars => WrittenInv'
<1> SUFFICES ASSUME WrittenInv, [Next]_vars PROVE WrittenInv'
  OBVIOUS
<1>1. TypeOK /\ InPlace /\ WriterWrites /\ (Clean => InHand \/ HandedOver)
  BY DEF WrittenInv
<1>2. TypeOK' /\ InPlace' /\ WriterWrites'
  BY <1>1, TypeStep, InPlaceStep, WriterWritesStep
<1>3. ASSUME Clean' PROVE (InHand \/ HandedOver)'
  <2>1. CASE Aside
    BY <1>1, <1>3, <2>1, CalmKeeps DEF Aside
  <2>2. CASE Changes
    BY <1>1, <1>3, <2>2, ChangesKeep
  <2>3. ASSUME NEW t \in Threads, Snapshot(t) PROVE (InHand \/ HandedOver)'
    BY <1>1, <1>3, <2>3, SnapshotKeeps
  <2>4. ASSUME NEW t \in Threads, Submit(t) PROVE (InHand \/ HandedOver)'
    BY <1>1, <1>3, <2>4, SubmitKeeps
  <2>5. ASSUME NEW t \in Threads \cup {None}, WriteByRename(t) \/ WriteInPlace(t)
        PROVE  (InHand \/ HandedOver)'
    BY <1>1, <1>3, <2>5, WriteKeeps
  <2>6. CASE WriteFills
    BY <1>1, <1>3, <2>6, FillKeeps
  <2>7. CASE Restart
    BY <1>1, <2>7, RestartKeeps, TypeParts
  <2>8. CASE FillFails \/ \E t \in Threads \cup {None} : WriteFails(t)
    BY <1>3, <2>8 DEF FillFails, WriteFails, DirtyAfterFailure, Clean
  <2> QED
    BY <1>1, <2>1, <2>2, <2>3, <2>4, <2>5, <2>6, <2>7, <2>8, NextCases
<1> QED
  BY <1>2, <1>3 DEF WrittenInv

\* Whose hands the newest snapshot is in, until it is on disk.
THEOREM InductiveInvariant == Spec => []WrittenInv
BY WrittenInit, WrittenStep, PTL DEF Spec

\* The variables keep their types.
THEOREM TypeCorrect == Spec => []TypeOK
<1>1. WrittenInv => TypeOK
  BY DEF WrittenInv
<1> QED
  BY <1>1, InductiveInvariant, PTL

\* What the store takes for written is what a restart would load, over failed
\* and torn writes and restarts, for any history and number of calls, as long as
\* snapshots were handed over in the order they were taken in.
THEOREM CleanMeansWrittenHolds == Spec => []CleanMeansWritten
<1>1. WrittenInv => CleanMeansWritten
  <2> SUFFICES ASSUME WrittenInv, Quiet, ~dirty, ~inverted
               PROVE  Loaded = [bootId |-> bootId, events |-> events]
    BY DEF CleanMeansWritten
  <2>1. \A t \in Threads : thread[t].at \notin {"submit", "detected"}
    BY DEF Quiet
  <2>2. HandedOver
    BY <2>1 DEF WrittenInv, Clean, InHand, At
  <2> QED
    BY <2>2 DEF HandedOver, Quiet, Current
<1> QED
  BY <1>1, InductiveInvariant, PTL

-----------------------------------------------------------------------------
(* Counting the reboots of a history.                                      *)

Spots(items) == {i \in 1..Len(items) : items[i] = "reboot_detected"}

LEMMA SpotsFinite ==
    ASSUME NEW items \in Seq(Kinds)
    PROVE  IsFiniteSet(Spots(items)) /\ Detections(items) = Cardinality(Spots(items))
           /\ Detections(items) \in Nat
<1>1. IsFiniteSet(1..Len(items)) /\ Spots(items) \subseteq 1..Len(items)
  BY FS_Interval, LenProperties DEF Spots
<1>2. IsFiniteSet(Spots(items))
  BY <1>1, FS_Subset
<1>3. Detections(items) = Cardinality(Spots(items))
  BY DEF Detections, Spots
<1> QED
  BY <1>2, <1>3, FS_CardinalityType

LEMMA NoDetections == Detections(<<>>) = 0
<1>1. {i \in 1..Len(<<>>) : <<>>[i] = "reboot_detected"} = {}
  OBVIOUS
<1> QED
  BY <1>1, FS_EmptySet DEF Detections

LEMMA AppendDetections ==
    ASSUME NEW items \in Seq(Kinds), NEW kind \in Kinds
    PROVE  /\ Detections(Append(items, kind)) <= Detections(items) + 1
           /\ kind # "reboot_detected" => Detections(Append(items, kind)) = Detections(items)
<1> DEFINE all == Append(items, kind)
<1>1. /\ all \in Seq(Kinds) /\ Len(all) = Len(items) + 1 /\ Len(items) \in Nat
      /\ \A i \in 1..Len(items) : all[i] = items[i]
      /\ all[Len(items) + 1] = kind
  BY AppendProperties, LenProperties
<1>2. Detections(items) = Cardinality(Spots(items)) /\ Detections(items) \in Nat
  BY SpotsFinite
<1>3. Detections(all) = Cardinality(Spots(all)) /\ Detections(all) \in Nat
  BY <1>1, SpotsFinite
<1> HIDE DEF all
<1>4. CASE kind # "reboot_detected"
  <2>1. Spots(all) = Spots(items)
    BY <1>1, <1>4 DEF Spots
  <2> QED
    BY <1>2, <1>3, <1>4, <2>1 DEF all
<1>5. CASE kind = "reboot_detected"
  <2> DEFINE old == Spots(items)
             new == Len(items) + 1
  <2>1. Spots(all) = old \cup {new}
    BY <1>1, <1>5 DEF Spots
  <2>2. IsFiniteSet(old)
    BY SpotsFinite
  <2>3. Cardinality(old \cup {new}) =
          IF new \in old THEN Cardinality(old) ELSE Cardinality(old) + 1
    <3> HIDE DEF old, new
    <3> QED
      BY <2>2, FS_AddElement
  <2>4. Cardinality(Spots(all)) <= Cardinality(old) + 1
    <3>1. Cardinality(old) \in Nat
      BY <1>2
    <3> HIDE DEF old, new
    <3> QED
      BY <2>1, <2>3, <3>1
  <2> QED
    BY <1>2, <1>3, <1>5, <2>4 DEF all
<1> QED
  BY <1>4, <1>5 DEF all

LEMMA SuffixDetections ==
    ASSUME NEW items \in Seq(Kinds), NEW k \in 0..Len(items)
    PROVE  Detections(SubSeq(items, k + 1, Len(items))) <= Detections(items)
<1> DEFINE end == SubSeq(items, k + 1, Len(items))
           f == [i \in Spots(end) |-> i + k]
<1>0. Len(items) \in Nat /\ k \in Nat /\ k <= Len(items)
  BY LenProperties
<1>1. /\ end \in Seq(Kinds) /\ Len(end) = Len(items) - k
      /\ \A i \in 1..(Len(items) - k) : end[i] = items[i + k]
  <2>1. \A i \in (k + 1)..Len(items) : items[i] \in Kinds
    BY <1>0, ElementOfSeq
  <2>2. /\ end \in Seq(Kinds)
        /\ Len(end) = IF k + 1 <= Len(items) THEN Len(items) - (k + 1) + 1 ELSE 0
        /\ \A i \in 1..(Len(items) - (k + 1) + 1) : end[i] = items[(k + 1) + i - 1]
    BY <1>0, <2>1, SubSeqProperties
  <2> HIDE DEF end
  <2> QED
    BY <1>0, <2>2, SMTT(30)
<1>2. f \in Injection(Spots(end), Spots(items))
  <2> HIDE DEF end
  <2>1. \A i \in Spots(end) : i + k \in Spots(items) /\ i \in Nat
    BY <1>0, <1>1 DEF Spots
  <2>2. \A i, j \in Spots(end) : i + k = j + k => i = j
    BY <1>0, <2>1
  <2>3. f \in [Spots(end) -> Spots(items)]
    BY <2>1
  <2> QED
    BY <2>2, <2>3 DEF Injection, IsInjective
<1>3. Cardinality(Spots(end)) <= Cardinality(Spots(items))
  <2>1. IsFiniteSet(Spots(items))
    BY SpotsFinite
  <2> HIDE DEF end, f
  <2> QED
    BY <1>2, <2>1, FS_Injection
<1> QED
  BY <1>1, <1>3, SpotsFinite

\* Dropping the oldest events never adds a reboot.
LEMMA PruneDetections ==
    ASSUME NEW items \in Seq(Kinds), NEW kind \in Kinds
    PROVE  /\ Detections(Prune(Append(items, kind))) <= Detections(items) + 1
           /\ kind # "reboot_detected" =>
                Detections(Prune(Append(items, kind))) <= Detections(items)
<1> DEFINE all == Append(items, kind)
<1>1. all \in Seq(Kinds) /\ Len(all) \in Nat /\ Detections(all) \in Nat
  BY AppendProperties, LenProperties, SpotsFinite
<1>2. Prune(all) \in Seq(Kinds) /\ Detections(Prune(all)) \in Nat /\ Detections(items) \in Nat
  BY PruneTyped, SpotsFinite
<1>3. Detections(Prune(all)) <= Detections(all)
  <2> HIDE DEF all
  <2>1. CASE Len(all) <= MaxPerDevice
    <3>1. Prune(all) = all
      BY <1>1, <2>1, BoundsAssumption DEF Prune
    <3> QED
      BY <1>1, <3>1
  <2>2. CASE ~(Len(all) <= MaxPerDevice)
    <3>1. Prune(all) = SubSeq(all, (Len(all) - MaxPerDevice) + 1, Len(all))
      BY <1>1, <2>2, BoundsAssumption DEF Prune
    <3>2. Len(all) - MaxPerDevice \in 0..Len(all)
      BY <1>1, <2>2, BoundsAssumption
    <3> QED
      BY <1>1, <3>1, <3>2, SuffixDetections
  <2> QED
    BY <2>1, <2>2
<1> QED
  BY <1>1, <1>2, <1>3, AppendDetections

-----------------------------------------------------------------------------
(* Where a reboot can be counted twice: every history the gateway has       *)
(* somewhere, and may come to load, is accounted for.                      *)

Held(items) ==
    \/ items = events \/ items = disk.events
    \/ \E t \in Threads : thread[t].at \in {"submit", "inline"} /\ items = thread[t].payload.events
    \/ \E i \in 1..Len(writer.queue) : items = writer.queue[i].events
    \/ writer.write # NoWrite /\ items = writer.write.payload.events

LEMMA HeldTyped == ASSUME TypeOK, NEW items, Held(items) PROVE items \in Seq(Kinds)
<1>1. ThreadTypes /\ StoreTypes /\ WriterTypes /\ DiskTypes
  BY TypeParts
<1>2. \A b \in Payloads : b.events \in Seq(Kinds)
  BY DEF Payloads
<1>3. \A t \in Threads : thread[t].at \in {"submit", "inline"} => thread[t].payload \in Payloads
  BY <1>1, PlaceFields DEF ThreadTypes
<1>4. \A i \in 1..Len(writer.queue) : writer.queue[i] \in Payloads
  BY <1>1, ElementOfSeq DEF WriterTypes
<1>5. writer.write # NoWrite => writer.write.payload \in Payloads
  BY <1>1, FillPayload
<1>6. events \in Seq(Kinds) /\ disk.events \in Seq(Kinds)
  BY <1>1 DEF StoreTypes, DiskTypes
<1> QED
  BY <1>2, <1>3, <1>4, <1>5, <1>6 DEF Held

LEMMA PayloadHeld ==
    ASSUME WriterTypes, NEW t \in Threads \cup {None}, NEW place, TakeNext(t, place)
    PROVE  Held(Payload(t).events)
<1>1. CASE t = None
  <2>1. writer.queue \in Seq(Payloads) /\ writer.queue # <<>>
    BY <1>1 DEF TakeNext, WriterTypes
  <2>2. Head(writer.queue) = writer.queue[1] /\ 1 \in 1..Len(writer.queue)
    BY <2>1, HeadTailProperties, EmptySeq, LenProperties
  <2> QED
    BY <1>1, <2>2 DEF Payload, Held
<1>2. CASE t # None
  BY <1>2 DEF TakeNext, Payload, Held, At
<1> QED
  BY <1>1, <1>2

\* A step that neither hands over nor writes.
LEMMA StillHeld ==
    ASSUME writer'.queue = writer.queue, writer'.write = writer.write, disk'.events = disk.events,
           \/ thread' = thread
           \/ \E t \in Threads : /\ thread'[t].at \notin {"submit", "inline"}
                                 /\ \A u \in Threads \ {t} : thread'[u] = thread[u],
           NEW items, Held(items)'
    PROVE  items = events' \/ Held(items)
<1>1. \A u \in Threads : thread'[u].at \in {"submit", "inline"} => thread'[u] = thread[u]
  OBVIOUS
<1> QED
  BY <1>1 DEF Held

\* A thread that has ended its write, if it is one, holds nothing.
LEMMA WriteEndsHolds ==
    ASSUME ThreadTypes, NEW t \in Threads \cup {None}, WriteEnds(t),
           t \in Threads => thread[t].at \in {"inline", "writing"}
    PROVE  \/ thread' = thread
           \/ \E u \in Threads : /\ thread'[u].at \in {"idle", "forgetting", "closing"}
                                 /\ thread[u].at \in {"inline", "writing"}
                                 /\ \A v \in Threads \ {u} : thread'[v] = thread[v]
<1>1. CASE t = None
  BY <1>1 DEF WriteEnds
<1>2. CASE t # None
  <2>1. t \in Threads /\ Goto(t, thread[t].then) /\ thread[t].then \in Nexts
    BY <1>2, PlaceFields DEF WriteEnds, ThreadTypes
  <2>2. thread[t].then.at \in {"idle", "forgetting", "closing"}
    BY <2>1 DEF Nexts
  <2>3. thread'[t] = thread[t].then /\ \A v \in Threads \ {t} : thread'[v] = thread[v]
    BY <2>1, GotoOne
  <2> QED
    BY <1>2, <2>1, <2>2, <2>3
<1> QED
  BY <1>1, <1>2

\* Histories are copied and forgotten, never made up: a new one is the store's.
LEMMA HeldStep ==
    ASSUME TypeOK, InPlace, [Next]_vars, NEW items, Held(items)'
    PROVE  items = events' \/ Held(items)
<1> ThreadTypes /\ StoreTypes /\ WriterTypes /\ DiskTypes
  BY TypeParts
<1>1. CASE Aside
  <2>1. \/ thread' = thread
        \/ \E t \in Threads : /\ thread'[t].at \notin {"submit", "inline"}
                              /\ \A u \in Threads \ {t} : thread'[u] = thread[u]
    BY <1>1 DEF Aside, CalmMove, Calm
  <2> QED
    BY <1>1, <2>1, StillHeld DEF Aside
<1>2. CASE Changes
  <2>1. \E t \in Threads : /\ thread'[t].at \notin {"submit", "inline"}
                           /\ \A u \in Threads \ {t} : thread'[u] = thread[u]
    BY <1>2 DEF Changes
  <2> QED
    BY <1>2, <2>1, StillHeld DEF Changes
<1>3. CASE Restart
  <2>1. /\ writer'.queue = <<>> /\ writer'.write = NoWrite /\ disk' = disk
        /\ \A t \in Threads : thread'[t].at = "idle"
    BY <1>3 DEF Restart, Idle
  <2>2. 1..Len(writer'.queue) = {}
    BY <2>1, EmptySeq
  <2> QED
    BY <2>1, <2>2 DEF Held
<1>4. ASSUME NEW t \in Threads, Snapshot(t) PROVE items = events' \/ Held(items)
  <2>1. writer' = writer /\ disk' = disk /\ events' = events
    BY <1>4 DEF Snapshot
  <2>2. thread[t].then \in Nexts
    BY <1>4, PlaceFields DEF Snapshot, At, ThreadTypes
  <2>3. \/ Goto(t, thread[t].then)
        \/ Goto(t, [at |-> "submit", then |-> thread[t].then, payload |-> Current,
                    older |-> {u \in Threads : At(u, "submit")}])
    BY <1>4 DEF Snapshot, Current
  <2>4. \E p : /\ Goto(t, p)
               /\ p.at \in {"submit", "inline"} => p.payload.events = events
    BY <2>2, <2>3 DEF Nexts, Current
  <2>5. /\ thread'[t].at \in {"submit", "inline"} => thread'[t].payload.events = events
        /\ \A u \in Threads \ {t} : thread'[u] = thread[u]
    BY <2>4, GotoOne
  <2> QED
    BY <2>1, <2>5 DEF Held
<1>5. ASSUME NEW t \in Threads, Submit(t) PROVE items = events' \/ Held(items)
  <2>1. disk' = disk /\ events' = events /\ thread[t].at = "submit"
    BY <1>5 DEF Submit, At, store
  <2>2. thread[t].then \in Nexts /\ thread[t].payload \in Payloads
    BY <2>1, PlaceFields DEF ThreadTypes
  <2>3. \/ Goto(t, thread[t].then)
        \/ Goto(t, [at |-> "inline", then |-> thread[t].then, payload |-> thread[t].payload])
    BY <1>5 DEF Submit
  <2>4. \E p : /\ Goto(t, p)
               /\ p.at \in {"submit", "inline"} => p.payload = thread[t].payload
    BY <2>2, <2>3 DEF Nexts
  <2>5. /\ thread'[t].at \in {"submit", "inline"} => thread'[t].payload = thread[t].payload
        /\ \A u \in Threads \ {t} : thread'[u] = thread[u]
    BY <2>4, GotoOne
  <2>6. /\ writer'.write = writer.write
        /\ \/ writer'.queue = writer.queue
           \/ writer'.queue = Append(writer.queue, thread[t].payload)
    BY <1>5 DEF Submit, WriterTypes
  <2>7. \A i \in 1..Len(writer'.queue) :
           \/ i \in 1..Len(writer.queue) /\ writer'.queue[i] = writer.queue[i]
           \/ writer'.queue[i] = thread[t].payload
    <3>1. writer.queue \in Seq(Payloads)
      BY DEF WriterTypes
    <3> QED
      BY <2>2, <2>6, <3>1, AppendProperties, LenProperties, SMTT(30)
  <2> QED
    BY <2>1, <2>5, <2>6, <2>7 DEF Held
<1>6. ASSUME NEW t \in Threads \cup {None}, WriteByRename(t) \/ WriteInPlace(t) \/ WriteFails(t)
      PROVE  items = events' \/ Held(items)
  <2>1. PICK place \in {NoWrite, [by |-> t, payload |-> Payload(t)]} : TakeNext(t, place)
    BY <1>6 DEF WriteByRename, WriteInPlace, WriteFails
  <2>2. Held(Payload(t).events) /\ (t \in Threads => thread[t].at = "inline")
    BY <2>1, PayloadHeld, TakeNextInline DEF At
  <2>3. \A i \in 1..Len(writer'.queue) :
           \E j \in 1..Len(writer.queue) : writer'.queue[i] = writer.queue[j]
    <3>1. writer.queue \in Seq(Payloads)
      BY DEF WriterTypes
    <3>2. CASE t = None
      <4>1. writer.queue # <<>> /\ writer'.queue = Tail(writer.queue)
        BY <2>1, <3>2, TakeNextFields
      <4> QED
        BY <3>1, <4>1, HeadTailProperties, LenProperties, EmptySeq
    <3>3. CASE t # None
      BY <2>1, <3>3, TakeNextFields
    <3> QED
      BY <3>2, <3>3
  <2>4. writer'.write = NoWrite \/ writer'.write.payload = Payload(t)
    BY <2>1, TakeNextFields
  <2>5. disk'.events = disk.events \/ disk'.events = Payload(t).events
    BY <1>6 DEF WriteByRename, WriteInPlace, WriteFails, Written, DiskTypes
  <2>6. \/ thread' = thread
        \/ \E u \in Threads : /\ thread'[u].at \notin {"submit", "inline"}
                              /\ \A v \in Threads \ {u} : thread'[v] = thread[v]
    <3>1. CASE WriteEnds(t)
      BY <2>2, <3>1, WriteEndsHolds
    <3>2. CASE t # None /\ Goto(t, [at |-> "writing", then |-> thread[t].then])
      <4>1. /\ t \in Threads /\ thread'[t] = [at |-> "writing", then |-> thread[t].then]
            /\ \A v \in Threads \ {t} : thread'[v] = thread[v]
        BY <3>2, GotoOne
      <4> QED
        BY <4>1
    <3> QED
      BY <1>6, <3>1, <3>2 DEF WriteByRename, WriteInPlace, WriteFails
  <2>7. \A u \in Threads : thread'[u].at \in {"submit", "inline"} => thread'[u] = thread[u]
    BY <2>6
  <2>8. events' = events
    BY <1>6 DEF WriteByRename, WriteInPlace, WriteFails, store
  <2> QED
    BY <2>2, <2>3, <2>4, <2>5, <2>7, <2>8 DEF Held
<1>7. CASE WriteFills \/ FillFails
  <2>1. writer.write # NoWrite /\ writer' = [writer EXCEPT !.write = NoWrite]
        /\ WriteEnds(writer.write.by)
    BY <1>7 DEF WriteFills, FillFails
  <2>2. writer'.queue = writer.queue /\ writer'.write = NoWrite
        /\ writer.write.by \in Threads \cup {None}
    BY <2>1 DEF WriterTypes
  <2>3. writer.write.by \in Threads => thread[writer.write.by].at = "writing"
    BY DEF InPlace, At
  <2>4. \/ thread' = thread
        \/ \E u \in Threads : /\ thread'[u].at \notin {"submit", "inline"}
                              /\ \A v \in Threads \ {u} : thread'[v] = thread[v]
    BY <2>1, <2>2, <2>3, WriteEndsHolds
  <2>5. \A u \in Threads : thread'[u].at \in {"submit", "inline"} => thread'[u] = thread[u]
    BY <2>4
  <2>6. disk'.events = disk.events \/ disk'.events = writer.write.payload.events
    BY <1>7 DEF WriteFills, FillFails, Written
  <2> QED
    BY <2>1, <2>2, <2>5, <2>6 DEF Held
<1> QED
  BY <1>1, <1>2, <1>3, <1>4, <1>5, <1>6, <1>7, NextCases

Noting == {"read", "noting", "detected"}

\* Only the probe has a boot id in hand.
OnlyTheProbe == \A t \in Threads \ {"probe"} : thread[t].at \notin Noting

\* m more reboots of the board's own may be counted in any of the histories, the
\* one the probe is about to record not among them.
HeldBacked(m) ==
    \A items \in Seq(Kinds) : Held(items) => Detections(items) + m <= spontaneous
Owing(m)  == At("probe", "detected") => Detections(events) + 1 + m <= spontaneous
Backed(m) == HeldBacked(m) /\ Owing(m)

\* The boot ids a later one may be compared with.
Seen(id) ==
    \/ bootId = id /\ ~At("hook", "forgetting")
    \/ At("probe", "read") /\ thread["probe"].id = id /\ recovery = "none"
    \/ At("probe", "noting") /\ thread["probe"].id = id /\ ~At("hook", "forgetting")

\* While a requested reboot is under way there is no id to compare with.
RebootForgets ==
    recovery # "none" /\ ~At("hook", "forgetting") => bootId = None /\ ~NotingUnderway

\* Ids are noted in the order the board had them.
InOrder ==
    /\ bootId # None => bootId <= board
    /\ thread["probe"].at \in {"read", "noting"} =>
         thread["probe"].id <= board /\ (bootId # None => bootId <= thread["probe"].id)
    /\ At("probe", "detected") => bootId = thread["probe"].id

\* Every reboot after an id that may be compared with was the board's own.
Charged == \A id, m \in Nat : Seen(id) /\ board = id + m => Backed(m)

Accounted == RebootForgets /\ InOrder /\ Backed(0) /\ Charged

CountInv == WrittenInv /\ OnlyTheProbe /\ (~crossed => Accounted)

-----------------------------------------------------------------------------
(* The steps, as far as the count goes.                                    *)

\* One thread, with no boot id in hand, goes to a place where it has none.
PlainMove ==
    \/ thread' = thread
    \/ \E t \in Threads : /\ thread[t].at \notin Noting \cup {"forgetting"}
                          /\ thread'[t].at \notin Noting
                          /\ \A u \in Threads \ {t} : thread'[u] = thread[u]

\* The events are as they were, or another one than a detected reboot is added.
PlainRecord ==
    \/ events' = events
    \/ \E kind \in Kinds \ {"reboot_detected"} : events' = Prune(Append(events, kind))

Apart == PlainMove /\ PlainRecord /\ UNCHANGED <<bootId, board, recovery, crossed, spontaneous>>

LEMMA PlainGoto ==
    ASSUME ThreadTypes, NEW t \in Threads, NEW p, Goto(t, p),
           thread[t].at \notin Noting \cup {"forgetting"}, p.at \notin Noting
    PROVE  PlainMove
BY GotoOne DEF PlainMove

LEMMA PlainPlaced ==
    /\ \A n \in Nexts : n.at \notin Noting /\ Flushing(n).at \notin Noting
    /\ Idle.at \notin Noting /\ Flushing(Idle).at \notin Noting
BY DEF Nexts, Noting, Flushing, Idle

LEMMA ApartSteps ==
    ASSUME TypeOK, InPlace,
           \/ \E t \in Threads : Snapshot(t) \/ Submit(t)
           \/ \E t \in Threads \cup {None} : WriteByRename(t) \/ WriteInPlace(t) \/ WriteFails(t)
           \/ WriteFills \/ FillFails \/ Close \/ CloseWriter \/ Closed
           \/ HookRecords \/ RecordRequested \/ UNCHANGED vars
    PROVE  Apart
<1> ThreadTypes /\ WriterTypes
  BY TypeParts
<1>0. UNCHANGED <<bootId, board, recovery, crossed, spontaneous>>
  BY DEF Snapshot, Submit, WriteByRename, WriteInPlace, WriteFails, WriteFills, FillFails, Close,
         CloseWriter, Closed, HookRecords, RecordRequested, Record, vars, store, world, past
<1>1. ASSUME NEW t \in Threads, Snapshot(t) PROVE PlainMove /\ PlainRecord
  <2>1. thread[t].at = "flush" /\ events' = events
    BY <1>1 DEF Snapshot, At
  <2>2. thread[t].then \in Nexts
    BY <2>1, PlaceFields DEF ThreadTypes
  <2>3. \/ Goto(t, thread[t].then)
        \/ Goto(t, [at |-> "submit", then |-> thread[t].then, payload |-> Current,
                    older |-> {u \in Threads : At(u, "submit")}])
    BY <1>1 DEF Snapshot, Current
  <2>4. \E p : Goto(t, p) /\ p.at \notin Noting
    BY <2>2, <2>3 DEF Nexts, Noting
  <2>5. thread[t].at \notin Noting \cup {"forgetting"}
    BY <2>1 DEF Noting
  <2> QED
    BY <2>1, <2>4, <2>5, PlainGoto DEF PlainRecord
<1>2. ASSUME NEW t \in Threads, Submit(t) PROVE PlainMove /\ PlainRecord
  <2>1. thread[t].at = "submit" /\ events' = events
    BY <1>2 DEF Submit, At, store
  <2>2. thread[t].then \in Nexts
    BY <2>1, PlaceFields DEF ThreadTypes
  <2>3. \/ Goto(t, thread[t].then)
        \/ Goto(t, [at |-> "inline", then |-> thread[t].then, payload |-> thread[t].payload])
    BY <1>2 DEF Submit
  <2>4. \E p : Goto(t, p) /\ p.at \notin Noting
    BY <2>2, <2>3 DEF Nexts, Noting
  <2>5. thread[t].at \notin Noting \cup {"forgetting"}
    BY <2>1 DEF Noting
  <2> QED
    BY <2>1, <2>4, <2>5, PlainGoto DEF PlainRecord
<1>3. ASSUME NEW t \in Threads \cup {None}, WriteEnds(t),
             t \in Threads => thread[t].at \in {"inline", "writing"}
      PROVE  PlainMove
  BY <1>3, WriteEndsHolds DEF PlainMove, Noting
<1>4. ASSUME NEW t \in Threads \cup {None}, WriteByRename(t) \/ WriteInPlace(t) \/ WriteFails(t)
      PROVE  PlainMove /\ PlainRecord
  <2>1. t \in Threads => thread[t].at = "inline"
    BY <1>4, TakeNextInline DEF WriteByRename, WriteInPlace, WriteFails, At
  <2>2. events' = events
    BY <1>4 DEF WriteByRename, WriteInPlace, WriteFails, store
  <2>3. CASE WriteEnds(t)
    BY <1>3, <2>1, <2>2, <2>3 DEF PlainRecord
  <2>4. CASE t # None /\ Goto(t, [at |-> "writing", then |-> thread[t].then])
    <3>1. thread[t].at \notin Noting \cup {"forgetting"} /\ t \in Threads
      BY <2>1, <2>4 DEF Noting
    <3> DEFINE p == [at |-> "writing", then |-> thread[t].then]
    <3>2. p.at \notin Noting
      BY DEF Noting
    <3>3. Goto(t, p)
      BY <2>4
    <3> HIDE DEF p
    <3> QED
      BY <2>2, <3>1, <3>2, <3>3, PlainGoto DEF PlainRecord
  <2>5. WriteInPlace(t) /\ t = None => WriteEnds(t)
    BY DEF WriteInPlace, WriteEnds
  <2> QED
    BY <1>4, <2>3, <2>4, <2>5 DEF WriteByRename, WriteInPlace, WriteFails
<1>5. CASE WriteFills \/ FillFails
  <2>1. writer.write # NoWrite /\ WriteEnds(writer.write.by) /\ events' = events
    BY <1>5 DEF WriteFills, FillFails, store
  <2>2. writer.write.by \in Threads \cup {None}
    BY <2>1 DEF WriterTypes
  <2>3. writer.write.by \in Threads => thread[writer.write.by].at = "writing"
    BY DEF InPlace, At
  <2> QED
    BY <1>0, <1>3, <2>1, <2>2, <2>3 DEF Apart, PlainRecord
<1>6. CASE Close \/ CloseWriter \/ Closed
  <2>1. thread["closer"].at \notin Noting \cup {"forgetting"} /\ "closer" \in Threads
        /\ events' = events
    BY <1>6 DEF Close, CloseWriter, Closed, At, Noting, Threads, store
  <2>2. \E p : Goto("closer", p) /\ p.at \notin Noting
    <3>1. \/ Goto("closer", Flushing([at |-> "closing"])) \/ Goto("closer", [at |-> "joining"])
          \/ Goto("closer", [at |-> "closed"])
      BY <1>6 DEF Close, CloseWriter, Closed
    <3>2. /\ Flushing([at |-> "closing"]).at \notin Noting
          /\ [at |-> "joining"].at \notin Noting /\ [at |-> "closed"].at \notin Noting
      BY DEF Flushing, Noting
    <3> QED
      BY <3>1, <3>2
  <2> QED
    BY <1>0, <2>1, <2>2, PlainGoto DEF Apart, PlainRecord
<1>7. CASE HookRecords \/ RecordRequested
  <2>1. PICK t \in {"hook", "worker"}, kind \in {"other", "reboot_requested"}, n \in Nexts :
          /\ thread[t].at \in {"idle", "completed"}
          /\ Record(t, kind, None, n)
    <3>1. CASE HookRecords
      BY <3>1, PlainPlaces DEF HookRecords, At
    <3>2. CASE RecordRequested
      BY <3>2, PlainPlaces DEF RecordRequested, At
    <3> QED
      BY <1>7, <3>1, <3>2
  <2>2. \E p : Goto(t, p) /\ p.at \notin Noting
    BY <2>1, PlainPlaced DEF Record
  <2>3. thread[t].at \notin Noting \cup {"forgetting"} /\ t \in Threads
    BY <2>1 DEF Noting, Threads
  <2>4. PlainMove
    BY <2>2, <2>3, PlainGoto
  <2>5. PlainRecord
    BY <2>1 DEF Record, PlainRecord, Kinds
  <2> QED
    BY <1>0, <2>4, <2>5 DEF Apart
<1>8. CASE UNCHANGED vars
  BY <1>0, <1>8 DEF vars, store, Apart, PlainMove, PlainRecord
<1> QED
  BY <1>0, <1>1, <1>2, <1>4, <1>5, <1>6, <1>7, <1>8 DEF Apart

LEMMA CountCases ==
    ASSUME TypeOK, InPlace, OnlyTheProbe, [Next]_vars
    PROVE  \/ Apart \/ NoteBootId("probe") \/ RecordDetected("probe")
           \/ \E t \in Threads : ForgetBootId(t)
           \/ Restart \/ ProbeReads \/ ProbeChecks \/ RequestReboot \/ CommandLands
           \/ RecoveryAbandoned \/ RecoveryCompletes \/ SpontaneousReboot \/ Forget
<1>1. \A t \in Threads : NoteBootId(t) \/ RecordDetected(t) => t = "probe"
  BY DEF NoteBootId, RecordDetected, At, OnlyTheProbe, Noting
<1> QED
  BY <1>1, ApartSteps DEF Next

LEMMA OnlyTheProbeStep ==
    ASSUME TypeOK, InPlace, OnlyTheProbe, [Next]_vars PROVE OnlyTheProbe'
<1> ThreadTypes
  BY TypeParts
<1>1. ASSUME NEW t \in Threads, NEW p, Goto(t, p), t = "probe" \/ p.at \notin Noting
      PROVE  OnlyTheProbe'
  BY <1>1, GotoOne DEF OnlyTheProbe
<1>2. CASE Apart
  BY <1>2 DEF Apart, PlainMove, OnlyTheProbe
<1>3. CASE NoteBootId("probe") \/ RecordDetected("probe") \/ ProbeReads \/ ProbeChecks
  <2>1. \E p : Goto("probe", p)
    BY <1>3 DEF NoteBootId, RecordDetected, Record, ProbeReads, ProbeChecks
  <2> QED
    BY <1>1, <2>1 DEF Threads
<1>4. ASSUME NEW t \in Threads, ForgetBootId(t) PROVE OnlyTheProbe'
  BY <1>1, <1>4, PlainPlaced DEF ForgetBootId
<1>5. CASE RequestReboot
  <2>1. Goto("hook", [at |-> "forgetting"]) /\ "hook" \in Threads
    BY <1>5 DEF RequestReboot, Threads
  <2> QED
    BY <1>1, <2>1 DEF Noting
<1>6. CASE RecoveryCompletes
  <2>1. Goto("worker", [at |-> "completed"]) /\ "worker" \in Threads
    BY <1>6 DEF RecoveryCompletes, Threads
  <2> QED
    BY <1>1, <2>1 DEF Noting
<1>7. CASE Forget
  <2>1. Goto("hook", Flushing(Idle)) /\ "hook" \in Threads
    BY <1>7 DEF Forget, Threads
  <2> QED
    BY <1>1, <2>1, PlainPlaced
<1>8. CASE Restart
  BY <1>8, PlainPlaced DEF Restart, OnlyTheProbe
<1>9. CASE CommandLands \/ RecoveryAbandoned \/ SpontaneousReboot
  BY <1>9 DEF CommandLands, RecoveryAbandoned, SpontaneousReboot, OnlyTheProbe
<1> QED
  BY <1>2, <1>3, <1>4, <1>5, <1>6, <1>7, <1>8, <1>9, CountCases

-----------------------------------------------------------------------------
(* What each step does to the account.                                     *)

LEMMA CountTyped == TypeOK => board \in Nat /\ spontaneous \in Nat /\ events \in Seq(Kinds)
BY DEF TypeOK

LEMMA SpontaneousGrows == TypeOK /\ [Next]_vars => spontaneous' >= spontaneous
<1> SUFFICES ASSUME TypeOK, [Next]_vars PROVE spontaneous' >= spontaneous
  OBVIOUS
<1>1. spontaneous \in Nat
  BY CountTyped
<1>2. spontaneous' = spontaneous \/ spontaneous' = spontaneous + 1
  BY DEF Next, vars, past, NoteBootId, RecordDetected, ForgetBootId, Snapshot, Submit,
         WriteByRename, WriteInPlace, WriteFails, WriteFills, FillFails, Close, CloseWriter, Closed,
         Restart, ProbeReads, ProbeChecks, HookRecords, RequestReboot, CommandLands,
         RecoveryAbandoned, RecoveryCompletes, RecordRequested, SpontaneousReboot, Forget
<1> QED
  BY <1>1, <1>2

LEMMA LoadedHeld == Loaded.events = <<>> \/ Held(Loaded.events)
BY DEF Loaded, Held

\* How many reboots the store's own history has afterwards.
LEMMA EventsStep ==
    ASSUME TypeOK, InPlace, OnlyTheProbe, [Next]_vars, ~RecordDetected("probe")
    PROVE  \/ Detections(events') <= Detections(events)
           \/ Restart /\ Held(events')
           \/ Detections(events') = 0
<1>1. events \in Seq(Kinds) /\ Detections(events) \in Nat
  BY CountTyped, SpotsFinite
<1>2. CASE events' = events
  BY <1>1, <1>2
<1>3. CASE Apart
  <2>1. ASSUME NEW kind \in Kinds \ {"reboot_detected"}, events' = Prune(Append(events, kind))
        PROVE  Detections(events') <= Detections(events)
    BY <1>1, <2>1, PruneDetections
  <2> QED
    BY <1>2, <1>3, <2>1 DEF Apart, PlainRecord
<1>4. CASE Restart
  BY <1>4, LoadedHeld, NoDetections DEF Restart
<1>5. CASE Forget
  BY <1>5, NoDetections DEF Forget
<1>6. Apart \/ Restart \/ Forget \/ events' = events
  BY CountCases DEF NoteBootId, ForgetBootId, ProbeReads, ProbeChecks, RequestReboot, CommandLands,
                    RecoveryAbandoned, RecoveryCompletes, SpontaneousReboot, store
<1> QED
  BY <1>2, <1>3, <1>4, <1>5, <1>6

LEMMA DetectedStep ==
    ASSUME TypeOK, RecordDetected("probe")
    PROVE  /\ Detections(events') <= Detections(events) + 1 /\ Detections(events') \in Nat
           /\ At("probe", "detected") /\ ~At("probe", "detected")'
           /\ thread'["probe"].at \notin Noting
           /\ \A u \in Threads \ {"probe"} : thread'[u] = thread[u]
           /\ UNCHANGED <<board, recovery, crossed, spontaneous>>
           /\ bootId' = thread["probe"].id
<1> ThreadTypes /\ "probe" \in Threads
  BY TypeParts DEF Threads
<1>1. /\ Record("probe", "reboot_detected", thread["probe"].id, Idle)
      /\ At("probe", "detected") /\ UNCHANGED <<board, recovery, crossed, spontaneous>>
  BY DEF RecordDetected, world, past
<1>2. thread["probe"].id \in Nat
  BY <1>1, PlaceFields DEF At, ThreadTypes
<1>3. bootId' = thread["probe"].id /\ events' = Prune(Append(events, "reboot_detected"))
  BY <1>1, <1>2, NoneAssumption DEF Record
<1>4. "reboot_detected" \in Kinds /\ events \in Seq(Kinds)
  BY CountTyped DEF Kinds
<1>5. Detections(events') <= Detections(events) + 1 /\ Detections(events') \in Nat
  BY <1>3, <1>4, PruneDetections, PruneTyped, SpotsFinite
<1>6. thread'["probe"].at \notin Noting /\ \A u \in Threads \ {"probe"} : thread'[u] = thread[u]
  BY <1>1, GotoOne, PlainPlaced DEF Record
<1> QED
  BY <1>1, <1>3, <1>5, <1>6 DEF At, Noting

\* What is backed stays backed: a detection is recorded on the credit that was
\* kept for it.
LEMMA HeldBackedStep ==
    ASSUME TypeOK, TypeOK', InPlace, OnlyTheProbe, [Next]_vars, NEW m \in Nat, Backed(m)
    PROVE  HeldBacked(m)'
<1> SUFFICES ASSUME NEW items \in Seq(Kinds), Held(items)'
             PROVE  Detections(items) + m <= spontaneous'
  BY DEF HeldBacked
<1>1. Detections(items) \in Nat /\ spontaneous \in Nat /\ spontaneous' \in Nat
      /\ spontaneous' >= spontaneous /\ events \in Seq(Kinds) /\ events' \in Seq(Kinds)
  BY SpotsFinite, CountTyped, SpontaneousGrows DEF TypeOK
<1>2. \A other \in Seq(Kinds) : Held(other) => Detections(other) + m <= spontaneous
  BY DEF Backed, HeldBacked
<1>3. Held(events) /\ Detections(events) \in Nat /\ Detections(events') \in Nat
  BY <1>1, SpotsFinite DEF Held
<1>4. CASE Held(items)
  BY <1>1, <1>2, <1>4
<1>5. CASE items = events'
  <2>1. CASE RecordDetected("probe")
    BY <1>1, <1>3, <1>5, <2>1, DetectedStep DEF Backed, Owing
  <2>2. CASE ~RecordDetected("probe")
    <3>1. Detections(events') <= Detections(events) \/ Held(events') \/ Detections(events') = 0
      BY <2>2, EventsStep
    <3>2. Detections(events) + m <= spontaneous
      BY <1>1, <1>2, <1>3
    <3> QED
      BY <1>1, <1>2, <1>3, <1>5, <3>1, <3>2
  <2> QED
    BY <2>1, <2>2
<1> QED
  BY <1>4, <1>5, HeldStep

LEMMA OwingStep ==
    ASSUME TypeOK, TypeOK', InPlace, OnlyTheProbe, [Next]_vars, ~NoteBootId("probe"),
           NEW m \in Nat, Backed(m)
    PROVE  Owing(m)'
<1> SUFFICES ASSUME thread'["probe"].at = "detected"
             PROVE  Detections(events') + 1 + m <= spontaneous'
  BY DEF Owing, At
<1> ThreadTypes /\ "probe" \in Threads
  BY TypeParts DEF Threads
<1>1. /\ spontaneous \in Nat /\ spontaneous' \in Nat /\ spontaneous' >= spontaneous
      /\ Detections(events) \in Nat /\ Detections(events') \in Nat
  BY SpotsFinite, CountTyped, SpontaneousGrows DEF TypeOK
<1>2. ~RecordDetected("probe")
  BY DetectedStep DEF At
<1>3. ~Restart
  BY DEF Restart, Idle
<1>4. thread["probe"].at = "detected"
  <2>1. ASSUME NEW t \in Threads, NEW p, Goto(t, p), p.at # "detected"
        PROVE  thread["probe"].at = "detected"
    BY <2>1, GotoOne
  <2>2. CASE Apart
    BY <2>2 DEF Apart, PlainMove, Noting
  <2>3. ASSUME NEW t \in Threads, ForgetBootId(t) PROVE thread["probe"].at = "detected"
    BY <2>1, <2>3, PlainPlaced DEF ForgetBootId, Noting
  <2>4. CASE ProbeReads
    BY <2>1, <2>4 DEF ProbeReads
  <2>5. CASE ProbeChecks
    <3>1. \E p : Goto("probe", p) /\ p.at # "detected"
      <4>1. \/ Goto("probe", Idle) \/ Goto("probe", [at |-> "noting", id |-> thread["probe"].id])
        BY <2>5 DEF ProbeChecks
      <4> QED
        BY <4>1, PlainPlaced DEF Noting
    <3> QED
      BY <2>1, <3>1
  <2>6. CASE RequestReboot \/ RecoveryCompletes \/ Forget
    <3>1. \E t \in {"hook", "worker"} : \E p : Goto(t, p)
      BY <2>6 DEF RequestReboot, RecoveryCompletes, Forget
    <3> QED
      BY <3>1, GotoOne DEF Threads
  <2>7. CASE CommandLands \/ RecoveryAbandoned \/ SpontaneousReboot
    BY <2>7 DEF CommandLands, RecoveryAbandoned, SpontaneousReboot
  <2> QED
    BY <1>2, <1>3, <2>2, <2>3, <2>4, <2>5, <2>6, <2>7, CountCases
<1>5. Detections(events) + 1 + m <= spontaneous
  BY <1>4 DEF Backed, Owing, At
<1>6. Detections(events') <= Detections(events) \/ Detections(events') = 0
  BY <1>2, <1>3, EventsStep
<1> QED
  BY <1>1, <1>5, <1>6

LEMMA BackedStep ==
    ASSUME TypeOK, TypeOK', InPlace, OnlyTheProbe, [Next]_vars, ~NoteBootId("probe"),
           NEW m \in Nat, Backed(m)
    PROVE  Backed(m)'
BY HeldBackedStep, OwingStep DEF Backed

-----------------------------------------------------------------------------
(* The account holds.                                                      *)

\* Where the ids that may be compared with do not get more.
LEMMA ChargedKept ==
    ASSUME TypeOK, TypeOK', InPlace, OnlyTheProbe, [Next]_vars, ~NoteBootId("probe"), Charged,
           board' = board, \A id \in Nat : Seen(id)' => Seen(id)
    PROVE  Charged'
<1> SUFFICES ASSUME NEW id \in Nat, NEW m \in Nat, Seen(id)', board' = id + m PROVE Backed(m)'
  BY DEF Charged
<1> QED
  BY BackedStep DEF Charged

LEMMA Zero == 0 \in Nat
OBVIOUS

LEMMA ApartCounts ==
    ASSUME TypeOK, TypeOK', InPlace, OnlyTheProbe, [Next]_vars, Accounted, Apart,
           ~NoteBootId("probe")
    PROVE  Accounted'
<1>1. /\ \/ thread'["probe"] = thread["probe"]
         \/ thread["probe"].at \notin Noting /\ thread'["probe"].at \notin Noting
      /\ At("hook", "forgetting") => At("hook", "forgetting")'
      /\ UNCHANGED <<bootId, board, recovery, crossed, spontaneous>>
  BY DEF Apart, PlainMove, At, Threads
<1>2. RebootForgets' /\ InOrder'
  BY <1>1 DEF Accounted, RebootForgets, InOrder, NotingUnderway, At, Noting
<1>3. \A id \in Nat : Seen(id)' => Seen(id)
  BY <1>1 DEF Seen, At, Noting
<1> QED
  BY <1>1, <1>2, <1>3, BackedStep, ChargedKept, Zero DEF Accounted

LEMMA NoteCounts ==
    ASSUME TypeOK, TypeOK', InPlace, OnlyTheProbe, [Next]_vars, Accounted,
           NoteBootId("probe"), ~crossed'
    PROVE  Accounted'
<1> DEFINE id == thread["probe"].id
<1> ThreadTypes /\ "probe" \in Threads /\ "hook" \in Threads
  BY TypeParts DEF Threads
<1>1. /\ thread["probe"].at = "noting" /\ bootId' = id
      /\ ~At("hook", "forgetting")
      /\ UNCHANGED <<events, board, recovery, deleted, spontaneous>>
  BY DEF NoteBootId, At, world
<1>2. id \in Nat /\ board \in Nat /\ spontaneous \in Nat /\ id # None
      /\ bootId \in Nat \cup {None}
      /\ Detections(events) \in Nat
  <2>1. id \in Nat
    BY <1>1, PlaceFields DEF ThreadTypes
  <2> QED
    BY <2>1, CountTyped, SpotsFinite, NoneAssumption DEF TypeOK, Ids
<1>3. id <= board /\ (bootId # None => bootId <= id)
  BY <1>1 DEF Accounted, InOrder
<1>4. Seen(id)
  BY <1>1 DEF Seen, At
<1>5. \E p : /\ Goto("probe", p) /\ p.at \notin {"read", "noting"}
             /\ p.at = "detected" => p.id = id /\ bootId # id /\ bootId # None
  <2>1. CASE bootId = id
    <3>1. Goto("probe", Idle)
      BY <1>2, <2>1 DEF NoteBootId
    <3> QED
      BY <3>1, PlainPlaced DEF Noting
  <2>2. CASE bootId # id /\ bootId = None
    <3>1. Goto("probe", Flushing(Idle))
      BY <2>2 DEF NoteBootId
    <3> QED
      BY <3>1, PlainPlaced DEF Noting
  <2>3. CASE bootId # id /\ bootId # None
    <3>1. Goto("probe", [at |-> "detected", id |-> id])
      BY <2>3 DEF NoteBootId
    <3> QED
      BY <2>3, <3>1
  <2> QED
    BY <2>1, <2>2, <2>3
<1>6. /\ thread'["probe"].at \notin {"read", "noting"}
      /\ thread'["probe"].at = "detected" => thread'["probe"].id = id /\ bootId # id /\ bootId # None
      /\ thread'["hook"] = thread["hook"]
  <2>1. PICK p : /\ Goto("probe", p) /\ p.at \notin {"read", "noting"}
                 /\ p.at = "detected" => p.id = id /\ bootId # id /\ bootId # None
    BY <1>5
  <2>2. thread'["probe"] = p /\ \A u \in Threads \ {"probe"} : thread'[u] = thread[u]
    BY <2>1, GotoOne
  <2>3. thread'["hook"] = thread["hook"]
    BY <2>2
  <2> QED
    BY <2>1, <2>2, <2>3
<1>7. RebootForgets'
  BY <1>1, <1>6 DEF Accounted, RebootForgets, NotingUnderway, At
<1>8. InOrder'
  BY <1>1, <1>3, <1>6 DEF InOrder, At
<1>9. ASSUME NEW m \in Nat, board = id + m, thread'["probe"].at = "detected"
      PROVE  Detections(events') + 1 + m <= spontaneous'
  <2>1. bootId \in Nat /\ bootId + 1 <= id
    BY <1>2, <1>3, <1>6, <1>9
  <2>2. PICK k \in Nat : board = bootId + k
    <3>1. board - bootId \in Nat /\ board = bootId + (board - bootId)
      BY <1>2, <1>9, <2>1
    <3> QED
      BY <3>1
  <2>3. k >= m + 1
    BY <1>2, <1>9, <2>1, <2>2
  <2>4. Seen(bootId)
    BY <1>1 DEF Seen
  <2>5. Backed(k)
    BY <2>1, <2>2, <2>4 DEF Accounted, Charged
  <2>6. Detections(events) + k <= spontaneous
    <3>1. events \in Seq(Kinds) /\ Held(events)
      BY CountTyped DEF Held
    <3> QED
      BY <2>5, <3>1 DEF Backed, HeldBacked
  <2> QED
    BY <1>1, <1>2, <2>2, <2>3, <2>6
<1>10. ASSUME NEW m \in Nat, board = id + m PROVE Backed(m)'
  <2>1. Backed(m)
    BY <1>2, <1>4, <1>10 DEF Accounted, Charged
  <2>2. HeldBacked(m)'
    BY <2>1, HeldBackedStep
  <2> QED
    BY <1>9, <1>10, <2>2 DEF Backed, Owing, At
<1>11. Backed(0)'
  <2>1. Backed(0)
    BY DEF Accounted
  <2>2. HeldBacked(0)'
    BY <2>1, HeldBackedStep, Zero
  <2>3. thread'["probe"].at = "detected" => Detections(events') + 1 + 0 <= spontaneous'
    <3>1. PICK m \in Nat : board = id + m
      <4>1. board - id \in Nat /\ board = id + (board - id)
        BY <1>2, <1>3
      <4> QED
        BY <4>1
    <3>2. spontaneous' = spontaneous /\ events' = events
      BY <1>1
    <3> QED
      BY <1>2, <1>9, <3>1, <3>2
  <2> QED
    BY <2>2, <2>3 DEF Backed, Owing, At
<1>12. Charged'
  <2> SUFFICES ASSUME NEW x \in Nat, NEW m \in Nat, Seen(x)', board' = x + m PROVE Backed(m)'
    BY DEF Charged
  <2>1. x = id
    BY <1>1, <1>6 DEF Seen, At
  <2> QED
    BY <1>1, <1>10, <2>1
<1> QED
  BY <1>7, <1>8, <1>11, <1>12 DEF Accounted

LEMMA DetectedCounts ==
    ASSUME TypeOK, TypeOK', InPlace, OnlyTheProbe, [Next]_vars, Accounted,
           RecordDetected("probe"), ~NoteBootId("probe")
    PROVE  Accounted'
<1>1. /\ thread["probe"].at = "detected" /\ thread'["probe"].at \notin Noting
      /\ thread'["hook"] = thread["hook"]
      /\ UNCHANGED <<board, recovery, crossed, spontaneous>> /\ bootId' = thread["probe"].id
  BY DetectedStep DEF At, Threads
<1>2. bootId' = bootId
  BY <1>1 DEF Accounted, InOrder, At
<1>3. RebootForgets' /\ InOrder'
  BY <1>1, <1>2 DEF Accounted, RebootForgets, InOrder, NotingUnderway, At, Noting
<1>4. \A id \in Nat : Seen(id)' => Seen(id)
  BY <1>1, <1>2 DEF Seen, At, Noting
<1> QED
  BY <1>1, <1>3, <1>4, BackedStep, ChargedKept, Zero DEF Accounted

LEMMA ForgetCounts ==
    ASSUME TypeOK, TypeOK', InPlace, OnlyTheProbe, [Next]_vars, Accounted, ~crossed',
           ~NoteBootId("probe"), NEW t \in Threads, ForgetBootId(t)
    PROVE  Accounted'
<1> ThreadTypes /\ "probe" \in Threads /\ "hook" \in Threads
  BY TypeParts DEF Threads
<1>1. /\ bootId' = None /\ ~NotingUnderway /\ thread[t].at = "forgetting"
      /\ UNCHANGED <<board, recovery, spontaneous>>
  BY DEF ForgetBootId, world, At
<1>2. \E p : Goto(t, p) /\ p.at \notin Noting
  BY PlainPlaced DEF ForgetBootId
<1>3. thread'["probe"] = thread["probe"] \/ thread'["probe"].at \notin Noting
  BY <1>2, GotoOne
<1>4. RebootForgets'
  BY <1>1, <1>3 DEF RebootForgets, NotingUnderway, At, Noting
<1>5. InOrder'
  BY <1>1, <1>3 DEF Accounted, InOrder, NotingUnderway, At, Noting
<1>6. \A id \in Nat : Seen(id)' => Seen(id)
  BY <1>1, <1>3, NoneAssumption DEF Seen, NotingUnderway, At, Noting
<1> QED
  BY <1>1, <1>4, <1>5, <1>6, BackedStep, ChargedKept, Zero DEF Accounted

LEMMA RestartCounts ==
    ASSUME TypeOK, TypeOK', InPlace, OnlyTheProbe, [Next]_vars, Accounted, Restart, ~crossed',
           ~NoteBootId("probe")
    PROVE  Accounted'
<1>1. /\ bootId' = bootId /\ recovery' = "none" /\ board' = board
      /\ \A t \in Threads : thread'[t].at = "idle" /\ thread[t].at # "forgetting"
      /\ "probe" \in Threads /\ "hook" \in Threads
  BY DEF Restart, Idle, At, Threads
<1>2. RebootForgets' /\ InOrder'
  BY <1>1 DEF Accounted, RebootForgets, InOrder, At
<1>3. \A id \in Nat : Seen(id)' => Seen(id)
  BY <1>1 DEF Seen, At
<1> QED
  BY <1>1, <1>2, <1>3, BackedStep, ChargedKept, Zero DEF Accounted

LEMMA ReadCounts ==
    ASSUME TypeOK, TypeOK', InPlace, OnlyTheProbe, [Next]_vars, Accounted, ProbeReads,
           ~NoteBootId("probe")
    PROVE  Accounted'
<1> ThreadTypes /\ "probe" \in Threads /\ "hook" \in Threads
  BY TypeParts DEF Threads
<1>1. /\ thread["probe"].at = "idle" /\ recovery = "none"
      /\ UNCHANGED <<bootId, board, recovery, spontaneous>>
      /\ Goto("probe", [at |-> "read", id |-> board])
  BY DEF ProbeReads, At, store, world, past
<1>2. /\ thread'["probe"] = [at |-> "read", id |-> board] /\ thread'["hook"] = thread["hook"]
  BY <1>1, GotoOne
<1>3. board \in Nat
  BY CountTyped
<1>4. RebootForgets'
  BY <1>1 DEF RebootForgets
<1>5. InOrder'
  BY <1>1, <1>2, <1>3 DEF Accounted, InOrder, At
<1>6. Backed(0)'
  BY BackedStep, Zero DEF Accounted
<1>7. Charged'
  <2> SUFFICES ASSUME NEW id \in Nat, NEW m \in Nat, Seen(id)', board' = id + m PROVE Backed(m)'
    BY DEF Charged
  <2>1. CASE id = board
    <3>1. m = 0
      BY <1>1, <1>3, <2>1
    <3> QED
      BY <1>6, <3>1
  <2>2. CASE id # board
    <3>1. Seen(id)
      BY <1>1, <1>2, <2>2 DEF Seen, At
    <3> QED
      BY <1>1, <3>1, BackedStep DEF Accounted, Charged
  <2> QED
    BY <2>1, <2>2
<1> QED
  BY <1>4, <1>5, <1>6, <1>7 DEF Accounted

LEMMA CheckCounts ==
    ASSUME TypeOK, TypeOK', InPlace, OnlyTheProbe, [Next]_vars, Accounted, ProbeChecks,
           ~NoteBootId("probe")
    PROVE  Accounted'
<1> ThreadTypes /\ "probe" \in Threads /\ "hook" \in Threads
  BY TypeParts DEF Threads
<1> DEFINE p == [at |-> "noting", id |-> thread["probe"].id]
<1>1. /\ thread["probe"].at = "read" /\ UNCHANGED <<bootId, board, recovery, spontaneous>>
      /\ \/ Goto("probe", Idle)
         \/ recovery = "none" /\ Goto("probe", p)
  BY DEF ProbeChecks, Dropped, At, store, world, past
<1>2. \/ thread'["probe"].at \notin Noting
      \/ recovery = "none" /\ thread'["probe"] = p
  BY <1>1, GotoOne, PlainPlaced
<1>3. thread'["hook"] = thread["hook"]
  BY <1>1, GotoOne
<1>4. RebootForgets'
  BY <1>1, <1>2, <1>3 DEF Accounted, RebootForgets, NotingUnderway, At, Noting
<1>5. InOrder'
  BY <1>1, <1>2 DEF Accounted, InOrder, At, Noting
<1>6. \A id \in Nat : Seen(id)' => Seen(id)
  BY <1>1, <1>2, <1>3 DEF Seen, At, Noting
<1> QED
  BY <1>1, <1>4, <1>5, <1>6, BackedStep, ChargedKept, Zero DEF Accounted

LEMMA RequestCounts ==
    ASSUME TypeOK, TypeOK', InPlace, OnlyTheProbe, [Next]_vars, Accounted, RequestReboot,
           ~NoteBootId("probe")
    PROVE  Accounted'
<1> ThreadTypes /\ "probe" \in Threads /\ "hook" \in Threads
  BY TypeParts DEF Threads
<1>1. /\ UNCHANGED <<bootId, board, spontaneous>> /\ recovery' = "active"
      /\ Goto("hook", [at |-> "forgetting"])
  BY DEF RequestReboot, store, past
<1>2. thread'["hook"].at = "forgetting" /\ thread'["probe"] = thread["probe"]
  BY <1>1, GotoOne
<1>3. RebootForgets' /\ InOrder'
  BY <1>1, <1>2 DEF Accounted, RebootForgets, InOrder, At
<1>4. \A id \in Nat : ~Seen(id)'
  BY <1>1, <1>2 DEF Seen, At
<1> QED
  BY <1>1, <1>3, <1>4, BackedStep, ChargedKept, Zero DEF Accounted

LEMMA LandedCounts ==
    ASSUME TypeOK, TypeOK', InPlace, OnlyTheProbe, [Next]_vars, Accounted, CommandLands,
           ~NoteBootId("probe")
    PROVE  Accounted'
<1>1. /\ recovery = "active" /\ recovery' = "landed" /\ board' = board + 1
      /\ UNCHANGED <<bootId, thread, spontaneous>> /\ board \in Nat
  BY CountTyped DEF CommandLands, store, past
<1>2. RebootForgets'
  BY <1>1 DEF Accounted, RebootForgets, NotingUnderway, At
<1>3. InOrder'
  <2>1. thread["probe"].at \in {"read", "noting"} => thread["probe"].id \in Nat
    BY PlaceFields, TypeParts DEF ThreadTypes, Threads
  <2>2. bootId \in Nat \cup {None}
    BY DEF TypeOK, Ids
  <2> QED
    BY <1>1, <2>1, <2>2 DEF Accounted, InOrder, At
<1>4. \A id \in Nat : ~Seen(id)'
  BY <1>1, NoneAssumption DEF Accounted, RebootForgets, NotingUnderway, Seen, At
<1> QED
  BY <1>2, <1>3, <1>4, BackedStep, Zero DEF Accounted, Charged

LEMMA RecoveredCounts ==
    ASSUME TypeOK, TypeOK', InPlace, OnlyTheProbe, [Next]_vars, Accounted,
           RecoveryAbandoned \/ RecoveryCompletes, ~crossed', ~NoteBootId("probe")
    PROVE  Accounted'
<1> ThreadTypes /\ {"probe", "hook", "worker"} \subseteq Threads
  BY TypeParts DEF Threads
<1>1. /\ recovery' = "none" /\ thread["probe"].at # "read"
      /\ UNCHANGED <<bootId, board, spontaneous>>
      /\ thread' = thread \/ Goto("worker", [at |-> "completed"])
  BY DEF RecoveryAbandoned, RecoveryCompletes, store, At
<1>2. thread'["probe"] = thread["probe"] /\ thread'["hook"] = thread["hook"]
  BY <1>1, GotoOne
<1>3. RebootForgets' /\ InOrder'
  BY <1>1, <1>2 DEF Accounted, RebootForgets, InOrder, At
<1>4. \A id \in Nat : Seen(id)' => Seen(id)
  BY <1>1, <1>2 DEF Seen, At
<1> QED
  BY <1>1, <1>3, <1>4, BackedStep, ChargedKept, Zero DEF Accounted

LEMMA SpontaneousCounts ==
    ASSUME TypeOK, TypeOK', InPlace, OnlyTheProbe, [Next]_vars, Accounted, SpontaneousReboot,
           ~NoteBootId("probe")
    PROVE  Accounted'
<1>1. /\ board' = board + 1 /\ spontaneous' = spontaneous + 1 /\ board \in Nat
      /\ spontaneous \in Nat
      /\ UNCHANGED <<events, bootId, disk, writer, thread, recovery>>
  BY CountTyped DEF SpontaneousReboot, store
<1>2. RebootForgets'
  BY <1>1 DEF Accounted, RebootForgets, NotingUnderway, At
<1>3. InOrder'
  <2>1. thread["probe"].at \in {"read", "noting"} => thread["probe"].id \in Nat
    BY PlaceFields, TypeParts DEF ThreadTypes, Threads
  <2>2. bootId \in Nat \cup {None}
    BY DEF TypeOK, Ids
  <2> QED
    BY <1>1, <2>1, <2>2 DEF Accounted, InOrder, At
<1>4. ASSUME NEW m \in Nat, Backed(m) PROVE Backed(m + 1)'
  <2>1. \A items : Held(items)' => Held(items)
    BY <1>1 DEF Held
  <2>2. \A items \in Seq(Kinds) : Detections(items) \in Nat
    BY SpotsFinite
  <2>3. events \in Seq(Kinds)
    BY CountTyped
  <2>4. HeldBacked(m + 1)'
    BY <1>1, <1>4, <2>1, <2>2 DEF Backed, HeldBacked
  <2>5. Owing(m + 1)'
    BY <1>1, <1>4, <2>2, <2>3 DEF Backed, Owing, At
  <2> QED
    BY <2>4, <2>5 DEF Backed
<1>5. Charged'
  <2> SUFFICES ASSUME NEW id \in Nat, NEW m \in Nat, Seen(id)', board' = id + m PROVE Backed(m)'
    BY DEF Charged
  <2>1. Seen(id) /\ id <= board
    <3>1. Seen(id)
      BY <1>1 DEF Seen, At
    <3>2. Seen(id) => id <= board
      BY NoneAssumption DEF Seen, Accounted, InOrder, At
    <3> QED
      BY <3>1, <3>2
  <2>2. m - 1 \in Nat /\ board = id + (m - 1) /\ (m - 1) + 1 = m
    BY <1>1, <2>1
  <2>3. Backed(m - 1)
    BY <2>1, <2>2 DEF Accounted, Charged
  <2> QED
    BY <1>4, <2>2, <2>3
<1> QED
  BY <1>2, <1>3, <1>5, BackedStep, Zero DEF Accounted

LEMMA DeletedCounts ==
    ASSUME TypeOK, TypeOK', InPlace, OnlyTheProbe, [Next]_vars, Accounted, Forget, ~crossed',
           ~NoteBootId("probe")
    PROVE  Accounted'
<1> ThreadTypes /\ "probe" \in Threads /\ "hook" \in Threads
  BY TypeParts DEF Threads
<1>1. /\ recovery' = "none" /\ bootId' = None /\ board' = board
      /\ thread["probe"].at \notin {"read", "noting", "detected"}
      /\ Goto("hook", Flushing(Idle))
  BY DEF Forget, NotingUnderway, At
<1>2. thread'["probe"] = thread["probe"]
  BY <1>1, GotoOne
<1>3. RebootForgets' /\ InOrder'
  BY <1>1, <1>2 DEF RebootForgets, InOrder, At
<1>4. \A id \in Nat : ~Seen(id)'
  BY <1>1, <1>2, NoneAssumption DEF Seen, At
<1> QED
  BY <1>1, <1>3, <1>4, BackedStep, ChargedKept, Zero DEF Accounted

LEMMA CrossedStays == [Next]_vars /\ crossed => crossed'
BY DEF Next, vars, past, NoteBootId, RecordDetected, ForgetBootId, Snapshot, Submit,
       WriteByRename, WriteInPlace, WriteFails, WriteFills, FillFails, Close, CloseWriter, Closed,
       Restart, ProbeReads, ProbeChecks, HookRecords, RequestReboot, CommandLands,
       RecoveryAbandoned, RecoveryCompletes, RecordRequested, SpontaneousReboot, Forget

LEMMA CountStep == CountInv /\ [Next]_vars => CountInv'
<1> SUFFICES ASSUME CountInv, [Next]_vars PROVE CountInv'
  OBVIOUS
<1>1. WrittenInv /\ WrittenInv'
  BY WrittenStep DEF CountInv
<1>2. TypeOK /\ TypeOK' /\ InPlace /\ OnlyTheProbe
  BY <1>1 DEF CountInv, WrittenInv
<1>3. OnlyTheProbe'
  BY <1>2, OnlyTheProbeStep
<1>4. ASSUME ~crossed' PROVE Accounted'
  <2>1. Accounted
    BY <1>4, CrossedStays DEF CountInv
  <2>2. CASE NoteBootId("probe")
    BY <1>2, <1>4, <2>1, <2>2, NoteCounts
  <2>3. CASE ~NoteBootId("probe")
    BY <1>2, <1>4, <2>1, <2>3, CountCases, ApartCounts, DetectedCounts, ForgetCounts,
       RestartCounts, ReadCounts, CheckCounts, RequestCounts, LandedCounts, RecoveredCounts,
       SpontaneousCounts, DeletedCounts
  <2> QED
    BY <2>2, <2>3
<1> QED
  BY <1>1, <1>3, <1>4 DEF CountInv

LEMMA CountStart == Init => CountInv
<1> SUFFICES ASSUME Init PROVE CountInv
  OBVIOUS
<1>1. WrittenInv
  BY WrittenInit
<1>2. /\ \A t \in Threads : thread[t].at = "idle"
      /\ "probe" \in Threads /\ "hook" \in Threads
      /\ recovery = "none" /\ bootId = None /\ spontaneous = 0
      /\ events = <<>> /\ disk.events = <<>> /\ writer.queue = <<>> /\ writer.write = NoWrite
  BY DEF Init, Idle, Threads
<1>3. OnlyTheProbe /\ RebootForgets /\ InOrder
  BY <1>2 DEF OnlyTheProbe, Noting, RebootForgets, InOrder, At
<1>4. \A items : Held(items) => items = <<>>
  <2>1. 1..Len(writer.queue) = {}
    BY <1>2, EmptySeq
  <2> QED
    BY <1>2, <2>1 DEF Held
<1>5. Backed(0)
  BY <1>2, <1>4, NoDetections DEF Backed, HeldBacked, Owing, At
<1>6. \A id \in Nat : ~Seen(id)
  BY <1>2, NoneAssumption DEF Seen, At
<1> QED
  BY <1>1, <1>3, <1>5, <1>6 DEF CountInv, Accounted, Charged

\* No reboot is counted that the board did not make by itself, and none twice,
\* for any length of the history and any number of calls, reboots, crashes and
\* failed or torn writes -- unless a forgetting and a noting crossed, or the
\* forgetting was lost.
THEOREM RebootsNotOvercountedHolds == Spec => []RebootsNotOvercounted
<1>1. CountInv => RebootsNotOvercounted
  <2> SUFFICES ASSUME CountInv, ~crossed PROVE Detections(events) <= spontaneous
    BY DEF RebootsNotOvercounted
  <2>1. TypeOK /\ Backed(0)
    BY DEF CountInv, WrittenInv, Accounted
  <2>2. events \in Seq(Kinds) /\ Detections(events) \in Nat /\ spontaneous \in Nat
    BY <2>1, CountTyped, SpotsFinite
  <2> QED
    BY <2>1, <2>2 DEF Backed, HeldBacked, Held
<1> QED
  BY <1>1, CountStart, CountStep, PTL DEF Spec
=============================================================================
