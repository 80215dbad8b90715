--------------------------- MODULE LockScanProofs ---------------------------
(***************************************************************************)
(* Proofs about auto-lock from scan: who moves the center, which geometry  *)
(* the board has at each stage of a move, how fresh the traces are that    *)
(* the stages are judged on, and that every move comes to its end; for any *)
(* number of movers, centers, widths and stages, whatever the operators do *)
(* meanwhile.                                                              *)
(***************************************************************************)
EXTENDS LockScan, TLAPS

\* A mover inside auto_lock_from_scan has the center, and its locals; one that
\* waits has not counted all the frames it wants, one that looks has.
OwnsCenter ==
    \A m \in Movers : pc[m] # "idle" =>
        /\ busy = m /\ run[m] \in Locals
        /\ pc[m] = "wait" => run[m].seen < FramesWanted
        /\ pc[m] = "look" => run[m].seen = FramesWanted

\* Nobody keeps the center who is not moving it.
OwnerMoves == busy # None => pc[busy] # "idle"

Owned == TypeOK /\ OwnsCenter /\ OwnerMoves

\* While a mover is on its way the connection is the one it began on.
MoveIsConnected == busy # None /\ ~lost => connected

\* A scan left for later is of a board that was locked since, and is not moved.
DeferredIsLocked ==
    ~crossed => /\ deferred # None => locked /\ busy = None
                /\ \A m \in Movers : pc[m] = "defer" => locked

\* The width the operator chose is the board's, or left for later, or in the
\* locals of the mover.
WidthKept ==
    ~lost /\ ~crossed =>
        /\ busy = None => PendingScan.width = opWidth
        /\ \A m \in Movers : pc[m] # "idle" => run[m].start.width = opWidth

MeddlersCross == busy # None /\ ~crossed => ~meddled

WalkIsMarked ==
    \A m \in Movers : /\ pc[m] = "detect" => run[m].refined = "no"
                      /\ pc[m] = "abort" => run[m].refined = "failed"

\* Before the walk the board is where the operator left it.
StartsFromScan ==
    ~lost /\ ~meddled => \A m \in Movers : pc[m] = "detect" => geo = run[m].start

ScanInv ==
    /\ Owned /\ MoveIsConnected /\ DeferredIsLocked /\ WidthKept /\ MeddlersCross
    /\ WalkIsMarked /\ StartsFromScan /\ LocksDetectedScan

\* How far the traces of the geometry have come: the frame after the next one
\* that the poll thread takes was swept over the geometry (Clear); the next one
\* was; the trace in hand was.
Flowing == sweeping = geo /\ (unread => ready = geo)
Fresh   == Flowing /\ trace = geo

\* The frames a wait has seen, those it has not counted yet included.
OneFrame(r)  == r.newer \/ r.seen >= 1
TwoFrames(r) == r.seen >= 2 \/ (r.newer /\ r.seen >= 1)

WaitIsFresh(r) == Clear /\ (OneFrame(r) => Flowing) /\ (TwoFrames(r) => Fresh)

FreshAt(place, r) ==
    ~doubt => /\ place = "wait" => WaitIsFresh(r)
              /\ place = "look" => Fresh

FreshInv == \A m \in Movers : FreshAt(pc[m], run[m])

-----------------------------------------------------------------------------
(* The steps of a mover.                                                   *)

\* Mover m goes on at p with the locals r, or leaves.
Moved(m, p, r) ==
    /\ pc' = [pc EXCEPT ![m] = p] /\ run' = [run EXCEPT ![m] = r]
    /\ p \in Places /\ (p = "wait" => r.seen < FramesWanted)
    /\ p = "look" => r.seen = FramesWanted
    /\ IF p = "idle" THEN r = None /\ busy' = None ELSE r \in Locals /\ busy' = m

\* What a walk does not change of its locals, and a stage does not.
Kept(m, r) ==
    r.start = run[m].start /\ r.direct = run[m].direct /\ r.refined = run[m].refined
Stays(m, r) == Kept(m, r) /\ r.stages = run[m].stages

LEMMA InMove ==
    ASSUME Owned, NEW m \in Movers, pc[m] # "idle"
    PROVE  busy = m /\ run[m] \in Locals
BY DEF Owned, OwnsCenter

LEMMA MovedKeepsOwner ==
    ASSUME Owned, NEW m \in Movers, NEW p, NEW r, Moved(m, p, r),
           busy = None \/ busy = m
    PROVE  /\ pc' \in [Movers -> Places] /\ run' \in [Movers -> Locals \cup {None}]
           /\ busy' \in Movers \cup {None} /\ OwnsCenter' /\ OwnerMoves'
           /\ pc'[m] = p /\ run'[m] = r
           /\ \A u \in Movers \ {m} : pc'[u] = "idle" /\ pc[u] = "idle"
<1>1. /\ pc' \in [Movers -> Places] /\ run' \in [Movers -> Locals \cup {None}]
      /\ pc'[m] = p /\ run'[m] = r
      /\ \A u \in Movers \ {m} : pc'[u] = pc[u] /\ run'[u] = run[u]
  BY DEF Owned, TypeOK, Moved
<1>2. \A u \in Movers \ {m} : pc[u] = "idle"
  BY MarksAssumption DEF Owned, OwnsCenter
<1>3. busy' \in Movers \cup {None}
  BY DEF Moved
<1>4. OwnsCenter'
  BY <1>1, <1>2 DEF OwnsCenter, Moved
<1>5. OwnerMoves'
  BY <1>1, MarksAssumption DEF OwnerMoves, Moved
<1> QED
  BY <1>1, <1>2, <1>3, <1>4, <1>5

LEMMA WriteTyped ==
    ASSUME TypeOK, NEW g \in Geometries, Write(g)
    PROVE  geo' \in Geometries /\ sweeping' \in Geometries \cup {None, Mixed}
BY DEF Write, TypeOK

LEMMA BeginMoves ==
    ASSUME Owned, NEW m \in Movers, Begin(m)
    PROVE  \E r \in Locals : /\ Moved(m, "detect", r)
                             /\ r.start = geo /\ r.refined = "no"
<1> DEFINE r == [start |-> geo, direct |-> FALSE, strict |-> FALSE, stages |-> 0,
                 aim |-> "strict", below |-> MaxWidth + 1, seen |-> 0, newer |-> FALSE,
                 at |-> geo, refined |-> "no", lostIt |-> FALSE]
<1>1. geo \in Geometries
  BY DEF Owned, TypeOK
<1>2. MaxWidth + 1 \in 1..(MaxWidth + 1) /\ 0 \in 0..MaxStages /\ 0 \in 0..FramesWanted
  BY GeometryAssumption
<1>3. r \in Locals
  BY <1>1, <1>2 DEF Locals, Aims
<1>4. Moved(m, "detect", r)
  BY <1>3 DEF Begin, Goto, Moved, Places
<1>5. r.start = geo /\ r.refined = "no"
  OBVIOUS
<1> HIDE DEF r
<1> QED
  BY <1>3, <1>4, <1>5

LEMMA LeaveMoves == ASSUME NEW m \in Movers, Leave(m) PROVE Moved(m, "idle", None)
BY DEF Leave, Moved, Places

LEMMA DetectMoves ==
    ASSUME Owned, NEW m \in Movers, Detect(m)
    PROVE  \/ Moved(m, "idle", None)
           \/ \E r \in Locals :
                /\ Moved(m, "move", r) \/ Moved(m, "plan", r)
                /\ r.start = run[m].start /\ r.refined = run[m].refined
                /\ r.stages = run[m].stages
<1>1. CASE Leave(m)
  BY <1>1, LeaveMoves
<1>2. CASE ~Leave(m)
  <2>1. PICK strict \in BOOLEAN :
          /\ run' = [run EXCEPT ![m].direct = strict, ![m].strict = strict, ![m].at = geo]
          /\ Goto(m, IF strict /\ ~TooWide(geo) THEN "move" ELSE "plan")
          /\ UNCHANGED busy
    BY <1>2 DEF Detect
  <2> DEFINE r == [run[m] EXCEPT !.direct = strict, !.strict = strict,
                                 !.at = geo]
  <2>2. run[m] \in Locals /\ busy = m
    BY InMove DEF Detect, Running
  <2>3. geo \in Geometries
    BY DEF Owned, TypeOK
  <2>4. r \in Locals
    BY <2>2, <2>3 DEF Locals
  <2>5. r.start = run[m].start /\ r.refined = run[m].refined /\ r.stages = run[m].stages
    BY <2>2 DEF Locals
  <2>6. run' = [run EXCEPT ![m] = r]
    BY <2>1
  <2> HIDE DEF r
  <2>7. Moved(m, "move", r) \/ Moved(m, "plan", r)
    BY <2>1, <2>2, <2>4, <2>6 DEF Goto, Moved, Places
  <2> QED
    BY <2>4, <2>5, <2>7
<1> QED
  BY <1>1, <1>2

LEMMA AwaitMoves ==
    ASSUME NEW m \in Movers, NEW aim \in Aims, run[m] \in Locals, busy = m,
           Await(m, aim), UNCHANGED busy
    PROVE  /\ doubt' = ~Clear
           /\ \E r \in Locals : /\ Moved(m, "wait", r) /\ Stays(m, r)
                               /\ r.aim = aim /\ r.seen = 0 /\ r.newer = FALSE
<1> DEFINE r == [run[m] EXCEPT !.aim = aim, !.seen = 0, !.newer = FALSE]
<1>1. 0 \in 0..FramesWanted
  BY GeometryAssumption
<1>2. r \in Locals /\ r.aim = aim /\ r.seen = 0 /\ r.newer = FALSE
  BY <1>1 DEF Locals
<1>3. Stays(m, r)
  BY DEF Locals, Kept, Stays
<1>4. run' = [run EXCEPT ![m] = r] /\ doubt' = ~Clear
  BY DEF Await
<1> HIDE DEF r
<1>5. 0 < FramesWanted
  BY GeometryAssumption
<1>6. Moved(m, "wait", r)
  BY <1>2, <1>4, <1>5 DEF Await, Goto, Moved, Places
<1> QED
  BY <1>2, <1>3, <1>4, <1>6

LEMMA AbortMoves ==
    ASSUME NEW m \in Movers, NEW identity \in BOOLEAN, run[m] \in Locals, busy = m,
           Abort(m, identity)
    PROVE  \E r \in Locals : /\ Moved(m, "abort", r) /\ r.start = run[m].start
                             /\ r.refined = "failed"
<1> DEFINE r == [run[m] EXCEPT !.refined = "failed", !.lostIt = identity]
<1>1. r \in Locals /\ r.start = run[m].start /\ r.refined = "failed"
  BY DEF Locals
<1>2. run' = [run EXCEPT ![m] = r]
  BY DEF Abort
<1> HIDE DEF r
<1>3. Moved(m, "abort", r)
  BY <1>1, <1>2 DEF Abort, Goto, Moved, Places
<1> QED
  BY <1>1, <1>3

LEMMA StageMoves ==
    ASSUME NEW m \in Movers, NEW g \in Geometries, run[m] \in Locals, busy = m,
           StagesLeft(m), Stage(m, g)
    PROVE  \E r \in Locals : /\ Moved(m, "settle", r) /\ Kept(m, r)
                             /\ r.stages = run[m].stages + 1
<1> DEFINE w == run[m].at.width
           below == IF g.width = w THEN MaxWidth + 1 ELSE w
           aim == IF g.width = w THEN "coarse" ELSE "strict"
           r == [run[m] EXCEPT !.below = below, !.aim = aim, !.stages = run[m].stages + 1]
<1>1. w \in 1..MaxWidth
  BY DEF Locals, Geometries, Widths
<1>2. below \in 1..(MaxWidth + 1)
  BY <1>1, GeometryAssumption
<1>3. run[m].stages + 1 \in 0..MaxStages
  <2>1. run[m].stages \in 0..MaxStages /\ run[m].stages < MaxStages
    BY DEF StagesLeft, Locals
  <2> QED
    BY <2>1, GeometryAssumption
<1>4. aim \in Aims
  BY DEF Aims
<1>5. run' = [run EXCEPT ![m] = r]
  BY DEF Stage
<1> HIDE DEF below, aim
<1>6. r \in Locals /\ r.stages = run[m].stages + 1
  BY <1>2, <1>3, <1>4 DEF Locals
<1>7. Kept(m, r)
  BY DEF Kept, Locals
<1> HIDE DEF r
<1>8. Moved(m, "settle", r)
  BY <1>5, <1>6 DEF Stage, Goto, Moved, Places
<1> QED
  BY <1>6, <1>7, <1>8

\* What a plan leads to: the final detections, the end of the walk, a stage.
PlanWaits(m) ==
    /\ NoWrite /\ doubt' = ~Clear
    /\ \E r \in Locals : /\ Moved(m, "wait", r) /\ Stays(m, r)
                         /\ r.aim = "final1" /\ r.seen = 0 /\ r.newer = FALSE
PlanAborts(m) ==
    /\ NoWrite
    /\ \E r \in Locals : /\ Moved(m, "abort", r) /\ r.start = run[m].start
                         /\ r.refined = "failed"
PlanStages(m) ==
    /\ UNCHANGED <<locked, ready, unread, trace, deferred>>
    /\ \E g \in Geometries : Write(g)
    /\ \E r \in Locals : /\ Moved(m, "settle", r) /\ Kept(m, r)
                         /\ r.stages = run[m].stages + 1

LEMMA PlanMoves ==
    ASSUME Owned, NEW m \in Movers, Plan(m)
    PROVE  Rest /\ UNCHANGED meddled /\ (PlanWaits(m) \/ PlanAborts(m) \/ PlanStages(m))
<1>1. run[m] \in Locals /\ busy = m
  BY InMove DEF Plan, Running
<1>2. \/ NoWrite /\ Await(m, "final1") /\ UNCHANGED busy
      \/ NoWrite /\ Abort(m, FALSE)
      \/ StagesLeft(m) /\ \E g \in Geometries : Stage(m, g)
  BY DEF Plan
<1>3. ASSUME NoWrite, Await(m, "final1"), UNCHANGED busy PROVE PlanWaits(m)
  <2>1. "final1" \in Aims
    BY DEF Aims
  <2>2. /\ doubt' = ~Clear
        /\ \E r \in Locals : /\ Moved(m, "wait", r) /\ Stays(m, r)
                             /\ r.aim = "final1" /\ r.seen = 0 /\ r.newer = FALSE
    BY <1>1, <1>3, <2>1, AwaitMoves
  <2> QED
    BY <1>3, <2>2 DEF PlanWaits
<1>4. ASSUME NoWrite, Abort(m, FALSE) PROVE PlanAborts(m)
  <2>1. \E r \in Locals : /\ Moved(m, "abort", r) /\ r.start = run[m].start
                          /\ r.refined = "failed"
    BY <1>1, <1>4, AbortMoves
  <2> QED
    BY <1>4, <2>1 DEF PlanAborts
<1>5. ASSUME NEW g \in Geometries, StagesLeft(m), Stage(m, g) PROVE PlanStages(m)
  <2>1. \E r \in Locals : /\ Moved(m, "settle", r) /\ Kept(m, r)
                          /\ r.stages = run[m].stages + 1
    BY <1>1, <1>5, StageMoves
  <2>2. Write(g) /\ UNCHANGED <<locked, ready, unread, trace, deferred>>
    BY <1>5 DEF Stage
  <2> QED
    BY <2>1, <2>2 DEF PlanStages
<1>6. Rest /\ UNCHANGED meddled
  BY DEF Plan
<1> QED
  BY <1>2, <1>3, <1>4, <1>5, <1>6

LEMMA SettleMoves ==
    ASSUME Owned, NEW m \in Movers, Settle(m)
    PROVE  /\ doubt' = ~Clear
           /\ \E r \in Locals : /\ Moved(m, "wait", r) /\ Stays(m, r)
                               /\ r.aim = run[m].aim /\ r.seen = 0 /\ r.newer = FALSE
<1>1. run[m] \in Locals /\ busy = m
  BY InMove DEF Settle, Running
<1>2. run[m].aim \in Aims
  BY <1>1 DEF Locals
<1> QED
  BY <1>1, <1>2, AwaitMoves DEF Settle

LEMMA CountMoves ==
    ASSUME Owned, NEW m \in Movers, CountFrame(m)
    PROVE  \E r \in Locals :
             /\ Stays(m, r) /\ r.aim = run[m].aim
             /\ run[m].newer /\ r.newer = FALSE /\ r.seen = run[m].seen + 1
             /\ \/ Moved(m, "look", r) /\ r.seen = FramesWanted
                \/ Moved(m, "wait", r)
<1> DEFINE r == [run[m] EXCEPT !.newer = FALSE, !.seen = run[m].seen + 1]
<1>1. run[m] \in Locals /\ busy = m /\ pc[m] = "wait" /\ run[m].seen < FramesWanted
  BY DEF CountFrame, Running, Owned, OwnsCenter
<1>2. run[m].seen \in 0..FramesWanted /\ FramesWanted \in Nat
  BY <1>1, GeometryAssumption DEF Locals
<1>3. run[m].seen + 1 \in 0..FramesWanted
  BY <1>1, <1>2
<1>4. r \in Locals /\ r.newer = FALSE /\ r.seen = run[m].seen + 1 /\ r.aim = run[m].aim
  BY <1>1, <1>3 DEF Locals
<1>5. Stays(m, r)
  BY <1>1 DEF Locals, Kept, Stays
<1>6. run' = [run EXCEPT ![m] = r] /\ run[m].newer /\ UNCHANGED busy
  BY DEF CountFrame
<1> HIDE DEF r
<1>7. CASE run[m].seen + 1 = FramesWanted
  <2>1. Moved(m, "look", r)
    BY <1>1, <1>4, <1>6, <1>7 DEF CountFrame, Goto, Moved, Places
  <2> QED
    BY <1>4, <1>5, <1>6, <1>7, <2>1
<1>8. CASE run[m].seen + 1 # FramesWanted
  <2>1. pc' = [pc EXCEPT ![m] = "wait"]
    BY <1>1, <1>8 DEF CountFrame, Owned, TypeOK
  <2>2. r.seen < FramesWanted
    BY <1>1, <1>2, <1>4, <1>8
  <2>3. Moved(m, "wait", r)
    BY <1>1, <1>4, <1>6, <2>1, <2>2 DEF Moved, Places
  <2> QED
    BY <1>4, <1>5, <1>6, <2>3
<1> QED
  BY <1>7, <1>8

\* What a wait in vain, and what a judgement, lead to.
FinalRetries(m) ==
    /\ run[m].aim = "final1" /\ doubt' = ~Clear
    /\ \E r \in Locals : /\ Moved(m, "wait", r) /\ Stays(m, r)
                         /\ r.aim = "retry" /\ r.seen = 0 /\ r.newer = FALSE
WalkFails(m) ==
    \E r \in Locals : Moved(m, "abort", r) /\ r.start = run[m].start /\ r.refined = "failed"
StageAccepted(m) ==
    \E r \in Locals : Moved(m, "plan", r) /\ Stays(m, r) /\ run[m].aim \in {"strict", "coarse"}
CoarseWaits(m) ==
    /\ UNCHANGED doubt
    /\ \E r \in Locals : /\ Moved(m, "wait", r) /\ Stays(m, r) /\ run[m].aim = "strict"
                         /\ r.aim = "coarse" /\ r.seen = 0 /\ r.newer = TRUE
SecondWaits(m) ==
    /\ doubt' = ~Clear
    /\ \E r \in Locals : /\ Moved(m, "wait", r) /\ Stays(m, r)
                         /\ r.aim = "final2" /\ r.seen = 0 /\ r.newer = FALSE
TargetConfirmed(m) ==
    \E r \in Locals : /\ Moved(m, "move", r) /\ r.start = run[m].start /\ r.at = geo
                      /\ run[m].aim = "final2" /\ r.refined = "yes"

LEMMA FailFinalMoves ==
    ASSUME NEW m \in Movers, run[m] \in Locals, busy = m, FailFinal(m)
    PROVE  FinalRetries(m) \/ WalkFails(m)
<1>1. CASE run[m].aim = "final1"
  <2>1. "retry" \in Aims
    BY DEF Aims
  <2> QED
    BY <1>1, <2>1, AwaitMoves DEF FailFinal, FinalRetries
<1>2. CASE run[m].aim # "final1"
  BY <1>2, AbortMoves DEF FailFinal, WalkFails
<1> QED
  BY <1>1, <1>2

LEMMA JudgeStageMoves ==
    ASSUME Owned, NEW m \in Movers, run[m] \in Locals, busy = m,
           run[m].aim \in {"strict", "coarse"}, JudgeStage(m)
    PROVE  StageAccepted(m) \/ CoarseWaits(m) \/ WalkFails(m)
<1>1. geo \in Geometries
  BY DEF Owned, TypeOK
<1>2. ASSUME Goto(m, "plan"), UNCHANGED <<busy, doubt>>,
             run' = [run EXCEPT ![m].strict = (run[m].aim = "strict"), ![m].at = geo]
      PROVE  StageAccepted(m)
  <2> DEFINE r == [run[m] EXCEPT !.strict = (run[m].aim = "strict"), !.at = geo]
  <2>1. run' = [run EXCEPT ![m] = r]
    BY <1>2
  <2>2. r \in Locals
    BY <1>1 DEF Locals
  <2>3. Stays(m, r)
    BY DEF Locals, Kept, Stays
  <2> HIDE DEF r
  <2>4. Moved(m, "plan", r)
    BY <1>2, <2>1, <2>2 DEF Goto, Moved, Places
  <2> QED
    BY <2>2, <2>3, <2>4 DEF StageAccepted
<1>3. ASSUME run[m].aim = "strict", Goto(m, "wait"), UNCHANGED <<busy, doubt>>,
             run' = [run EXCEPT ![m].aim = "coarse", ![m].seen = 0, ![m].newer = TRUE]
      PROVE  CoarseWaits(m)
  <2> DEFINE r == [run[m] EXCEPT !.aim = "coarse", !.seen = 0, !.newer = TRUE]
  <2>1. run' = [run EXCEPT ![m] = r]
    BY <1>3
  <2>2. 0 \in 0..FramesWanted /\ 0 < FramesWanted
    BY GeometryAssumption
  <2>3. r \in Locals /\ r.aim = "coarse" /\ r.seen = 0 /\ r.newer = TRUE
    BY <2>2 DEF Locals, Aims
  <2>4. Stays(m, r)
    BY DEF Locals, Kept, Stays
  <2> HIDE DEF r
  <2>5. Moved(m, "wait", r)
    BY <1>3, <2>1, <2>2, <2>3 DEF Goto, Moved, Places
  <2> QED
    BY <1>3, <2>3, <2>4, <2>5 DEF CoarseWaits
<1>4. ASSUME NEW identity \in BOOLEAN, Abort(m, identity) PROVE WalkFails(m)
  BY <1>4, AbortMoves DEF WalkFails
<1> QED
  BY <1>2, <1>3, <1>4 DEF JudgeStage, Reject

LEMMA JudgeFinalMoves ==
    ASSUME Owned, NEW m \in Movers, run[m] \in Locals, busy = m, JudgeFinal(m)
    PROVE  \/ run[m].aim # "final2" /\ SecondWaits(m)
           \/ TargetConfirmed(m) \/ FinalRetries(m) \/ WalkFails(m)
<1>1. geo \in Geometries
  BY DEF Owned, TypeOK
<1>2. ASSUME Goto(m, "wait"), UNCHANGED busy, doubt' = ~Clear,
             run' = [run EXCEPT ![m].strict = TRUE, ![m].at = geo, ![m].aim = "final2",
                       ![m].seen = 0, ![m].newer = FALSE]
      PROVE  SecondWaits(m)
  <2> DEFINE r == [run[m] EXCEPT !.strict = TRUE, !.at = geo, !.aim = "final2",
                                 !.seen = 0, !.newer = FALSE]
  <2>1. run' = [run EXCEPT ![m] = r]
    BY <1>2
  <2>2. 0 \in 0..FramesWanted /\ 0 < FramesWanted
    BY GeometryAssumption
  <2>3. r \in Locals /\ r.aim = "final2" /\ r.seen = 0 /\ r.newer = FALSE
    BY <1>1, <2>2 DEF Locals, Aims
  <2>4. Stays(m, r)
    BY DEF Locals, Kept, Stays
  <2> HIDE DEF r
  <2>5. Moved(m, "wait", r)
    BY <1>2, <2>1, <2>2, <2>3 DEF Goto, Moved, Places
  <2> QED
    BY <1>2, <2>3, <2>4, <2>5 DEF SecondWaits
<1>3. ASSUME run[m].aim = "final2", geo = run[m].at, Goto(m, "move"), UNCHANGED busy,
             run' = [run EXCEPT ![m].refined = "yes"]
      PROVE  TargetConfirmed(m)
  <2> DEFINE r == [run[m] EXCEPT !.refined = "yes"]
  <2>1. run' = [run EXCEPT ![m] = r]
    BY <1>3
  <2>2. r \in Locals /\ r.refined = "yes" /\ r.at = run[m].at /\ r.start = run[m].start
    BY DEF Locals
  <2> HIDE DEF r
  <2>3. Moved(m, "move", r)
    BY <1>3, <2>1, <2>2 DEF Goto, Moved, Places
  <2> QED
    BY <1>3, <2>2, <2>3 DEF TargetConfirmed
<1>4. ASSUME FailFinal(m) PROVE FinalRetries(m) \/ WalkFails(m)
  BY <1>4, FailFinalMoves
<1>5. ASSUME Abort(m, TRUE) PROVE WalkFails(m)
  BY <1>5, AbortMoves DEF WalkFails
<1> QED
  BY <1>2, <1>3, <1>4, <1>5 DEF JudgeFinal

LEMMA NoFrameMoves ==
    ASSUME Owned, NEW m \in Movers, NoFrame(m)
    PROVE  FinalRetries(m) \/ WalkFails(m)
<1>1. run[m] \in Locals /\ busy = m
  BY InMove DEF NoFrame, Running
<1> QED
  BY <1>1, FailFinalMoves DEF NoFrame

LEMMA LookMoves ==
    ASSUME Owned, NEW m \in Movers, Look(m)
    PROVE  \/ StageAccepted(m)
           \/ CoarseWaits(m) \/ FinalRetries(m) \/ WalkFails(m)
           \/ run[m].aim \in {"final1", "retry"} /\ SecondWaits(m)
           \/ TargetConfirmed(m)
<1>1. run[m] \in Locals /\ busy = m
  BY InMove DEF Look, Running
<1>2. run[m].aim \in Aims
  BY <1>1 DEF Locals
<1>3. CASE connected /\ ~locked /\ run[m].aim \in {"strict", "coarse"}
  BY <1>1, <1>3, JudgeStageMoves DEF Look
<1>4. CASE connected /\ ~locked /\ run[m].aim \notin {"strict", "coarse"}
  <2>1. JudgeFinal(m)
    BY <1>4 DEF Look
  <2>2. run[m].aim # "final2" => run[m].aim \in {"final1", "retry"}
    BY <1>2, <1>4 DEF Aims
  <2> QED
    BY <1>1, <2>1, <2>2, JudgeFinalMoves
<1>5. CASE ~(connected /\ ~locked)
  BY <1>1, <1>5, FailFinalMoves DEF Look
<1> QED
  BY <1>3, <1>4, <1>5

\* A mover that stays in its move with the locals it has.
LEMMA StaysMoved ==
    ASSUME Owned, NEW m \in Movers, pc[m] # "idle", NEW p \in Places,
           p \notin {"idle", "wait", "look"}, Goto(m, p), UNCHANGED <<run, busy>>
    PROVE  Moved(m, p, run[m])
<1>1. run[m] \in Locals /\ busy = m
  BY InMove
<1>2. run' = [run EXCEPT ![m] = run[m]]
  BY DEF Owned, TypeOK
<1> QED
  BY <1>1, <1>2 DEF Goto, Moved

LEMMA UndoMoves ==
    ASSUME Owned, NEW m \in Movers, Undo(m)
    PROVE  Restore(m) /\ (Moved(m, "move", run[m]) \/ Moved(m, "idle", None))
BY StaysMoved, LeaveMoves DEF Undo, Running, Places

\* Where the center goes, and what is locked, before the mover goes on.
CenterMoves == \E c \in Centers : Write([geo EXCEPT !.center = c])

LEMMA MoveAndLockMoves ==
    ASSUME Owned, NEW m \in Movers, MoveAndLock(m)
    PROVE  /\ CenterMoves \/ UNCHANGED <<geo, sweeping>>
           /\ UNCHANGED <<trace, deferred>>
           /\ \/ /\ locked' = TRUE
                 /\ \/ run[m].refined = "yes" /\ Moved(m, "defer", run[m])
                    \/ run[m].refined # "yes" /\ Moved(m, "idle", None)
              \/ /\ UNCHANGED locked
                 /\ \/ run[m].refined = "no" /\ Moved(m, "idle", None)
                    \/ run[m].refined # "no" /\ Moved(m, "undo", run[m])
<1>1. pc[m] # "idle"
  BY DEF MoveAndLock, Running
<1>2. /\ Goto(m, "defer") /\ UNCHANGED <<run, busy>> => Moved(m, "defer", run[m])
      /\ Goto(m, "undo") /\ UNCHANGED <<run, busy>> => Moved(m, "undo", run[m])
      /\ Leave(m) => Moved(m, "idle", None)
  BY <1>1, StaysMoved, LeaveMoves DEF Places
<1> QED
  BY <1>2 DEF MoveAndLock, Engage, CenterMoves

-----------------------------------------------------------------------------
(* Who has the center, and the types.                                      *)

DataTypes ==
    /\ geo \in Geometries /\ locked \in BOOLEAN
    /\ {sweeping, ready, trace} \subseteq Geometries \cup {None, Mixed}
    /\ unread \in BOOLEAN /\ connected \in BOOLEAN
    /\ deferred \in Geometries \cup {None}
    /\ opWidth \in Widths
    /\ lost \in BOOLEAN /\ crossed \in BOOLEAN

Marked == meddled \in BOOLEAN /\ doubt \in BOOLEAN

LEMMA OwnedParts ==
    Owned <=> /\ DataTypes /\ Marked /\ OwnsCenter /\ OwnerMoves
              /\ pc \in [Movers -> Places] /\ run \in [Movers -> Locals \cup {None}]
              /\ busy \in Movers \cup {None}
BY DEF Owned, TypeOK, DataTypes, Marked

LEMMA RestoreTyped ==
    ASSUME Owned, NEW m \in Movers, pc[m] # "idle", Restore(m)
    PROVE  geo' \in Geometries /\ sweeping' \in Geometries \cup {None, Mixed}
<1>1. run[m].start \in Geometries
  BY InMove DEF Locals
<1>2. CASE connected
  BY <1>1, <1>2, WriteTyped DEF Restore, Owned
<1>3. CASE ~connected
  BY <1>3 DEF Restore, Owned, TypeOK
<1> QED
  BY <1>2, <1>3

LEMMA CenterTyped ==
    ASSUME Owned, CenterMoves
    PROVE  geo' \in Geometries /\ sweeping' \in Geometries \cup {None, Mixed}
<1>1. PICK c \in Centers : Write([geo EXCEPT !.center = c])
  BY DEF CenterMoves
<1>2. [geo EXCEPT !.center = c] \in Geometries
  BY DEF Owned, TypeOK, Geometries
<1> QED
  BY <1>1, <1>2, WriteTyped DEF Owned

LEMMA MoveKeepsData == ASSUME Owned, NEW m \in Movers, Move(m) PROVE DataTypes'
<1> DataTypes
  BY OwnedParts
<1>1. CASE Begin(m)
  BY <1>1 DEF Begin, NoWrite, Rest, board, choices, DataTypes
<1>2. CASE Detect(m)
  BY <1>2 DEF Detect, NoWrite, Rest, board, choices, DataTypes
<1>3. CASE Plan(m)
  <2>1. Rest /\ (NoWrite \/ PlanStages(m))
    BY <1>3, PlanMoves DEF PlanWaits, PlanAborts
  <2>2. CASE NoWrite
    BY <2>1, <2>2 DEF NoWrite, Rest, board, choices, DataTypes
  <2>3. CASE PlanStages(m)
    <3>1. geo' \in Geometries /\ sweeping' \in Geometries \cup {None, Mixed}
      BY <2>3, WriteTyped DEF PlanStages, Owned
    <3> QED
      BY <2>1, <2>3, <3>1 DEF PlanStages, Rest, choices, DataTypes
  <2> QED
    BY <2>1, <2>2, <2>3
<1>4. CASE Settle(m) \/ CountFrame(m) \/ NoFrame(m) \/ Look(m)
  <2>1. NoWrite /\ Rest
    BY <1>4 DEF Settle, CountFrame, NoFrame, Look
  <2> QED
    BY <2>1 DEF NoWrite, Rest, board, choices, DataTypes
<1>5. CASE Undo(m) \/ UndoMove(m)
  <2>1. geo' \in Geometries /\ sweeping' \in Geometries \cup {None, Mixed}
    BY <1>5, RestoreTyped DEF Undo, UndoMove, Running
  <2> QED
    BY <1>5, <2>1 DEF Undo, UndoMove, Rest, choices, DataTypes
<1>6. CASE MoveAndLock(m)
  <2>1. geo' \in Geometries /\ sweeping' \in Geometries \cup {None, Mixed}
    BY <1>6, CenterTyped, MoveAndLockMoves DEF DataTypes
  <2>2. /\ locked' \in BOOLEAN /\ unread' \in BOOLEAN
        /\ ready' \in Geometries \cup {None, Mixed}
    BY <1>6 DEF MoveAndLock, Engage, DataTypes
  <2> QED
    BY <1>6, <2>1, <2>2, MoveAndLockMoves DEF MoveAndLock, Rest, choices, DataTypes
<1>7. CASE Defer(m)
  <2>1. run[m].start \in Geometries
    BY <1>7, InMove DEF Defer, Running, Locals
  <2> QED
    BY <1>7, <2>1 DEF Defer, Rest, board, choices, DataTypes
<1> QED
  BY <1>1, <1>2, <1>3, <1>4, <1>5, <1>6, <1>7 DEF Move

\* What a step of a mover makes of the marks of its move.
LEMMA MoveMarks ==
    ASSUME NEW m \in Movers, Move(m)
    PROVE  meddled' \in {meddled, FALSE} /\ doubt' \in {doubt, FALSE, ~Clear}
<1>1. Leave(m) => meddled' = FALSE /\ doubt' = FALSE
  BY DEF Leave
<1>2. \A aim \in Aims : Await(m, aim) => doubt' = ~Clear
  BY DEF Await
<1>3. \A identity \in BOOLEAN : Abort(m, identity) => UNCHANGED doubt
  BY DEF Abort
<1>4. FailFinal(m) => doubt' \in {doubt, ~Clear}
  BY <1>2, <1>3 DEF FailFinal, Aims
<1>5. CASE Begin(m) \/ Detect(m) \/ CountFrame(m) \/ UndoMove(m) \/ Defer(m)
  BY <1>1, <1>5 DEF Begin, Detect, CountFrame, UndoMove, Defer
<1>6. CASE Plan(m)
  BY <1>2, <1>3, <1>6 DEF Plan, Stage, Aims
<1>7. CASE Settle(m) \/ NoFrame(m)
  BY <1>4, <1>7 DEF Settle, NoFrame, Await
<1>8. CASE Look(m)
  <2>1. JudgeStage(m) => UNCHANGED <<meddled, doubt>>
    BY <1>3 DEF JudgeStage, Reject
  <2>2. JudgeFinal(m) => meddled' \in {meddled, FALSE} /\ doubt' \in {doubt, ~Clear}
    BY <1>3, <1>4 DEF JudgeFinal
  <2> QED
    BY <1>4, <1>8, <2>1, <2>2 DEF Look
<1>9. CASE Undo(m)
  BY <1>1, <1>9 DEF Undo
<1>10. CASE MoveAndLock(m)
  BY <1>1, <1>10 DEF MoveAndLock
<1> QED
  BY <1>5, <1>6, <1>7, <1>8, <1>9, <1>10 DEF Move

LEMMA NothingMeddled == ASSUME NEW m \in Movers, Move(m) PROVE ~meddled => ~meddled'
<1>1. meddled' = meddled \/ meddled' = FALSE
  BY MoveMarks
<1>2. CASE meddled' = meddled
  BY <1>2, Zenon
<1>3. CASE meddled' = FALSE
  BY <1>3
<1> QED
  BY <1>1, <1>2, <1>3

LEMMA MoveKeepsMarked == ASSUME Marked, NEW m \in Movers, Move(m) PROVE Marked'
<1>1. Clear \in BOOLEAN
  BY DEF Clear
<1> QED
  BY <1>1, MoveMarks DEF Marked

LEMMA MoveGoesOn ==
    ASSUME Owned, NEW m \in Movers, Move(m)
    PROVE  (busy = None \/ busy = m) /\ \E p, r : Moved(m, p, r)
<1>1. Begin(m) => busy = None
  BY DEF Begin, MayBegin
<1>2. ~Begin(m) => pc[m] # "idle"
  BY DEF Move, Running, Detect, Plan, Settle, CountFrame, NoFrame, Look, Undo, MoveAndLock,
         UndoMove, Defer
<1>3. busy = None \/ busy = m
  BY <1>1, <1>2, InMove
<1>4. ASSUME Begin(m) PROVE \E p, r : Moved(m, p, r)
  BY <1>4, BeginMoves
<1>5. ASSUME Detect(m) PROVE \E p, r : Moved(m, p, r)
  BY <1>5, DetectMoves
<1>6. ASSUME Plan(m) PROVE \E p, r : Moved(m, p, r)
  BY <1>6, PlanMoves DEF PlanWaits, PlanAborts, PlanStages
<1>7. ASSUME Settle(m) PROVE \E p, r : Moved(m, p, r)
  BY <1>7, SettleMoves
<1>8. ASSUME CountFrame(m) PROVE \E p, r : Moved(m, p, r)
  BY <1>8, CountMoves
<1>9. ASSUME NoFrame(m) PROVE \E p, r : Moved(m, p, r)
  BY <1>9, NoFrameMoves DEF FinalRetries, WalkFails
<1>10. ASSUME Look(m) PROVE \E p, r : Moved(m, p, r)
  BY <1>10, LookMoves DEF StageAccepted, CoarseWaits, FinalRetries, WalkFails, SecondWaits,
                          TargetConfirmed
<1>11. ASSUME Undo(m) PROVE \E p, r : Moved(m, p, r)
  BY <1>11, UndoMoves
<1>12. ASSUME MoveAndLock(m) PROVE \E p, r : Moved(m, p, r)
  BY <1>12, MoveAndLockMoves
<1>13. ASSUME UndoMove(m) \/ Defer(m) PROVE \E p, r : Moved(m, p, r)
  BY <1>13, LeaveMoves DEF UndoMove, Defer
<1> QED
  BY <1>3, <1>4, <1>5, <1>6, <1>7, <1>8, <1>9, <1>10, <1>11, <1>12, <1>13 DEF Move

LEMMA MoveKeepsOwned == ASSUME Owned, NEW m \in Movers, Move(m) PROVE Owned'
<1>1. busy = None \/ busy = m
  BY MoveGoesOn
<1>2. PICK p, r : Moved(m, p, r)
  BY MoveGoesOn
<1>3. /\ pc' \in [Movers -> Places] /\ run' \in [Movers -> Locals \cup {None}]
      /\ busy' \in Movers \cup {None} /\ OwnsCenter' /\ OwnerMoves'
  BY <1>1, <1>2, MovedKeepsOwner
<1>4. DataTypes' /\ Marked'
  BY MoveKeepsData, MoveKeepsMarked, OwnedParts
<1> QED
  BY <1>3, <1>4 DEF Owned, TypeOK, DataTypes, Marked

\* The poll thread wakes those who wait, and changes no more of their locals.
Woken(r) == [r EXCEPT !.newer = TRUE]

LEMMA ProcessKeepsMovers ==
    ASSUME Owned, Process, UNCHANGED <<pc, busy>>
    PROVE  /\ run' \in [Movers -> Locals \cup {None}] /\ OwnsCenter' /\ OwnerMoves'
           /\ \A m \in Movers : pc[m] # "wait" => run'[m] = run[m]
           /\ \A m \in Movers : pc[m] = "wait" => run'[m] = Woken(run[m])
<1>1. \A m \in Movers : run[m] \in Locals \cup {None} /\ (pc[m] = "wait" => run[m] \in Locals)
  BY DEF Owned, TypeOK, OwnsCenter
<1>2. \A r \in Locals : /\ [r EXCEPT !.newer = TRUE] \in Locals
                        /\ [r EXCEPT !.newer = TRUE].seen = r.seen
  BY DEF Locals
<1>3. run' \in [Movers -> Locals \cup {None}]
  BY <1>1, <1>2 DEF Process
<1>4. /\ \A m \in Movers : pc[m] # "wait" => run'[m] = run[m]
      /\ \A m \in Movers : pc[m] = "wait" => run'[m] = [run[m] EXCEPT !.newer = TRUE]
  BY DEF Process
<1>5. OwnsCenter'
  <2> SUFFICES ASSUME NEW m \in Movers, pc[m] # "idle"
               PROVE  /\ busy = m /\ run'[m] \in Locals
                      /\ pc[m] = "wait" => run'[m].seen < FramesWanted
                      /\ pc[m] = "look" => run'[m].seen = FramesWanted
    BY DEF OwnsCenter
  <2>1. /\ busy = m /\ run[m] \in Locals
        /\ pc[m] = "wait" => run[m].seen < FramesWanted
        /\ pc[m] = "look" => run[m].seen = FramesWanted
    BY DEF Owned, OwnsCenter
  <2> QED
    BY <1>2, <1>4, <2>1
<1>6. OwnerMoves'
  BY DEF Owned, OwnerMoves
<1> QED
  BY <1>3, <1>4, <1>5, <1>6 DEF Woken

LEMMA UnmovedKeepsOwned ==
    ASSUME Owned, UNCHANGED <<pc, run, busy>>, DataTypes', Marked'
    PROVE  Owned'
BY DEF Owned, TypeOK, DataTypes, Marked, OwnsCenter, OwnerMoves

LEMMA OtherKeepsMarked ==
    ASSUME Marked, BoardSweep \/ PollNew \/ PollAgain \/ SetParam \/ StartLock
                   \/ StartSweep \/ Disconnect \/ Reconnect
    PROVE  Marked'
<1>1. Moving \in BOOLEAN /\ (meddled \/ (Moving /\ geo' # geo)) \in BOOLEAN
  BY DEF Moving
<1> QED
  BY <1>1 DEF BoardSweep, PollNew, PollAgain, SetParam, StartLock, StartSweep, Disconnect,
              Reconnect, history, Marked

LEMMA OtherKeepsOwned ==
    ASSUME Owned, BoardSweep \/ PollNew \/ PollAgain \/ SetParam \/ StartLock
                  \/ StartSweep \/ Disconnect \/ Reconnect
    PROVE  Owned'
<1> DataTypes /\ Marked'
  BY OwnedParts, OtherKeepsMarked
<1>1. CASE BoardSweep
  BY <1>1, UnmovedKeepsOwned DEF BoardSweep, history, choices, DataTypes
<1>2. CASE PollNew \/ PollAgain
  <2>1. DataTypes'
    BY <1>2 DEF PollNew, PollAgain, Process, history, choices, DataTypes
  <2>2. /\ run' \in [Movers -> Locals \cup {None}] /\ OwnsCenter' /\ OwnerMoves'
        /\ UNCHANGED <<pc, busy>>
    BY <1>2, ProcessKeepsMovers DEF PollNew, PollAgain
  <2> QED
    BY <2>1, <2>2 DEF Owned, TypeOK, DataTypes, Marked
<1>3. CASE SetParam
  <2>1. PICK g \in Geometries : Write(g) /\ opWidth' = g.width
    BY <1>3 DEF SetParam
  <2>2. geo' \in Geometries /\ sweeping' \in Geometries \cup {None, Mixed}
    BY <2>1, WriteTyped DEF Owned
  <2>3. opWidth' \in Widths
    BY <2>1 DEF Geometries
  <2>4. Moving \in BOOLEAN
    BY DEF Moving
  <2>5. DataTypes'
    BY <1>3, <2>2, <2>3, <2>4 DEF SetParam, DataTypes
  <2> QED
    BY <1>3, <2>5, UnmovedKeepsOwned DEF SetParam
<1>4. CASE StartLock
  BY <1>4, UnmovedKeepsOwned DEF StartLock, Engage, history, choices, DataTypes
<1>5. CASE StartSweep
  <2>1. crossed' \in BOOLEAN
    BY <1>5 DEF StartSweep, DataTypes
  <2>2. geo' \in Geometries
    BY <1>5 DEF StartSweep, PendingScan, DataTypes
  <2>3. DataTypes'
    BY <1>5, <2>1, <2>2 DEF StartSweep, DataTypes
  <2> QED
    BY <1>5, <2>3, UnmovedKeepsOwned DEF StartSweep
<1>6. CASE Disconnect
  <2>1. lost' \in BOOLEAN
    BY <1>6 DEF Disconnect, Moving
  <2> QED
    BY <1>6, <2>1, UnmovedKeepsOwned DEF Disconnect, board, DataTypes
<1>7. CASE Reconnect
  BY <1>7, UnmovedKeepsOwned DEF Reconnect, board, history, choices, DataTypes
<1> QED
  BY <1>1, <1>2, <1>3, <1>4, <1>5, <1>6, <1>7

LEMMA OwnedInit == Init => Owned
<1> SUFFICES ASSUME Init PROVE Owned
  OBVIOUS
<1>1. geo \in Geometries
  BY GeometryAssumption DEF Init, Geometries, Widths
<1>2. opWidth \in Widths
  BY <1>1 DEF Init, Geometries
<1>3. DataTypes /\ Marked
  BY <1>1, <1>2 DEF Init, DataTypes, Marked
<1>4. pc \in [Movers -> Places] /\ run \in [Movers -> Locals \cup {None}]
  BY DEF Init, Places
<1>5. OwnsCenter /\ OwnerMoves
  BY DEF Init, OwnsCenter, OwnerMoves
<1> QED
  BY <1>3, <1>4, <1>5, OwnedParts DEF Init

LEMMA OwnedNext == Owned /\ [Next]_vars => Owned'
<1> SUFFICES ASSUME Owned, [Next]_vars PROVE Owned'
  OBVIOUS
<1>1. CASE UNCHANGED vars
  BY <1>1, UnmovedKeepsOwned, OwnedParts DEF vars, board, history, choices, DataTypes, Marked
<1> QED
  BY <1>1, MoveKeepsOwned, OtherKeepsOwned DEF Next
-----------------------------------------------------------------------------
(* Where the scan is.                                                      *)

\* What the mover at p with the locals r knows of the board after a step.
KnowsScan(p, r) ==
    /\ p = "detect" => r.refined = "no" /\ (~lost /\ ~meddled' => geo' = r.start)
    /\ p = "abort" => r.refined = "failed"
    /\ p = "move" /\ ~lost /\ ~meddled' =>
         geo' = IF r.refined = "yes" THEN r.at ELSE r.start

\* The lock, the width and the restore when the mover has left and when not.
LeavesScan ==
    /\ ~crossed /\ deferred' # None => locked'
    /\ ~lost /\ ~crossed => PendingScan'.width = opWidth
HoldsScan(p, r) ==
    /\ ~lost => connected
    /\ ~crossed => deferred' = None /\ ~meddled' /\ (p = "defer" => locked')
    /\ ~lost /\ ~crossed => r.start.width = opWidth

LEMMA IdleBoard ==
    ASSUME Owned, busy = None, NEW m \in Movers
    PROVE  pc[m] = "idle"
BY MarksAssumption DEF Owned, OwnsCenter

\* What a mover in its move knows of the board before a step.
LEMMA MoverKnows ==
    ASSUME ScanInv, NEW m \in Movers, pc[m] # "idle"
    PROVE  /\ run[m] \in Locals /\ busy = m /\ Owned
           /\ ~lost => connected
           /\ ~crossed => deferred = None /\ ~meddled /\ (pc[m] = "defer" => locked)
           /\ ~lost /\ ~crossed => run[m].start.width = opWidth
           /\ pc[m] = "detect" => run[m].refined = "no"
           /\ pc[m] = "detect" /\ ~lost /\ ~meddled => geo = run[m].start
           /\ pc[m] = "abort" => run[m].refined = "failed"
           /\ pc[m] = "move" /\ ~lost /\ ~meddled =>
                geo = IF run[m].refined = "yes" THEN run[m].at ELSE run[m].start
<1>1. run[m] \in Locals /\ busy = m /\ Owned /\ busy # None
  BY InMove, MarksAssumption DEF ScanInv
<1> QED
  BY <1>1 DEF ScanInv, MoveIsConnected, DeferredIsLocked, WidthKept, MeddlersCross, WalkIsMarked,
              StartsFromScan, LocksDetectedScan

LEMMA OneMover ==
    ASSUME ScanInv, NEW m \in Movers, busy = None \/ busy = m, Owned', Rest,
           NEW p, NEW r, Moved(m, p, r),
           KnowsScan(p, r), p = "idle" => LeavesScan, p # "idle" => HoldsScan(p, r)
    PROVE  ScanInv'
<1>1. /\ pc'[m] = p /\ run'[m] = r
      /\ \A u \in Movers \ {m} : pc'[u] = "idle"
  BY MovedKeepsOwner DEF ScanInv
<1>2. /\ p = "idle" => busy' = None
      /\ p # "idle" => busy' = m
  BY DEF Moved
<1>3. UNCHANGED <<connected, opWidth, lost, crossed>>
  BY DEF Rest, choices
<1>4. MeddlersCross'
  BY <1>2, <1>3, MarksAssumption DEF MeddlersCross, HoldsScan
<1>5. MoveIsConnected'
  BY <1>2, <1>3 DEF MoveIsConnected, HoldsScan
<1>6. DeferredIsLocked'
  BY <1>1, <1>2, <1>3 DEF DeferredIsLocked, LeavesScan, HoldsScan
<1>7. WidthKept'
  <2>1. ASSUME ~lost', ~crossed', busy' = None PROVE PendingScan'.width = opWidth'
    BY <1>2, <1>3, <2>1, MarksAssumption DEF LeavesScan
  <2>2. ASSUME ~lost', ~crossed', NEW u \in Movers, pc'[u] # "idle"
        PROVE  run'[u].start.width = opWidth'
    BY <1>1, <1>3, <2>2 DEF HoldsScan
  <2> QED
    BY <2>1, <2>2 DEF WidthKept
<1>8. WalkIsMarked' /\ StartsFromScan' /\ LocksDetectedScan'
  BY <1>1, <1>3 DEF WalkIsMarked, StartsFromScan, LocksDetectedScan, KnowsScan
<1> QED
  BY <1>4, <1>5, <1>6, <1>7, <1>8 DEF ScanInv

\* A step of a move that leaves the lock and the restore alone, and does not
\* detect, abort, lock or leave.
LEMMA MidwayStep ==
    ASSUME ScanInv, NEW m \in Movers, pc[m] \notin {"idle", "defer"}, Owned', Rest,
           UNCHANGED <<locked, deferred>>, (~meddled => ~meddled'),
           NEW p, NEW r, Moved(m, p, r), p \notin {"idle", "defer"},
           r.start = run[m].start, KnowsScan(p, r)
    PROVE  ScanInv'
<1>1. HoldsScan(p, r)
  BY MoverKnows DEF HoldsScan
<1> QED
  BY <1>1, OneMover, MoverKnows

LEMMA BeginKeepsScan == ASSUME ScanInv, NEW m \in Movers, Begin(m), Owned' PROVE ScanInv'
<1>1. busy = None /\ ~locked /\ connected /\ NoWrite /\ Rest /\ meddled' = FALSE
  BY DEF Begin, MayBegin
<1>2. PICK r \in Locals : Moved(m, "detect", r) /\ r.start = geo /\ r.refined = "no"
  BY BeginMoves DEF ScanInv
<1>3. ~crossed => deferred = None
  BY <1>1 DEF ScanInv, DeferredIsLocked
<1>4. ~lost /\ ~crossed => geo.width = opWidth
  BY <1>1, <1>3 DEF ScanInv, WidthKept, PendingScan
<1>5. KnowsScan("detect", r)
  BY <1>1, <1>2 DEF KnowsScan, NoWrite
<1>6. HoldsScan("detect", r)
  BY <1>1, <1>2, <1>3, <1>4 DEF HoldsScan, NoWrite
<1> QED
  BY <1>1, <1>2, <1>5, <1>6, OneMover

LEMMA DetectKeepsScan == ASSUME ScanInv, NEW m \in Movers, Detect(m), Owned' PROVE ScanInv'
<1>1. pc[m] = "detect" /\ NoWrite /\ Rest /\ (~meddled => ~meddled')
  BY NothingMeddled DEF Detect, Running, Move
<1>2. /\ busy = m /\ run[m].refined = "no" /\ (~crossed => deferred = None /\ ~meddled)
      /\ ~lost /\ ~meddled => geo = run[m].start
      /\ ~lost /\ ~crossed => run[m].start.width = opWidth
  BY <1>1, MoverKnows
<1>3. CASE Moved(m, "idle", None)
  <2>1. LeavesScan
    BY <1>1, <1>2 DEF LeavesScan, NoWrite, PendingScan
  <2>2. KnowsScan("idle", None)
    BY DEF KnowsScan
  <2> QED
    BY <1>1, <1>2, <1>3, <2>1, <2>2, OneMover
<1>4. ASSUME NEW r \in Locals, Moved(m, "move", r) \/ Moved(m, "plan", r), UNCHANGED meddled,
             r.start = run[m].start, r.refined = run[m].refined
      PROVE  ScanInv'
  <2>1. KnowsScan("move", r) /\ KnowsScan("plan", r)
    BY <1>1, <1>2, <1>4 DEF KnowsScan, NoWrite
  <2>2. UNCHANGED <<locked, deferred>>
    BY <1>1 DEF NoWrite
  <2> QED
    BY <1>1, <1>4, <2>1, <2>2, MidwayStep
<1>5. Leave(m) \/ UNCHANGED meddled
  BY DEF Detect
<1>6. Leave(m) => Moved(m, "idle", None)
  BY LeaveMoves
<1> QED
  BY <1>3, <1>4, <1>5, <1>6, DetectMoves DEF ScanInv

LEMMA PlanKeepsScan == ASSUME ScanInv, NEW m \in Movers, Plan(m), Owned' PROVE ScanInv'
<1>1. pc[m] = "plan"
  BY DEF Plan, Running
<1>2. Rest /\ UNCHANGED meddled /\ (PlanWaits(m) \/ PlanAborts(m) \/ PlanStages(m))
  BY PlanMoves DEF ScanInv
<1>3. UNCHANGED <<locked, deferred>>
  BY <1>2 DEF PlanWaits, PlanAborts, PlanStages, NoWrite
<1>4. \E p, r : /\ Moved(m, p, r) /\ p \notin {"idle", "defer"} /\ r.start = run[m].start
                /\ KnowsScan(p, r)
  BY <1>2 DEF PlanWaits, PlanAborts, PlanStages, Kept, Stays, KnowsScan
<1> QED
  BY <1>1, <1>2, <1>3, <1>4, MidwayStep

LEMMA WaitKeepsScan ==
    ASSUME ScanInv, NEW m \in Movers, Settle(m) \/ CountFrame(m) \/ NoFrame(m) \/ Look(m),
           Owned'
    PROVE  ScanInv'
<1>1. pc[m] \in {"settle", "wait", "look"}
  BY DEF Settle, CountFrame, NoFrame, Look, Running
<1>2. Rest /\ UNCHANGED <<geo, locked, deferred>> /\ (~meddled => ~meddled')
  BY NothingMeddled DEF Settle, CountFrame, NoFrame, Look, NoWrite, Move
<1> DEFINE Goes(p, r) == /\ Moved(m, p, r) /\ p \notin {"idle", "defer"}
                         /\ r.start = run[m].start /\ KnowsScan(p, r)
<1>3. ASSUME Settle(m) PROVE \E p, r : Goes(p, r)
  <2>1. PICK r \in Locals : Moved(m, "wait", r) /\ Stays(m, r)
    BY <1>3, SettleMoves DEF ScanInv
  <2> QED
    BY <2>1 DEF Kept, Stays, KnowsScan
<1>4. ASSUME CountFrame(m) PROVE \E p, r : Goes(p, r)
  <2>1. PICK r \in Locals : Stays(m, r) /\ (Moved(m, "look", r) \/ Moved(m, "wait", r))
    BY <1>4, CountMoves DEF ScanInv
  <2> QED
    BY <2>1 DEF Kept, Stays, KnowsScan
<1>5. ASSUME FinalRetries(m) \/ WalkFails(m) \/ StageAccepted(m) \/ CoarseWaits(m)
             \/ SecondWaits(m)
      PROVE  \E p, r : Goes(p, r)
  BY <1>5 DEF Kept, Stays, KnowsScan, FinalRetries, WalkFails, StageAccepted, CoarseWaits, SecondWaits
<1>6. ASSUME TargetConfirmed(m) PROVE \E p, r : Goes(p, r)
  BY <1>2, <1>6 DEF KnowsScan, TargetConfirmed
<1>7. \E p, r : Goes(p, r)
  BY <1>3, <1>4, <1>5, <1>6, NoFrameMoves, LookMoves DEF ScanInv
<1> QED
  BY <1>1, <1>2, <1>7, MidwayStep

\* A restore gives the board back the scan the move began on.
LEMMA RestoreGivesBack ==
    ASSUME ScanInv, NEW m \in Movers, pc[m] # "idle", Restore(m), ~lost
    PROVE  geo' = run[m].start
BY MoverKnows DEF Restore, Write

LEMMA UndoKeepsScan ==
    ASSUME ScanInv, NEW m \in Movers, Undo(m) \/ UndoMove(m), Owned'
    PROVE  ScanInv'
<1>1. /\ pc[m] \in {"abort", "undo"} /\ Restore(m) /\ Rest /\ UNCHANGED <<locked, deferred>>
      /\ (~meddled => ~meddled')
      /\ pc[m] = "undo" => Moved(m, "idle", None)
  BY LeaveMoves, NothingMeddled DEF Undo, UndoMove, Running, Move
<1>2. /\ busy = m /\ (~crossed => deferred = None)
      /\ ~lost /\ ~crossed => run[m].start.width = opWidth
      /\ pc[m] = "abort" => run[m].refined = "failed"
  BY <1>1, MoverKnows
<1>3. ~lost => geo' = run[m].start
  BY <1>1, RestoreGivesBack
<1>4. CASE Moved(m, "idle", None)
  <2>1. LeavesScan
    BY <1>1, <1>2, <1>3 DEF LeavesScan, PendingScan
  <2>2. KnowsScan("idle", None)
    BY DEF KnowsScan
  <2> QED
    BY <1>1, <1>2, <1>4, <2>1, <2>2, OneMover
<1>5. CASE pc[m] = "abort" /\ Moved(m, "move", run[m])
  <2>1. KnowsScan("move", run[m])
    BY <1>2, <1>3, <1>5 DEF KnowsScan
  <2> QED
    BY <1>1, <1>5, <2>1, MidwayStep
<1> QED
  BY <1>1, <1>4, <1>5, UndoMoves DEF ScanInv, UndoMove, Undo, Running

LEMMA CenterKeepsWidth ==
    ASSUME Owned, CenterMoves
    PROVE  geo'.width = geo.width
BY DEF CenterMoves, Write, Owned, TypeOK, Geometries

LEMMA MoveAndLockKeepsScan ==
    ASSUME ScanInv, NEW m \in Movers, MoveAndLock(m), Owned'
    PROVE  ScanInv'
<1>1. pc[m] = "move" /\ Rest /\ (~meddled => ~meddled')
  BY NothingMeddled DEF MoveAndLock, Running, Move
<1>2. /\ run[m] \in Locals /\ busy = m /\ Owned /\ (~lost => connected)
      /\ ~crossed => deferred = None /\ ~meddled
      /\ ~lost /\ ~crossed => run[m].start.width = opWidth
      /\ ~lost /\ ~meddled => geo = IF run[m].refined = "yes" THEN run[m].at ELSE run[m].start
  BY <1>1, MoverKnows
<1>3. /\ CenterMoves \/ UNCHANGED <<geo, sweeping>>
      /\ UNCHANGED deferred
      /\ \/ locked' /\ run[m].refined = "yes" /\ Moved(m, "defer", run[m])
         \/ run[m].refined # "yes" /\ Moved(m, "idle", None)
         \/ Moved(m, "undo", run[m])
  BY <1>2, MoveAndLockMoves
<1>4. geo'.width = geo.width
  BY <1>2, <1>3, CenterKeepsWidth
<1>5. CASE run[m].refined # "yes" /\ Moved(m, "idle", None)
  <2>1. ~lost /\ ~crossed => geo.width = opWidth
    BY <1>2, <1>5
  <2>2. LeavesScan
    BY <1>2, <1>3, <1>4, <2>1 DEF LeavesScan, PendingScan
  <2>3. KnowsScan("idle", None)
    BY DEF KnowsScan
  <2> QED
    BY <1>1, <1>2, <1>5, <2>2, <2>3, OneMover
<1>6. CASE locked' /\ Moved(m, "defer", run[m])
  <2>1. HoldsScan("defer", run[m]) /\ KnowsScan("defer", run[m])
    BY <1>1, <1>2, <1>3, <1>6 DEF HoldsScan, KnowsScan
  <2> QED
    BY <1>1, <1>2, <1>6, <2>1, OneMover
<1>7. CASE Moved(m, "undo", run[m])
  <2>1. HoldsScan("undo", run[m]) /\ KnowsScan("undo", run[m])
    BY <1>1, <1>2, <1>3, <1>7 DEF HoldsScan, KnowsScan
  <2> QED
    BY <1>1, <1>2, <1>7, <2>1, OneMover
<1> QED
  BY <1>3, <1>5, <1>6, <1>7

LEMMA DeferKeepsScan == ASSUME ScanInv, NEW m \in Movers, Defer(m), Owned' PROVE ScanInv'
<1>1. /\ pc[m] = "defer" /\ deferred' = run[m].start /\ Rest /\ UNCHANGED locked
      /\ Moved(m, "idle", None)
  BY LeaveMoves DEF Defer, Running
<1>2. /\ run[m] \in Locals /\ busy = m /\ (~crossed => locked)
      /\ ~lost /\ ~crossed => run[m].start.width = opWidth
  BY <1>1, MoverKnows
<1>3. run[m].start # None
  BY <1>2, MarksAssumption DEF Locals
<1>4. LeavesScan
  BY <1>1, <1>2, <1>3 DEF LeavesScan, PendingScan
<1>5. KnowsScan("idle", None)
  BY DEF KnowsScan
<1> QED
  BY <1>1, <1>2, <1>4, <1>5, OneMover

LEMMA MoveKeepsScan == ASSUME ScanInv, NEW m \in Movers, Move(m) PROVE ScanInv'
<1>1. Owned'
  BY MoveKeepsOwned DEF ScanInv
<1> QED
  BY <1>1, BeginKeepsScan, DetectKeepsScan, PlanKeepsScan, WaitKeepsScan, UndoKeepsScan,
     MoveAndLockKeepsScan, DeferKeepsScan DEF Move

\* A step of the board, or of the poll thread.
LEMMA BoardKeepsScan ==
    ASSUME ScanInv, UNCHANGED <<geo, locked, deferred, pc, busy, choices, meddled>>, Owned',
           connected => connected',
           \A m \in Movers : pc[m] # "wait" => run'[m] = run[m],
           \A m \in Movers : pc[m] = "wait" => run'[m].start = run[m].start
    PROVE  ScanInv'
BY DEF ScanInv, MoveIsConnected, DeferredIsLocked, WidthKept, PendingScan, MeddlersCross, choices,
       WalkIsMarked, StartsFromScan, LocksDetectedScan

\* A step of an operator or of the connection moves no mover.
LEMMA ActKeepsScan ==
    ASSUME ScanInv, UNCHANGED <<pc, run, busy>>, Owned',
           MoveIsConnected', DeferredIsLocked', WidthKept', MeddlersCross',
           (\E m \in Movers : pc[m] # "idle") /\ ~lost' /\ ~meddled' =>
               UNCHANGED geo /\ ~lost /\ ~meddled
    PROVE  ScanInv'
<1>1. WalkIsMarked'
  BY DEF ScanInv, WalkIsMarked
<1>2. StartsFromScan' /\ LocksDetectedScan'
  BY DEF ScanInv, StartsFromScan, LocksDetectedScan
<1> QED
  BY <1>1, <1>2 DEF ScanInv

LEMMA SetParamKeepsScan == ASSUME ScanInv, SetParam, Owned' PROVE ScanInv'
<1>1. /\ geo'.width = opWidth' /\ deferred' = None /\ connected /\ ~lost'
      /\ crossed' = Moving /\ meddled' = Moving
      /\ UNCHANGED <<locked, connected, busy, pc, run>>
  BY DEF SetParam, Write
<1>2. Owned /\ \A m \in Movers : pc[m] # "idle" => busy = m
  BY DEF ScanInv, Owned, OwnsCenter
<1>3. \A m \in Movers : pc[m] # "idle" => Moving
  BY <1>2, MarksAssumption DEF Moving
<1>4. MoveIsConnected' /\ MeddlersCross'
  BY <1>1 DEF MoveIsConnected, MeddlersCross, Moving
<1>5. DeferredIsLocked'
  BY <1>1, <1>3 DEF DeferredIsLocked
<1>6. WidthKept'
  BY <1>1, <1>3 DEF WidthKept, PendingScan
<1> QED
  BY <1>1, <1>3, <1>4, <1>5, <1>6, ActKeepsScan

LEMMA StartLockKeepsScan == ASSUME ScanInv, StartLock, Owned' PROVE ScanInv'
<1>1. locked' /\ UNCHANGED <<geo, connected, deferred, busy, pc, run, choices, meddled>>
  BY DEF StartLock, Engage, history
<1>2. MoveIsConnected' /\ DeferredIsLocked' /\ WidthKept' /\ MeddlersCross'
  BY <1>1 DEF ScanInv, MoveIsConnected, DeferredIsLocked, WidthKept, PendingScan, MeddlersCross,
              choices
<1> QED
  BY <1>1, <1>2, ActKeepsScan DEF choices

LEMMA StartSweepKeepsScan == ASSUME ScanInv, StartSweep, Owned' PROVE ScanInv'
<1>1. /\ deferred' = None /\ geo' = PendingScan
      /\ ~crossed' => ~crossed /\ \A m \in Movers : pc[m] # "defer"
      /\ ~meddled' => ~meddled /\ (Moving => geo' = geo)
      /\ UNCHANGED <<connected, busy, pc, run, opWidth, lost>>
  BY DEF StartSweep, Running
<1>2. \A m \in Movers : pc[m] # "idle" => Moving
  BY MarksAssumption DEF ScanInv, Owned, OwnsCenter, Moving
<1>3. MoveIsConnected'
  BY <1>1 DEF ScanInv, MoveIsConnected
<1>4. DeferredIsLocked'
  BY <1>1 DEF DeferredIsLocked
<1>5. WidthKept'
  BY <1>1 DEF ScanInv, WidthKept, PendingScan
<1>6. MeddlersCross'
  <2>1. ASSUME busy # None, ~crossed PROVE geo' = geo /\ ~meddled
    BY <1>1, <2>1 DEF ScanInv, DeferredIsLocked, PendingScan, MeddlersCross
  <2>2. geo' = geo /\ ~meddled => ~meddled'
    BY DEF StartSweep
  <2> QED
    BY <1>1, <2>1, <2>2 DEF MeddlersCross
<1> QED
  BY <1>1, <1>2, <1>3, <1>4, <1>5, <1>6, ActKeepsScan

LEMMA DisconnectKeepsScan == ASSUME ScanInv, Disconnect, Owned' PROVE ScanInv'
<1>1. /\ deferred' = None /\ UNCHANGED <<geo, locked, busy, pc, run, opWidth, crossed, meddled>>
      /\ ~lost' => ~lost /\ deferred = None /\ ~Moving
  BY DEF Disconnect
<1>2. \A m \in Movers : pc[m] # "idle" => Moving
  BY MarksAssumption DEF ScanInv, Owned, OwnsCenter, Moving
<1>3. MoveIsConnected' /\ MeddlersCross'
  BY <1>1 DEF ScanInv, MoveIsConnected, MeddlersCross, Moving
<1>4. DeferredIsLocked'
  BY <1>1 DEF ScanInv, DeferredIsLocked
<1>5. WidthKept'
  BY <1>1 DEF ScanInv, WidthKept, PendingScan
<1> QED
  BY <1>1, <1>2, <1>3, <1>4, <1>5, ActKeepsScan

LEMMA OtherKeepsScan ==
    ASSUME ScanInv,
           BoardSweep \/ PollNew \/ PollAgain \/ SetParam \/ StartLock
           \/ StartSweep \/ Disconnect \/ Reconnect
    PROVE  ScanInv'
<1>1. Owned /\ Owned'
  BY OtherKeepsOwned DEF ScanInv
<1>2. CASE BoardSweep \/ Reconnect
  BY <1>1, <1>2, BoardKeepsScan DEF BoardSweep, Reconnect, history
<1>3. CASE PollNew \/ PollAgain
  <2>1. Process /\ UNCHANGED <<geo, locked, connected, deferred, busy, pc, choices, meddled>>
    BY <1>3 DEF PollNew, PollAgain, history
  <2>2. /\ \A m \in Movers : pc[m] # "wait" => run'[m] = run[m]
        /\ \A m \in Movers : pc[m] = "wait" => run'[m] = Woken(run[m])
    BY <1>1, <2>1, ProcessKeepsMovers
  <2>3. \A r \in Locals : Woken(r).start = r.start
    BY DEF Locals, Woken
  <2>4. \A m \in Movers : pc[m] = "wait" => run[m] \in Locals
    BY <1>1, InMove
  <2> QED
    BY <1>1, <2>1, <2>2, <2>3, <2>4, BoardKeepsScan
<1> QED
  BY <1>1, <1>2, <1>3, SetParamKeepsScan, StartLockKeepsScan, StartSweepKeepsScan,
     DisconnectKeepsScan

LEMMA ScanInit == Init => ScanInv
<1> SUFFICES ASSUME Init PROVE ScanInv
  OBVIOUS
<1>1. Owned
  BY OwnedInit
<1> QED
  BY <1>1 DEF Init, ScanInv, MoveIsConnected, DeferredIsLocked, WidthKept, MeddlersCross,
              PendingScan, WalkIsMarked, StartsFromScan, LocksDetectedScan

LEMMA ScanNext == ASSUME ScanInv, [Next]_vars PROVE ScanInv'
<1>1. CASE UNCHANGED vars
  <2>1. Owned'
    BY OwnedNext DEF ScanInv
  <2> QED
    BY <1>1, <2>1, BoardKeepsScan DEF vars, history
<1> QED
  BY <1>1, MoveKeepsScan, OtherKeepsScan DEF Next

\* A mover's place, its locals and the board stay of their types, whatever the
\* operators do during its move.
THEOREM TypeCorrect == Spec => []TypeOK
<1>1. Owned => TypeOK
  BY DEF Owned
<1> QED
  BY <1>1, OwnedInit, OwnedNext, PTL DEF Spec

\* Where the scan is through a move.
THEOREM ScanKnown == Spec => []ScanInv
<1>1. ScanInv /\ [Next]_vars => ScanInv'
  BY ScanNext
<1> QED
  BY <1>1, ScanInit, PTL DEF Spec

\* A mover locks on the scan its target was detected on, unless an operator
\* wrote the geometry after it had settled on that scan.
THEOREM LocksDetectedScanHolds == Spec => []LocksDetectedScan
<1>1. ScanInv => LocksDetectedScan
  BY DEF ScanInv
<1> QED
  BY <1>1, ScanKnown, PTL

\* A mover inside auto_lock_from_scan has the center to itself.
THEOREM MoverOwnsCenterHolds == Spec => []MoverOwnsCenter
<1>1. ScanInv => MoverOwnsCenter
  BY DEF ScanInv, Owned, OwnsCenter, MoverOwnsCenter
<1> QED
  BY <1>1, ScanKnown, PTL

\* The next sweep restores the width the operator last chose, unless that was in
\* the middle of a move.
THEOREM OperatorGeometryWinsHolds == Spec => []OperatorGeometryWins
<1>1. ScanInv => OperatorGeometryWins
  BY DEF ScanInv, OperatorGeometryWins, DeferredIsLocked, WidthKept, PendingScan
<1> QED
  BY <1>1, ScanKnown, PTL

\* Whichever way a move ended, the sweep that starts next is the operator's.
THEOREM ScanGivenBackHolds == Spec => []ScanGivenBack
<1>1. ScanInv => ScanGivenBack
  BY DEF ScanInv, ScanGivenBack, WidthKept
<1> QED
  BY <1>1, ScanKnown, PTL

-----------------------------------------------------------------------------
(* How fresh the traces are that the stages of a walk are judged on.       *)

\* What the place p of the one mover claims of the traces after a step.
LEMMA OneMoverFresh ==
    ASSUME Owned, NEW m \in Movers, Move(m), NEW p, NEW r, Moved(m, p, r),
           FreshAt(p, r)'
    PROVE  FreshInv'
<1>1. busy = None \/ busy = m
  BY MoveGoesOn
<1>2. /\ pc'[m] = p /\ run'[m] = r
      /\ \A u \in Movers \ {m} : pc'[u] = "idle"
  BY <1>1, MovedKeepsOwner
<1>3. ASSUME NEW u \in Movers \ {m} PROVE FreshAt(pc[u], run[u])'
  BY <1>2 DEF FreshAt
<1> QED
  BY <1>2, <1>3 DEF FreshInv

\* A place at which nothing is waited for or judged.
LEMMA UnclaimedFresh ==
    ASSUME Owned, NEW m \in Movers, Move(m), NEW p, NEW r, Moved(m, p, r),
           p \notin {"wait", "look"}
    PROVE  FreshInv'
<1>1. FreshAt(p, r)'
  BY DEF FreshAt
<1> QED
  BY <1>1, OneMoverFresh

\* A step that writes nothing leaves the traces as fresh as they are.
LEMMA NoWriteKeepsLevels ==
    ASSUME NoWrite
    PROVE  (Clear' <=> Clear) /\ (Flowing' <=> Flowing) /\ (Fresh' <=> Fresh)
BY DEF NoWrite, board, Clear, Flowing, Fresh

\* A wait that begins knows that at most one frame of another sweep is to come,
\* or doubts what it will count.
LEMMA NewWaitFresh ==
    ASSUME Owned, NEW m \in Movers, Move(m), NoWrite, doubt' = ~Clear,
           NEW r, Moved(m, "wait", r), r.seen = 0, r.newer = FALSE
    PROVE  FreshInv'
<1>1. ASSUME ~doubt' PROVE Clear'
  <2>1. Clear
    BY <1>1
  <2> QED
    BY <2>1, NoWriteKeepsLevels
<1>2. ~OneFrame(r) /\ ~TwoFrames(r)
  BY DEF OneFrame, TwoFrames
<1>3. FreshAt("wait", r)'
  BY <1>1, <1>2 DEF FreshAt, WaitIsFresh, OneFrame, TwoFrames
<1> QED
  BY <1>3, OneMoverFresh

LEMMA PlanKeepsFresh ==
    ASSUME Owned, NEW m \in Movers, Plan(m), Move(m)
    PROVE  FreshInv'
<1>1. ASSUME PlanWaits(m) PROVE FreshInv'
  BY <1>1, NewWaitFresh DEF PlanWaits
<1>2. ASSUME PlanAborts(m) \/ PlanStages(m) PROVE FreshInv'
  BY <1>2, UnclaimedFresh DEF PlanAborts, PlanStages
<1> QED
  BY <1>1, <1>2, PlanMoves

LEMMA SettleKeepsFresh ==
    ASSUME Owned, NEW m \in Movers, Settle(m), Move(m)
    PROVE  FreshInv'
<1>1. NoWrite
  BY DEF Settle
<1> QED
  BY <1>1, SettleMoves, NewWaitFresh

LEMMA CountKeepsFresh ==
    ASSUME FramesWanted >= 2, Owned, FreshInv, NEW m \in Movers, CountFrame(m), Move(m)
    PROVE  FreshInv'
<1>1. pc[m] = "wait" /\ NoWrite /\ UNCHANGED doubt
  BY DEF CountFrame, Running
<1>2. PICK r \in Locals :
        /\ run[m].newer /\ r.newer = FALSE /\ r.seen = run[m].seen + 1
        /\ \/ Moved(m, "look", r) /\ r.seen = FramesWanted
           \/ Moved(m, "wait", r)
  BY CountMoves
<1>3. run[m].seen \in Nat
  BY <1>1, InMove, GeometryAssumption DEF Locals
<1>4. OneFrame(run[m]) /\ (TwoFrames(r) => TwoFrames(run[m]))
  BY <1>2, <1>3 DEF OneFrame, TwoFrames
<1>5. r.seen = FramesWanted => TwoFrames(run[m])
  BY <1>2, <1>3, GeometryAssumption DEF TwoFrames
<1>6. FreshAt("wait", run[m])
  BY <1>1 DEF FreshInv
<1>7. CASE Moved(m, "look", r) /\ r.seen = FramesWanted
  <2>1. ASSUME ~doubt PROVE Fresh
    BY <1>5, <1>6, <1>7, <2>1 DEF FreshAt, WaitIsFresh
  <2>2. FreshAt("look", r)'
    BY <1>1, <2>1, NoWriteKeepsLevels DEF FreshAt
  <2> QED
    BY <1>7, <2>2, OneMoverFresh
<1>8. CASE Moved(m, "wait", r)
  <2>1. ASSUME ~doubt PROVE WaitIsFresh(r)
    BY <1>4, <1>6, <2>1 DEF FreshAt, WaitIsFresh
  <2>2. FreshAt("wait", r)'
    BY <1>1, <2>1, NoWriteKeepsLevels DEF FreshAt, WaitIsFresh
  <2> QED
    BY <1>8, <2>2, OneMoverFresh
<1> QED
  BY <1>2, <1>7, <1>8

\* A failed wait and a failed judgement claim nothing new.
LEMMA FailureKeepsFresh ==
    ASSUME Owned, NEW m \in Movers, Move(m), NoWrite, FinalRetries(m) \/ WalkFails(m)
    PROVE  FreshInv'
<1>1. ASSUME FinalRetries(m) PROVE FreshInv'
  BY <1>1, NewWaitFresh DEF FinalRetries
<1>2. ASSUME WalkFails(m) PROVE FreshInv'
  BY <1>2, UnclaimedFresh DEF WalkFails
<1> QED
  BY <1>1, <1>2

LEMMA LookKeepsFresh ==
    ASSUME Owned, FreshInv, NEW m \in Movers, Look(m), Move(m)
    PROVE  FreshInv'
<1>1. pc[m] = "look" /\ NoWrite
  BY DEF Look, Running
<1>2. ASSUME StageAccepted(m) \/ TargetConfirmed(m) PROVE FreshInv'
  BY <1>2, UnclaimedFresh DEF StageAccepted, TargetConfirmed
<1>3. ASSUME CoarseWaits(m) PROVE FreshInv'
  <2>1. PICK r \in Locals : Moved(m, "wait", r)
    BY <1>3 DEF CoarseWaits
  <2>2. FreshAt("look", run[m]) /\ UNCHANGED doubt
    BY <1>1, <1>3 DEF FreshInv, CoarseWaits
  <2>3. ASSUME ~doubt' PROVE Clear' /\ Flowing' /\ Fresh'
    <3>1. ~doubt
      BY <2>2, <2>3
    <3>2. Fresh
      BY <2>2, <3>1 DEF FreshAt
    <3>3. Clear /\ Flowing
      BY <3>2 DEF Fresh, Flowing, Clear
    <3> QED
      BY <1>1, <3>2, <3>3, NoWriteKeepsLevels
  <2>4. FreshAt("wait", r)'
    BY <2>3 DEF FreshAt, WaitIsFresh
  <2> QED
    BY <2>1, <2>4, OneMoverFresh
<1>4. ASSUME SecondWaits(m) PROVE FreshInv'
  BY <1>1, <1>4, NewWaitFresh DEF SecondWaits
<1>5. ASSUME FinalRetries(m) \/ WalkFails(m) PROVE FreshInv'
  BY <1>1, <1>5, FailureKeepsFresh
<1> QED
  BY <1>2, <1>3, <1>4, <1>5, LookMoves

LEMMA MoveKeepsFresh ==
    ASSUME FramesWanted >= 2, Owned, FreshInv, NEW m \in Movers, Move(m)
    PROVE  FreshInv'
<1>1. ASSUME Begin(m) PROVE FreshInv'
  BY <1>1, BeginMoves, UnclaimedFresh
<1>2. ASSUME Detect(m) PROVE FreshInv'
  BY <1>2, DetectMoves, UnclaimedFresh
<1>3. ASSUME NoFrame(m) PROVE FreshInv'
  BY <1>3, NoFrameMoves, FailureKeepsFresh DEF NoFrame
<1>4. ASSUME Undo(m) PROVE FreshInv'
  BY <1>4, UndoMoves, UnclaimedFresh
<1>5. ASSUME MoveAndLock(m) PROVE FreshInv'
  <2>1. \E p \in {"idle", "undo", "defer"} : \E r : Moved(m, p, r)
    BY <1>5, MoveAndLockMoves
  <2> QED
    BY <2>1, UnclaimedFresh
<1>6. ASSUME UndoMove(m) \/ Defer(m) PROVE FreshInv'
  BY <1>6, LeaveMoves, UnclaimedFresh DEF UndoMove, Defer
<1> QED
  BY <1>1, <1>2, <1>3, <1>4, <1>5, <1>6, PlanKeepsFresh, SettleKeepsFresh, CountKeepsFresh,
     LookKeepsFresh DEF Move

\* A sweep that ends, and a frame the poll thread takes, only make the traces
\* fresher.
LEMMA SweepFreshens ==
    ASSUME BoardSweep
    PROVE  Clear' /\ (Flowing => Flowing') /\ (Fresh => Fresh')
BY DEF BoardSweep, Clear, Flowing, Fresh

LEMMA FrameFreshens ==
    ASSUME PollNew
    PROVE  Clear' /\ (Clear => Flowing') /\ (Flowing => Fresh') /\ (Fresh => Fresh')
BY DEF PollNew, Process, Clear, Flowing, Fresh

LEMMA SweepKeepsFresh == ASSUME FreshInv, BoardSweep PROVE FreshInv'
<1>1. UNCHANGED <<pc, run, doubt>>
  BY DEF BoardSweep, history
<1>2. ASSUME NEW m \in Movers PROVE FreshAt(pc[m], run[m])'
  <2>1. FreshAt(pc[m], run[m])
    BY DEF FreshInv
  <2>2. WaitIsFresh(run[m]) => WaitIsFresh(run[m])'
    BY <1>1, SweepFreshens DEF WaitIsFresh, OneFrame, TwoFrames
  <2> QED
    BY <1>1, <2>1, <2>2, SweepFreshens DEF FreshAt
<1> QED
  BY <1>2 DEF FreshInv

LEMMA FrameKeepsFresh == ASSUME Owned, FreshInv, PollNew PROVE FreshInv'
<1>1. Process /\ UNCHANGED <<pc, busy, doubt>>
  BY DEF PollNew, history
<1>2. ASSUME NEW m \in Movers PROVE FreshAt(pc[m], run[m])'
  <2>1. FreshAt(pc[m], run[m])
    BY DEF FreshInv
  <2>2. ASSUME pc[m] = "wait" PROVE FreshAt(pc[m], run[m])'
    <3>1. run[m] \in Locals /\ run'[m] = Woken(run[m])
      BY <1>1, <2>2, InMove, ProcessKeepsMovers
    <3>2. run[m].seen \in Nat /\ run'[m].seen = run[m].seen
      BY <3>1, GeometryAssumption DEF Locals, Woken
    <3>3. TwoFrames(run'[m]) => OneFrame(run[m])
      BY <3>2 DEF TwoFrames, OneFrame
    <3>4. WaitIsFresh(run[m]) => WaitIsFresh(run[m])'
      BY <3>3, FrameFreshens DEF WaitIsFresh, OneFrame, TwoFrames
    <3> QED
      BY <1>1, <2>1, <2>2, <3>4 DEF FreshAt
  <2>3. ASSUME pc[m] # "wait" PROVE FreshAt(pc[m], run[m])'
    BY <1>1, <2>1, <2>3, FrameFreshens DEF FreshAt
  <2> QED
    BY <2>2, <2>3
<1> QED
  BY <1>2 DEF FreshInv

\* What is done to the sweep in the middle of a move puts the wait in doubt.
LEMMA DoubtKeepsFresh ==
    ASSUME Owned, doubt' = Moving, UNCHANGED pc
    PROVE  FreshInv'
<1>1. CASE Moving
  BY <1>1 DEF FreshInv, FreshAt
<1>2. CASE ~Moving
  <2>1. \A m \in Movers : pc'[m] = "idle"
    BY <1>2, IdleBoard DEF Moving
  <2> QED
    BY <2>1 DEF FreshInv, FreshAt
<1> QED
  BY <1>1, <1>2

LEMMA LevelsKeepFresh ==
    ASSUME FreshInv, UNCHANGED <<pc, run, doubt>>,
           Clear => Clear', Flowing => Flowing', Fresh => Fresh'
    PROVE  FreshInv'
BY DEF FreshInv, FreshAt, WaitIsFresh, OneFrame, TwoFrames

LEMMA FreshNext ==
    ASSUME FramesWanted >= 2, Owned, FreshInv, [Next]_vars
    PROVE  FreshInv'
<1>1. ASSUME PollAgain \/ SetParam \/ StartSweep \/ Disconnect PROVE FreshInv'
  BY <1>1, DoubtKeepsFresh DEF PollAgain, SetParam, StartSweep, Disconnect
<1>2. ASSUME StartLock PROVE FreshInv'
  <2>1. (Clear => Clear') /\ (Flowing => Flowing') /\ (Fresh => Fresh')
    BY <1>2 DEF StartLock, Engage, Clear, Flowing, Fresh
  <2> QED
    BY <1>2, <2>1, LevelsKeepFresh DEF StartLock, history
<1>3. ASSUME Reconnect \/ UNCHANGED vars PROVE FreshInv'
  <2>1. UNCHANGED <<geo, sweeping, ready, unread, trace, pc, run, doubt>>
    BY <1>3 DEF Reconnect, vars, board, history
  <2>2. (Clear => Clear') /\ (Flowing => Flowing') /\ (Fresh => Fresh')
    BY <2>1 DEF Clear, Flowing, Fresh
  <2> QED
    BY <2>1, <2>2, LevelsKeepFresh
<1> QED
  BY <1>1, <1>2, <1>3, MoveKeepsFresh, SweepKeepsFresh, FrameKeepsFresh DEF Next

\* How fresh the traces are at each frame that a wait counts.
THEOREM FreshnessKnown == ASSUME FramesWanted >= 2 PROVE Spec => []FreshInv
<1>1. Init => FreshInv
  BY DEF Init, FreshInv, FreshAt
<1>2. Owned /\ FreshInv /\ [Next]_vars => FreshInv'
  BY FreshNext
<1>3. ScanInv => Owned
  BY DEF ScanInv
<1> QED
  BY <1>1, <1>2, <1>3, ScanKnown, PTL DEF Spec

\* A stage is judged on a trace that was swept over the geometry it is judged
\* against, when a wait wants two frames or more, unless the wait began with two
\* frames of another sweep still to come or was disturbed while it counted.
THEOREM JudgesFreshTracesHolds ==
    ASSUME FramesWanted >= 2
    PROVE  Spec => []JudgesFreshTraces
<1>1. FreshInv => JudgesFreshTraces
  BY DEF FreshInv, FreshAt, Fresh, JudgesFreshTraces
<1> QED
  BY <1>1, FreshnessKnown, PTL

-----------------------------------------------------------------------------
(* Every step of a move brings it nearer to its end.                       *)

LEMMA RankValues ==
    ASSUME NEW r
    PROVE  /\ Rank("idle", r) = 0 /\ Rank("undo", r) = 1 /\ Rank("defer", r) = 1
           /\ Rank("move", r) = 2 /\ Rank("abort", r) = 3
           /\ Rank("plan", r) = Walk(r) /\ Rank("detect", r) = Walk(r) + 1
           /\ Rank("settle", r) = Walk(r) + 3 + 2 * FramesWanted
BY DEF Rank

LEMMA WaitRanks ==
    ASSUME NEW r, NEW p \in {"wait", "look"}
    PROVE  /\ r.aim = "final2" => Rank(p, r) = 4 + (FramesWanted - r.seen)
           /\ r.aim = "retry"  => Rank(p, r) = 5 + FramesWanted + (FramesWanted - r.seen)
           /\ r.aim = "final1" => Rank(p, r) = 6 + 2 * FramesWanted + (FramesWanted - r.seen)
           /\ r.aim = "coarse" => Rank(p, r) = Walk(r) + 1 + (FramesWanted - r.seen)
           /\ r.aim = "strict" =>
                Rank(p, r) = Walk(r) + 2 + FramesWanted + (FramesWanted - r.seen)
BY DEF Rank

\* The locals as numbers.
LEMMA LocalNumbers ==
    ASSUME NEW r \in Locals
    PROVE  /\ FramesWanted \in Nat \ {0} /\ MaxStages \in Nat
           /\ r.stages \in Nat /\ r.stages <= MaxStages
           /\ r.seen \in Nat /\ r.seen <= FramesWanted
           /\ r.aim \in {"strict", "coarse", "final1", "retry", "final2"}
BY GeometryAssumption DEF Locals, Aims

LEMMA ProductOfNats == ASSUME NEW a \in Nat, NEW b \in Nat PROVE a * b \in Nat
OBVIOUS

LEMMA OneTimesLess ==
    ASSUME NEW a \in Int, NEW b \in Int, NEW k \in Int
    PROVE  (a - (b + 1)) * k + k = (a - b) * k
OBVIOUS

LEMMA WalkIsNat ==
    ASSUME NEW r \in Locals
    PROVE  Walk(r) \in Nat /\ Walk(r) >= 7 + 3 * FramesWanted
<1>1. MaxStages - r.stages \in Nat /\ 4 + 2 * FramesWanted \in Nat
  BY LocalNumbers
<1>2. StagesToCome(r) \in Nat
  BY <1>1, ProductOfNats DEF StagesToCome
<1> QED
  BY <1>2, LocalNumbers DEF Walk

LEMMA WalkDrops ==
    ASSUME NEW r \in Locals, NEW q \in Locals, q.stages = r.stages + 1
    PROVE  Walk(q) + 4 + 2 * FramesWanted = Walk(r)
<1>1. 4 + 2 * FramesWanted \in Int /\ FramesWanted \in Int
  BY LocalNumbers
<1>2. StagesToCome(q) + (4 + 2 * FramesWanted) = StagesToCome(r)
  BY <1>1, OneTimesLess, LocalNumbers DEF StagesToCome
<1>3. StagesToCome(q) \in Int /\ StagesToCome(r) \in Int
  BY LocalNumbers DEF StagesToCome
<1> QED
  BY <1>1, <1>2, <1>3 DEF Walk

LEMMA WalkSame == ASSUME NEW r, NEW q, q.stages = r.stages PROVE Walk(q) = Walk(r)
BY DEF Walk, StagesToCome

\* A mover that waits or looks has some way to go yet, in the walk or after it.
LEMMA WaitHasWayToGo ==
    ASSUME NEW r \in Locals, NEW p \in {"wait", "look"}
    PROVE  Rank(p, r) \in Nat /\ Rank(p, r) > 3
BY LocalNumbers, WalkIsNat, WaitRanks

LEMMA RankIsNat == ASSUME NEW r \in Locals, NEW p \in Places PROVE Rank(p, r) \in Nat
<1>1. CASE p \in {"wait", "look"}
  BY <1>1, WaitHasWayToGo
<1>2. CASE p \notin {"wait", "look"}
  BY <1>2, RankValues, WalkIsNat, LocalNumbers DEF Places
<1> QED
  BY <1>1, <1>2

Nearer(m) == Rank(pc'[m], run'[m]) < Rank(pc[m], run[m])

LEMMA NearerIfMoved ==
    ASSUME Owned, NEW m \in Movers, pc[m] # "idle", NEW p, NEW r, Moved(m, p, r),
           Rank(p, r) < Rank(pc[m], run[m])
    PROVE  Nearer(m)
<1>1. pc'[m] = p /\ run'[m] = r
  BY InMove, MovedKeepsOwner
<1> QED
  BY <1>1 DEF Nearer

\* A move that ends, and a walk that fails.
LEMMA NearerIfOver ==
    ASSUME Owned, NEW m \in Movers, NEW p, NEW r, Moved(m, p, r),
           \/ p \in {"idle", "move"} /\ pc[m] \in {"detect", "abort"}
           \/ p \in {"idle", "undo", "defer"} /\ pc[m] = "move"
           \/ p = "idle" /\ pc[m] \in {"undo", "defer"}
           \/ p \in {"abort", "move"} /\ pc[m] \in {"plan", "wait", "look"}
    PROVE  Nearer(m)
<1>1. run[m] \in Locals /\ pc[m] # "idle"
  BY InMove
<1>2. Walk(run[m]) \in Nat /\ Walk(run[m]) > 3
  BY <1>1, WalkIsNat, LocalNumbers
<1>3. pc[m] \in {"wait", "look"} => Rank(pc[m], run[m]) > 3 /\ Rank(pc[m], run[m]) \in Nat
  BY <1>1, WaitHasWayToGo
<1>4. Rank(p, r) < Rank(pc[m], run[m])
  BY <1>2, <1>3, RankValues
<1> QED
  BY <1>1, <1>4, NearerIfMoved

LEMMA PlanNearer == ASSUME Owned, NEW m \in Movers, Plan(m) PROVE Nearer(m)
<1>1. pc[m] = "plan" /\ run[m] \in Locals
  BY InMove DEF Plan, Running
<1>2. Rank(pc[m], run[m]) = Walk(run[m])
  BY <1>1, RankValues
<1>3. ASSUME PlanWaits(m) PROVE Nearer(m)
  <2>1. PICK r \in Locals : Moved(m, "wait", r) /\ r.aim = "final1" /\ r.seen = 0
    BY <1>3 DEF PlanWaits
  <2>2. Rank("wait", r) = 6 + 2 * FramesWanted + (FramesWanted - 0)
    BY <2>1, WaitRanks
  <2>3. Rank("wait", r) < Walk(run[m])
    BY <1>1, <2>2, WalkIsNat, LocalNumbers
  <2> QED
    BY <1>1, <1>2, <2>1, <2>3, NearerIfMoved
<1>4. ASSUME PlanAborts(m) PROVE Nearer(m)
  BY <1>1, <1>4, NearerIfOver DEF PlanAborts
<1>5. ASSUME PlanStages(m) PROVE Nearer(m)
  <2>1. PICK r \in Locals : Moved(m, "settle", r) /\ r.stages = run[m].stages + 1
    BY <1>5 DEF PlanStages
  <2>2. Rank("settle", r) = Walk(r) + 3 + 2 * FramesWanted
    BY RankValues
  <2>3. Walk(r) + 4 + 2 * FramesWanted = Walk(run[m])
    BY <1>1, <2>1, WalkDrops
  <2>4. Rank("settle", r) < Walk(run[m])
    BY <2>2, <2>3, WalkIsNat, LocalNumbers
  <2> QED
    BY <1>1, <1>2, <2>1, <2>4, NearerIfMoved
<1> QED
  BY <1>3, <1>4, <1>5, PlanMoves

LEMMA SettleNearer == ASSUME Owned, NEW m \in Movers, Settle(m) PROVE Nearer(m)
<1>1. pc[m] = "settle" /\ run[m] \in Locals
  BY InMove DEF Settle, Running
<1>2. PICK r \in Locals : Moved(m, "wait", r) /\ Stays(m, r) /\ r.seen = 0
  BY SettleMoves
<1>3. Walk(r) = Walk(run[m])
  BY <1>2, WalkSame DEF Stays
<1>4. Rank(pc[m], run[m]) = Walk(run[m]) + 3 + 2 * FramesWanted
  BY <1>1, RankValues
<1>5. Rank("wait", r) < Rank(pc[m], run[m])
  BY <1>1, <1>2, <1>3, <1>4, WaitRanks, WalkIsNat, LocalNumbers
<1> QED
  BY <1>1, <1>2, <1>5, NearerIfMoved

LEMMA CountNearer == ASSUME Owned, NEW m \in Movers, CountFrame(m) PROVE Nearer(m)
<1>1. pc[m] = "wait" /\ run[m] \in Locals
  BY InMove DEF CountFrame, Running
<1>2. PICK r \in Locals : /\ Stays(m, r) /\ r.aim = run[m].aim /\ r.seen = run[m].seen + 1
                          /\ Moved(m, "look", r) \/ Moved(m, "wait", r)
  BY CountMoves
<1>3. Walk(r) = Walk(run[m]) /\ Walk(r) \in Nat
  BY <1>2, WalkSame, WalkIsNat DEF Stays
<1>4. \A p \in {"wait", "look"} : Rank(p, r) < Rank("wait", run[m])
  <2> SUFFICES ASSUME NEW p \in {"wait", "look"} PROVE Rank(p, r) < Rank("wait", run[m])
    OBVIOUS
  <2>1. FramesWanted \in Nat /\ run[m].seen \in Nat /\ r.seen = run[m].seen + 1
    BY <1>1, <1>2, LocalNumbers
  <2>2. r.aim \in {"strict", "coarse", "final1", "retry", "final2"}
    BY LocalNumbers
  <2> QED
    BY <1>2, <1>3, <2>1, <2>2, WaitRanks
<1> QED
  BY <1>1, <1>2, <1>4, NearerIfMoved

LEMMA FailureNearer ==
    ASSUME Owned, NEW m \in Movers, pc[m] \in {"wait", "look"},
           FinalRetries(m) \/ WalkFails(m)
    PROVE  Nearer(m)
<1>1. run[m] \in Locals /\ pc[m] # "idle"
  BY InMove
<1>2. ASSUME FinalRetries(m) PROVE Nearer(m)
  <2>1. PICK r \in Locals : Moved(m, "wait", r) /\ r.aim = "retry" /\ r.seen = 0
    BY <1>2 DEF FinalRetries
  <2>2. Rank("wait", r) = 5 + FramesWanted + (FramesWanted - 0)
    BY <2>1, WaitRanks
  <2>3. Rank(pc[m], run[m]) = 6 + 2 * FramesWanted + (FramesWanted - run[m].seen)
    BY <1>2, WaitRanks DEF FinalRetries
  <2>4. Rank("wait", r) < Rank(pc[m], run[m])
    BY <1>1, <2>2, <2>3, LocalNumbers
  <2> QED
    BY <1>1, <2>1, <2>4, NearerIfMoved
<1>3. ASSUME WalkFails(m) PROVE Nearer(m)
  BY <1>3, NearerIfOver DEF WalkFails
<1> QED
  BY <1>2, <1>3

LEMMA LookNearer == ASSUME Owned, NEW m \in Movers, Look(m) PROVE Nearer(m)
<1>1. pc[m] = "look" /\ run[m] \in Locals /\ run[m].seen = FramesWanted
  BY InMove DEF Look, Running, Owned, OwnsCenter
<1>2. FramesWanted \in Nat \ {0} /\ Walk(run[m]) \in Nat
  BY <1>1, LocalNumbers, WalkIsNat
<1>3. ASSUME StageAccepted(m) PROVE Nearer(m)
  <2>1. PICK r \in Locals : Moved(m, "plan", r) /\ Stays(m, r)
    BY <1>3 DEF StageAccepted
  <2>2. Rank("plan", r) = Walk(run[m])
    BY <2>1, RankValues, WalkSame DEF Stays
  <2>3. Rank("plan", r) < Rank(pc[m], run[m])
    BY <1>1, <1>2, <1>3, <2>2, WaitRanks DEF StageAccepted
  <2> QED
    BY <1>1, <2>1, <2>3, NearerIfMoved
<1>4. ASSUME CoarseWaits(m) PROVE Nearer(m)
  <2>1. PICK r \in Locals : /\ Moved(m, "wait", r) /\ Stays(m, r) /\ run[m].aim = "strict"
                            /\ r.aim = "coarse" /\ r.seen = 0
    BY <1>4 DEF CoarseWaits
  <2>2. Rank("wait", r) = Walk(run[m]) + 1 + (FramesWanted - 0)
    BY <2>1, WaitRanks, WalkSame DEF Stays
  <2>3. Rank("wait", r) < Rank(pc[m], run[m])
    BY <1>1, <1>2, <2>1, <2>2, WaitRanks
  <2> QED
    BY <1>1, <2>1, <2>3, NearerIfMoved
<1>5. ASSUME run[m].aim \in {"final1", "retry"}, SecondWaits(m) PROVE Nearer(m)
  <2>1. PICK r \in Locals : Moved(m, "wait", r) /\ r.aim = "final2" /\ r.seen = 0
    BY <1>5 DEF SecondWaits
  <2>2. Rank("wait", r) = 4 + (FramesWanted - 0)
    BY <2>1, WaitRanks
  <2>3. Rank("wait", r) < Rank(pc[m], run[m])
    BY <1>1, <1>2, <1>5, <2>2, WaitRanks
  <2> QED
    BY <1>1, <2>1, <2>3, NearerIfMoved
<1>6. ASSUME TargetConfirmed(m) PROVE Nearer(m)
  BY <1>1, <1>6, NearerIfOver DEF TargetConfirmed
<1>7. ASSUME FinalRetries(m) \/ WalkFails(m) PROVE Nearer(m)
  BY <1>1, <1>7, FailureNearer
<1> QED
  BY <1>3, <1>4, <1>5, <1>6, <1>7, LookMoves

LEMMA DetectNearer == ASSUME Owned, NEW m \in Movers, Detect(m) PROVE Nearer(m)
<1>1. pc[m] = "detect" /\ run[m] \in Locals
  BY InMove DEF Detect, Running
<1>2. ASSUME NEW r \in Locals, Moved(m, "plan", r), r.stages = run[m].stages
      PROVE  Nearer(m)
  <2>1. Rank("plan", r) = Walk(run[m]) /\ Rank(pc[m], run[m]) = Walk(run[m]) + 1
    BY <1>1, <1>2, RankValues, WalkSame
  <2>2. Rank("plan", r) < Rank(pc[m], run[m])
    BY <1>1, <2>1, WalkIsNat
  <2> QED
    BY <1>1, <1>2, <2>2, NearerIfMoved
<1>3. ASSUME NEW p \in {"idle", "move"}, NEW r, Moved(m, p, r) PROVE Nearer(m)
  BY <1>1, <1>3, NearerIfOver
<1> QED
  BY <1>2, <1>3, DetectMoves

LEMMA MoveNearer ==
    ASSUME Owned, NEW m \in Movers, pc[m] # "idle", Move(m)
    PROVE  Nearer(m)
<1>1. ~Begin(m)
  BY DEF Begin, Running
<1>2. ASSUME NoFrame(m) PROVE Nearer(m)
  BY <1>2, NoFrameMoves, FailureNearer DEF NoFrame, Running
<1>3. ASSUME Undo(m) PROVE Nearer(m)
  BY <1>3, UndoMoves, NearerIfOver DEF Undo, Running
<1>4. ASSUME MoveAndLock(m) PROVE Nearer(m)
  <2>1. \E p \in {"idle", "undo", "defer"} : \E r : Moved(m, p, r)
    BY <1>4, MoveAndLockMoves
  <2> QED
    BY <1>4, <2>1, NearerIfOver DEF MoveAndLock, Running
<1>5. ASSUME UndoMove(m) \/ Defer(m) PROVE Nearer(m)
  BY <1>5, LeaveMoves, NearerIfOver DEF UndoMove, Defer, Running
<1> QED
  BY <1>1, <1>2, <1>3, <1>4, <1>5, DetectNearer, PlanNearer, SettleNearer, CountNearer,
     LookNearer DEF Move

\* Nobody else takes a mover back.
LEMMA OtherLeavesRank ==
    ASSUME Owned, NEW m \in Movers, pc[m] # "idle", Next, ~Move(m)
    PROVE  Rank(pc'[m], run'[m]) = Rank(pc[m], run[m])
<1>1. ASSUME NEW u \in Movers, Move(u) PROVE FALSE
  <2>1. busy = m /\ u # m
    BY <1>1, InMove
  <2> QED
    BY <1>1, <2>1, MoveGoesOn, MarksAssumption
<1>2. ASSUME Process, UNCHANGED <<pc, busy>>
      PROVE  Rank(pc'[m], run'[m]) = Rank(pc[m], run[m])
  <2>1. CASE pc[m] # "wait"
    BY <1>2, <2>1, ProcessKeepsMovers
  <2>2. CASE pc[m] = "wait"
    <3>1. run[m] \in Locals /\ run'[m] = Woken(run[m])
      BY <1>2, <2>2, InMove, ProcessKeepsMovers
    <3>2. /\ run'[m].aim = run[m].aim /\ run'[m].seen = run[m].seen
          /\ run'[m].stages = run[m].stages
      BY <3>1 DEF Locals, Woken
    <3>3. run[m].aim \in {"strict", "coarse", "final1", "retry", "final2"}
      BY <3>1, LocalNumbers
    <3> QED
      BY <1>2, <2>2, <3>2, <3>3, WaitRanks, WalkSame
  <2> QED
    BY <2>1, <2>2
<1>3. ASSUME UNCHANGED <<pc, run>>
      PROVE  Rank(pc'[m], run'[m]) = Rank(pc[m], run[m])
  BY <1>3
<1> QED
  BY <1>1, <1>2, <1>3 DEF Next, BoardSweep, PollNew, PollAgain, SetParam, StartLock,
                          StartSweep, Disconnect, Reconnect

\* The stages, the waits and the frames they count are all bounded: no step of
\* anyone takes a move back, and each of its own brings it nearer to its end.
THEOREM MovesAdvanceHolds == Spec => MovesAdvance
<1>1. Owned /\ [Next]_vars => [\A m \in Movers : pc[m] # "idle" =>
          /\ Rank(pc'[m], run'[m]) <= Rank(pc[m], run[m])
          /\ Move(m) => Rank(pc'[m], run'[m]) < Rank(pc[m], run[m])]_vars
  <2> SUFFICES ASSUME Owned, Next, NEW m \in Movers, pc[m] # "idle"
               PROVE  /\ Rank(pc'[m], run'[m]) <= Rank(pc[m], run[m])
                      /\ Move(m) => Rank(pc'[m], run'[m]) < Rank(pc[m], run[m])
    OBVIOUS
  <2>1. Rank(pc[m], run[m]) \in Nat
    BY InMove, RankIsNat DEF Owned, TypeOK
  <2>2. CASE Move(m)
    <3>1. Owned' /\ Nearer(m)
      BY <2>2, MoveKeepsOwned, MoveNearer
    <3>2. Rank(pc'[m], run'[m]) \in Nat
      <4>1. pc'[m] = "idle" => Rank(pc'[m], run'[m]) = 0
        BY RankValues
      <4>2. pc'[m] # "idle" => pc'[m] \in Places /\ run'[m] \in Locals
        BY <3>1 DEF Owned, TypeOK, OwnsCenter
      <4> QED
        BY <4>1, <4>2, RankIsNat
    <3> QED
      BY <2>1, <3>1, <3>2 DEF Nearer
  <2>3. CASE ~Move(m)
    BY <2>1, <2>3, OtherLeavesRank
  <2> QED
    BY <2>2, <2>3
<1> QED
  BY <1>1, OwnedInit, OwnedNext, PTL DEF Spec, MovesAdvance

=============================================================================
