------------------------------ MODULE LockScan ------------------------------
(***************************************************************************)
(* Auto-lock from scan (linien-gateway/app/session.py,                     *)
(* auto_lock_from_scan): detect the feature on a sweep, narrow the scan    *)
(* around it in stages when it is too wide, verify the target twice, move  *)
(* the center there, lock, and give the operator's scan back when the      *)
(* sweep next starts.                                                      *)
(*                                                                         *)
(* Actors.  A mover is a thread that calls auto_lock_from_scan: the relock *)
(* worker or a request.  The board sweeps, the poll thread takes its       *)
(* traces, and operators write the geometry, lock and unlock.  A section   *)
(* of _rpyc_lock is one step; busy is the lock _center_move_lock.          *)
(*                                                                         *)
(* Data.  A geometry is a center and a width (the sweep amplitude); a      *)
(* trace is known by the geometry it was swept over, Mixed when that       *)
(* changed on the way.  What a detector or the planner answers is a        *)
(* choice among the answers the code distinguishes.                        *)
(***************************************************************************)
EXTENDS Integers

CONSTANTS
    Movers,       \* threads that may run auto_lock_from_scan
    Centers,      \* sweep centers
    MaxWidth,     \* the widest sweep
    LockWidth,    \* scan_too_wide_to_lock says no up to this width
    MaxStages,    \* _MAX_REFINEMENT_STAGES
    FramesWanted, \* VERIFY_TRACE_FRAMES
    None, Mixed

ASSUME GeometryAssumption ==
    /\ MaxWidth \in Nat \ {0} /\ LockWidth \in 1..MaxWidth
    /\ MaxStages \in Nat /\ FramesWanted \in Nat \ {0}
    /\ Centers # {}

Widths     == 1..MaxWidth
Geometries == [center : Centers, width : Widths]

ASSUME MarksAssumption ==
    /\ None \notin Movers /\ None # Mixed
    /\ {None, Mixed} \cap Geometries = {}

VARIABLES
    geo, locked,      \* the board: sweep registers, lock
    sweeping, ready,  \* the running sweep; the last complete one, to_plot
    unread,           \* ready is news to the gateway
    trace,            \* plot_state.last_plot_data
    connected,        \* parameters and control are not None
    deferred,         \* _deferred_sweep_geometry
    busy,             \* who holds _center_move_lock
    pc, run,          \* each mover's place and locals
    opWidth, lost,    \* history: the width of the geometry the operators last
                      \* chose, and whether a connection ended since
    crossed,          \* history: they chose it, or started the sweep of a lock
                      \* just made, in the middle of a move
    meddled,          \* history: they wrote the geometry since the mover in
                      \* hand last knew it
    doubt             \* history: what its wait counts may be of another sweep

board   == <<sweeping, ready, unread, trace>>
choices == <<opWidth, lost, crossed>>
history == <<choices, meddled, doubt>>
vars == <<geo, locked, board, connected, deferred, busy, pc, run, history>>

\* Where a mover is: detecting on the trace in hand, planning a stage,
\* settling after a write, waiting for fresh frames, judging one, undoing the
\* walk, locking, undoing a failed lock, leaving the old scan for later.
Places == {"idle", "detect", "plan", "settle", "wait", "look",
           "abort", "move", "undo", "defer"}

\* What a wait is for: a stage judged by the strict detector or, once that
\* rejected it, by the coarse one; the two final detections and the retry.
Aims == {"strict", "coarse", "final1", "retry", "final2"}

Locals == [start   : Geometries,            \* the operator's, to restore
           direct  : BOOLEAN,               \* strict accepted the first trace
           strict  : BOOLEAN,               \* the detector of the last target
           stages  : 0..MaxStages,          \* narrow_count
           aim     : Aims,
           below   : 1..(MaxWidth + 1),     \* a narrowing must get below this
           seen    : 0..FramesWanted,       \* frames the wait has counted
           newer   : BOOLEAN,               \* one has come since
           at      : Geometries,            \* read back at the last detection
           refined : {"no", "yes", "failed"},
           lostIt  : BOOLEAN]               \* failure_kind = "identity"

TypeOK ==
    /\ geo \in Geometries /\ locked \in BOOLEAN
    /\ {sweeping, ready, trace} \subseteq Geometries \cup {None, Mixed}
    /\ unread \in BOOLEAN /\ connected \in BOOLEAN
    /\ deferred \in Geometries \cup {None}
    /\ busy \in Movers \cup {None}
    /\ pc \in [Movers -> Places]
    /\ run \in [Movers -> Locals \cup {None}]
    /\ opWidth \in Widths
    /\ {lost, crossed, meddled, doubt} \subseteq BOOLEAN

Init ==
    /\ geo \in {[center |-> c, width |-> MaxWidth] : c \in Centers}
    /\ locked = FALSE
    /\ sweeping = geo /\ ready = None /\ unread = FALSE /\ trace = None
    /\ connected = TRUE /\ deferred = None /\ busy = None
    /\ pc = [m \in Movers |-> "idle"] /\ run = [m \in Movers |-> None]
    /\ opWidth = geo.width /\ lost = FALSE /\ crossed = FALSE
    /\ meddled = FALSE /\ doubt = FALSE

-----------------------------------------------------------------------------
(* The board and the poll thread.                                          *)

\* A register write; it spoils the sweep it cuts through.
Write(g) ==
    /\ geo' = g
    /\ sweeping' = IF g = geo THEN sweeping ELSE Mixed

\* exposed_start_lock: frames of a locked board are no sweep traces.
Engage == locked' = TRUE /\ ready' = None /\ unread' = FALSE

Moving == busy # None

BoardSweep ==
    /\ ~locked
    /\ ready' = sweeping /\ unread' = TRUE /\ sweeping' = geo
    /\ UNCHANGED <<geo, locked, trace, connected, deferred, busy, pc, run, history>>

\* _on_to_plot and build_plot_frame on an unlocked frame: the trace is
\* replaced and stamped with the time it was PROCESSED.
Process ==
    /\ trace' = ready
    /\ run' = [m \in Movers |->
                 IF pc[m] = "wait" THEN [run[m] EXCEPT !.newer = TRUE] ELSE run[m]]

PollNew ==
    /\ connected /\ unread
    /\ Process /\ unread' = FALSE
    /\ UNCHANGED <<geo, locked, sweeping, ready, connected, deferred, busy, pc, history>>

\* No frame for a second: to_plot is read again, whatever it holds, and a wait
\* counts the old frame once more.
PollAgain ==
    /\ connected /\ ~unread /\ ready # None
    /\ Process /\ doubt' = Moving
    /\ UNCHANGED <<geo, locked, sweeping, ready, unread, connected, deferred,
                   busy, pc, choices, meddled>>

-----------------------------------------------------------------------------
(* A mover.                                                                *)

Running(m, place) == pc[m] = place
Goto(m, place)    == pc' = [pc EXCEPT ![m] = place]
TooWide(g)        == g.width > LockWidth

Leave(m) ==
    /\ pc' = [pc EXCEPT ![m] = "idle"] /\ run' = [run EXCEPT ![m] = None]
    /\ busy' = None /\ meddled' = FALSE /\ doubt' = FALSE

\* At most one frame that was not swept as a whole over the geometry is still
\* to come: the one to_plot holds, or the one that is being swept.
Clear == unread => sweeping = geo

\* The frames that are stamped from here on are counted.
Await(m, aim) ==
    /\ Goto(m, "wait")
    /\ run' = [run EXCEPT ![m].aim = aim, ![m].seen = 0, ![m].newer = FALSE]
    /\ doubt' = ~Clear

Abort(m, identity) ==
    /\ Goto(m, "abort")
    /\ run' = [run EXCEPT ![m].refined = "failed", ![m].lostIt = identity]
    /\ UNCHANGED <<busy, doubt>>

NoWrite == UNCHANGED <<geo, locked, board, deferred>>
Rest    == UNCHANGED <<connected, choices>>

\* Refused while another move runs, on a locked board and without a trace.
MayBegin == busy = None /\ ~locked /\ trace # None

\* auto_lock_from_scan up to its snapshot of the operator's geometry.
Begin(m) ==
    /\ Running(m, "idle") /\ connected /\ MayBegin
    /\ busy' = m
    /\ Goto(m, "detect")
    /\ run' = [run EXCEPT ![m] =
         [start |-> geo, direct |-> FALSE, strict |-> FALSE, stages |-> 0,
          aim |-> "strict", below |-> MaxWidth + 1, seen |-> 0, newer |-> FALSE,
          at |-> geo, refined |-> "no", lostIt |-> FALSE]]
    /\ meddled' = FALSE
    /\ NoWrite /\ Rest /\ UNCHANGED doubt

\* The strict detector on the trace in hand, then the coarse one.
Detect(m) ==
    /\ Running(m, "detect")
    /\ \/ /\ connected /\ ~locked
          /\ \E strict \in BOOLEAN :
               /\ run' = [run EXCEPT ![m].direct = strict, ![m].strict = strict,
                                     ![m].at = geo]
               /\ Goto(m, IF strict /\ ~TooWide(geo) THEN "move" ELSE "plan")
          /\ UNCHANGED <<busy, meddled, doubt>>
       \/ Leave(m)
    /\ NoWrite /\ Rest

\* Mutant: a recentering stage is not counted.
Stage_RecenterFree(m, g) ==
    /\ Write(g)
    /\ Goto(m, "settle")
    /\ run' = [run EXCEPT
                 ![m].below = IF g.width = run[m].at.width THEN MaxWidth + 1
                                                           ELSE run[m].at.width,
                 ![m].aim = IF g.width = run[m].at.width THEN "coarse" ELSE "strict",
                 ![m].stages = IF g.width = run[m].at.width THEN @ ELSE @ + 1]
    /\ UNCHANGED <<locked, ready, unread, trace, deferred, busy, doubt>>

\* One stage: both axes in one write.  A recentering keeps the width and is
\* judged by the coarse detector alone.  (narrow_count is raised once the
\* stage was judged; a stage that fails ends the walk.)
Stage(m, g) ==
    /\ Write(g)
    /\ Goto(m, "settle")
    /\ run' = [run EXCEPT
                 ![m].below = IF g.width = run[m].at.width THEN MaxWidth + 1
                                                           ELSE run[m].at.width,
                 ![m].aim = IF g.width = run[m].at.width THEN "coarse" ELSE "strict",
                 ![m].stages = @ + 1]
    /\ UNCHANGED <<locked, ready, unread, trace, deferred, busy, doubt>>

StagesLeft(m) == run[m].stages < MaxStages

\* The head of the loop of _trajectory_refine_auto_lock, and what
\* plan_refinement_step answers.
Plan(m) ==
    LET at == run[m].at
        goalMet == run[m].strict /\ ~TooWide(at)
    IN  /\ Running(m, "plan")
        /\ \/ /\ goalMet \/ StagesLeft(m)      \* or "done"
              /\ Await(m, "final1") /\ NoWrite /\ UNCHANGED busy
           \/ /\ ~goalMet                                  \* "refuse", no
              /\ Abort(m, FALSE) /\ NoWrite                \* stage left, no board
           \/ /\ ~goalMet /\ StagesLeft(m) /\ connected
              /\ \E g \in Geometries :
                    /\ g.width <= at.width /\ g # at
                    /\ Stage(m, g)
        /\ Rest /\ UNCHANGED meddled

\* settle_ms has passed: the wait counts frames from here.  It may be 0, so a
\* frame from before the write need not have been taken yet.
Settle(m) ==
    /\ Running(m, "settle")
    /\ Await(m, run[m].aim)
    /\ NoWrite /\ Rest /\ UNCHANGED <<busy, meddled>>

\* Mutant: any one frame is fresh enough.
CountFrame_One(m) ==
    /\ Running(m, "wait") /\ run[m].newer
    /\ run' = [run EXCEPT ![m].newer = FALSE, ![m].seen = FramesWanted]
    /\ Goto(m, "look")
    /\ NoWrite /\ Rest /\ UNCHANGED <<busy, meddled, doubt>>

\* _wait_for_fresh_unlocked_trace sees a newer stamp.
CountFrame(m) ==
    /\ Running(m, "wait") /\ run[m].newer
    /\ run' = [run EXCEPT ![m].newer = FALSE, ![m].seen = @ + 1]
    /\ IF run[m].seen + 1 = FramesWanted THEN Goto(m, "look") ELSE UNCHANGED pc
    /\ NoWrite /\ Rest /\ UNCHANGED <<busy, meddled, doubt>>

\* The first final detection is retried once; any other failure to see or to
\* judge a trace ends the walk.
FailFinal(m) ==
    IF run[m].aim = "final1"
      THEN Await(m, "retry") /\ UNCHANGED busy
      ELSE Abort(m, FALSE)

NoFrame(m) ==
    /\ Running(m, "wait")
    /\ FailFinal(m)
    /\ NoWrite /\ Rest /\ UNCHANGED meddled

\* Nothing is found, or IdentityGuard.check sees another feature than before.
Reject(m) == \E identity \in BOOLEAN : Abort(m, identity)

\* A stage: the target is taken, or the strict detector leaves it to the
\* coarse one, which waits again from the same write (the last frame counts),
\* or nothing is found, or IdentityGuard sees another feature, or the width
\* did not follow.
JudgeStage(m) ==
    /\ \/ /\ geo.width < run[m].below
          /\ run' = [run EXCEPT ![m].strict = (run[m].aim = "strict"), ![m].at = geo]
          /\ Goto(m, "plan") /\ UNCHANGED <<busy, doubt>>
       \/ /\ run[m].aim = "strict"
          /\ Goto(m, "wait")
          /\ run' = [run EXCEPT ![m].aim = "coarse", ![m].seen = 0, ![m].newer = TRUE]
          /\ UNCHANGED <<busy, doubt>>
       \/ Reject(m)
    /\ UNCHANGED meddled

\* The final detections, both strict: the second one must agree with the
\* first on the feature and on the geometry.
JudgeFinal(m) ==
    \/ /\ run[m].aim # "final2"
       /\ Goto(m, "wait")
       /\ run' = [run EXCEPT ![m].strict = TRUE, ![m].at = geo, ![m].aim = "final2",
                    ![m].seen = 0, ![m].newer = FALSE]
       /\ doubt' = ~Clear
       /\ UNCHANGED <<busy, meddled>>
    \/ /\ run[m].aim = "final2" /\ geo = run[m].at
       /\ run' = [run EXCEPT ![m].refined = "yes"]
       /\ meddled' = FALSE
       /\ Goto(m, "move") /\ UNCHANGED <<busy, doubt>>
    \/ (FailFinal(m) \/ Abort(m, TRUE)) /\ UNCHANGED meddled

\* _capture_auto_lock_target and _coarse_auto_lock_target after their wait.
\* They read the trace, then the registers; a write that falls between the
\* two is as good as one that falls before the trace.
Look(m) ==
    /\ Running(m, "look")
    /\ IF connected /\ ~locked
         THEN IF run[m].aim \in {"strict", "coarse"} THEN JudgeStage(m)
                                                     ELSE JudgeFinal(m)
         ELSE FailFinal(m) /\ UNCHANGED meddled
    /\ NoWrite /\ Rest

\* Mutant: a walk that failed leaves its narrowed scan behind.
Restore_Not(m) == UNCHANGED <<geo, sweeping>>

\* _restore_sweep_geometry: best effort.
Restore(m) ==
    IF connected THEN Write(run[m].start) ELSE UNCHANGED <<geo, sweeping>>

\* The walk failed.  The direct detection, when there is one, still locks,
\* unless the walk lost the feature.
Undo(m) ==
    /\ Running(m, "abort")
    /\ Restore(m)
    /\ IF run[m].direct /\ ~run[m].lostIt
         THEN Goto(m, "move") /\ meddled' = FALSE /\ UNCHANGED <<run, busy, doubt>>
         ELSE Leave(m)
    /\ UNCHANGED <<locked, ready, unread, trace, deferred>> /\ Rest

\* _move_and_lock: center, registers, lock, in one section.  It may fail
\* before any of them or after the center was written.
MoveAndLock(m) ==
    LET goOn(place) == Goto(m, place) /\ UNCHANGED <<run, busy, meddled, doubt>>
        recenter == \E c \in Centers : Write([geo EXCEPT !.center = c])
    IN  /\ Running(m, "move")
        /\ \/ /\ connected /\ recenter /\ Engage
              /\ IF run[m].refined = "yes" THEN goOn("defer") ELSE Leave(m)
           \/ /\ connected /\ recenter /\ UNCHANGED <<locked, ready, unread>>
              /\ IF run[m].refined = "no" THEN Leave(m) ELSE goOn("undo")
           \/ /\ UNCHANGED <<geo, sweeping, locked, ready, unread>>
              /\ IF run[m].refined = "no" THEN Leave(m) ELSE goOn("undo")
        /\ UNCHANGED <<trace, deferred>> /\ Rest

UndoMove(m) ==
    /\ Running(m, "undo")
    /\ Restore(m) /\ Leave(m)
    /\ UNCHANGED <<locked, ready, unread, trace, deferred>> /\ Rest

\* Mutant: what is left for later is the scan the lock was made on.
Defer_Current(m) ==
    /\ Running(m, "defer")
    /\ deferred' = run[m].at
    /\ Leave(m)
    /\ UNCHANGED <<geo, locked, board>> /\ Rest

\* The operator's geometry is left for the next start of the sweep.
Defer(m) ==
    /\ Running(m, "defer")
    /\ deferred' = run[m].start
    /\ Leave(m)
    /\ UNCHANGED <<geo, locked, board>> /\ Rest

Move(m) ==
    \/ Begin(m)  \/ Detect(m) \/ Plan(m) \/ Settle(m) \/ CountFrame(m)
    \/ NoFrame(m) \/ Look(m) \/ Undo(m) \/ MoveAndLock(m) \/ UndoMove(m)
    \/ Defer(m)

-----------------------------------------------------------------------------
(* Operators, the controller's own stop_lock, and the connection.          *)

\* set_param on sweep_center or sweep_amplitude: one axis at a time.
SetParam ==
    /\ connected
    /\ \E g \in Geometries :
         /\ g # geo
         /\ g.center = geo.center \/ g.width = geo.width
         /\ Write(g) /\ opWidth' = g.width
    /\ deferred' = None
    /\ lost' = FALSE /\ crossed' = Moving
    /\ meddled' = Moving /\ doubt' = Moving
    /\ UNCHANGED <<locked, ready, unread, trace, connected, busy, pc, run>>

StartLock ==
    /\ connected /\ ~locked
    /\ Engage
    /\ UNCHANGED <<geo, sweeping, trace, connected, deferred, busy, pc, run, history>>

PendingScan == IF deferred = None THEN geo ELSE deferred

\* start_sweep, and stop_lock, which ends in the same two calls:
\* exposed_start_sweep and _apply_deferred_sweep_geometry.
StartSweep ==
    /\ connected
    /\ locked' = FALSE /\ deferred' = None
    /\ geo' = PendingScan
    /\ sweeping' = Mixed
    /\ crossed' = (crossed \/ \E m \in Movers : Running(m, "defer"))
    /\ meddled' = (meddled \/ (Moving /\ geo' # geo)) /\ doubt' = Moving
    /\ UNCHANGED <<ready, unread, trace, connected, busy, pc, run, opWidth, lost>>

\* _reset_connection_state, without _rpyc_lock and, once the drain of
\* _await_relock_action has timed out, in the middle of a move.  The next
\* connection reads to_plot again.
Disconnect ==
    /\ connected
    /\ connected' = FALSE /\ deferred' = None
    /\ lost' = (lost \/ deferred # None \/ Moving) /\ doubt' = Moving
    /\ UNCHANGED <<geo, locked, board, busy, pc, run, opWidth, crossed, meddled>>

Reconnect ==
    /\ ~connected
    /\ connected' = TRUE
    /\ UNCHANGED <<geo, locked, board, deferred, busy, pc, run, history>>

Next ==
    \/ \E m \in Movers : Move(m)
    \/ BoardSweep \/ PollNew \/ PollAgain
    \/ SetParam \/ StartLock \/ StartSweep
    \/ Disconnect \/ Reconnect

Spec == Init /\ [][Next]_vars

\* A started thread runs on.
FairSpec == Spec /\ \A m \in Movers : WF_vars(pc[m] # "idle" /\ Move(m))

-----------------------------------------------------------------------------
(* Properties, whatever the operators do meanwhile.                        *)

\* On one connection a mover about to lock finds the board on the scan its
\* target was detected on: the one its two final detections agreed on ("the
\* handover starts from the exact verified scan", session.py:3321-3322), or,
\* without a walk that succeeded, the scan it started from ("locking on the
\* direct detection at the original scan instead", session.py:3315-3318),
\* unless an operator wrote the geometry after the mover had settled on it.
\* An interleaved move would break this, and so would a walk that is not
\* undone.
LocksDetectedScan ==
    \A m \in Movers :
        (pc[m] = "move" /\ ~lost /\ ~meddled) =>
            geo = IF run[m].refined = "yes" THEN run[m].at ELSE run[m].start

\* A mover that is anywhere inside auto_lock_from_scan is the one that holds
\* the center.
MoverOwnsCenter == \A m \in Movers : pc[m] # "idle" => busy = m

\* A detection of a walk is made on a trace that was swept as a whole over the
\* geometry it is judged against.  The two frames it waits for see to it, but
\* for four cases: when the wait began, a frame from before the write was still
\* to be taken and the sweep that the write cut through was still running
\* (settle_ms too short); and, while it counted, an operator wrote the geometry
\* or started the sweep, one frame was read twice (a sweep slower than the 1 s
\* of _poll_loop), or the connection ended.
JudgesFreshTraces ==
    \A m \in Movers : pc[m] = "look" => trace = geo \/ doubt

\* What start_sweep will restore is the width the operator last chose: "the
\* operator's own geometry wins over a pending restore" (session.py:2487),
\* unless the choice, or a start of the sweep between the lock and the
\* deferral, fell into the middle of a move.
\* (A center moved by a lock that needed no walk is not given back.)
OperatorGeometryWins ==
    (deferred # None /\ ~lost /\ ~crossed) => deferred.width = opWidth

\* Whichever way the moves ended, the next start of the sweep leaves the board
\* on the width the operator chose: "so the free-running scan is not left
\* narrowed" (session.py:3339-3344), with the same exceptions.
ScanGivenBack ==
    (busy = None /\ ~lost /\ ~crossed) => PendingScan.width = opWidth

\* How much of a walk, and of a move, is left at a place with the locals r:
\* frames to count, waits to come, stages.
StagesToCome(r) == (MaxStages - r.stages) * (4 + 2 * FramesWanted)
Walk(r) == 7 + 3 * FramesWanted + StagesToCome(r)

Rank(place, r) ==
    LET coming == FramesWanted - r.seen
    IN  CASE place \in {"undo", "defer"} -> 1
          [] place = "move"   -> 2
          [] place = "abort"  -> 3
          [] place = "plan"   -> Walk(r)
          [] place = "detect" -> Walk(r) + 1
          [] place = "settle" -> Walk(r) + 3 + 2 * FramesWanted
          [] place \in {"wait", "look"} /\ r.aim = "final2" -> 4 + coming
          [] place \in {"wait", "look"} /\ r.aim = "retry"  -> 5 + FramesWanted + coming
          [] place \in {"wait", "look"} /\ r.aim = "final1" -> 6 + 2 * FramesWanted + coming
          [] place \in {"wait", "look"} /\ r.aim = "coarse" -> Walk(r) + 1 + coming
          [] place \in {"wait", "look"} /\ r.aim = "strict" ->
               Walk(r) + 2 + FramesWanted + coming
          [] OTHER -> 0

\* Every step of a mover brings its move nearer to its end, and nobody else
\* throws it back: the stages are counted, the first final detection is retried
\* once, a stage is judged twice at most, and every wait has a timeout.
MovesAdvance ==
    [][\A m \in Movers : pc[m] # "idle" =>
          /\ Rank(pc'[m], run'[m]) <= Rank(pc[m], run[m])
          /\ Move(m) => Rank(pc'[m], run'[m]) < Rank(pc[m], run[m])]_vars

\* So a move ends, as long as its thread runs.
MovesEnd == \A m \in Movers : pc[m] # "idle" ~> pc[m] = "idle"

-----------------------------------------------------------------------------
(* Claims of the source that its other callers, or its settings, break.    *)

\* "The second frame cannot have been acquired before the first was processed,
\* so it post-dates the move for real" (session.py:2565-2567), however fast
\* the board sweeps and however short settle_ms is.
SecondFramePostDatesMove == \A m \in Movers : pc[m] = "look" => trace = geo

\* "The operator's own geometry wins over a pending restore"
\* (session.py:2487), whenever it was chosen.
OperatorAlwaysWins ==
    (deferred # None /\ ~lost) => deferred.width = opWidth

\* "while locked, sweep_center is the lock's operating point, and writing the
\* old center then would drag the laser off the feature"
\* (session.py:280-281): no mover writes the geometry of a locked board.
LockedPointUntouched ==
    [][(locked /\ locked' /\ \E m \in Movers : Move(m)) => geo' = geo]_vars

\* "Capture one fresh trace and detect it against its read-back geometry ...
\* no target from a previous scan window is ever carried into the next stage"
\* (session.py:2770-2775): also for the first detection, which may lock.
DetectsOnOwnGeometry ==
    [][\A m \in Movers :
          (pc[m] = "detect" /\ pc'[m] \in {"plan", "move"}) => trace = geo]_vars
=============================================================================
