----------------------------- MODULE AutoRelock -----------------------------
(***************************************************************************)
(* The auto-relock controller of one device session                        *)
(* (linien-gateway/app/auto_relock.py, AutoRelockController) together with *)
(* the two threads that drive it (session.py):                             *)
(*   - the poll thread, which calls tick() once per plot frame and runs    *)
(*     the "sweep" action (stop_lock) itself, synchronously;               *)
(*   - the relock worker, at most one, which runs auto_lock_from_scan and  *)
(*     reports through complete_action("relock", ...).                     *)
(* Operators reconfigure the controller from request threads at any time.  *)
(*                                                                         *)
(* Time.  The code stores the moments lost_since, wait_since, ... and      *)
(* compares now - moment with a threshold.  Here each timer holds that     *)
(* difference, in clock units, saturating at TimeCap, which is no smaller  *)
(* than any threshold; cooldownLeft is cooldown_until - now.  Each call    *)
(* reads the clock once, so a call is instantaneous and Elapse moves time. *)
(***************************************************************************)
EXTENDS Integers

CONSTANTS
    Settings,   \* the AutoRelockConfig values operators may set
    Second,     \* clock units per second (the 1.0 of the verify limit)
    TimeCap,    \* bound on every timer, at least every threshold
    MaxAttempts, \* the largest max_attempts among Settings
    None        \* Python's None

Max2(a, b) == IF a >= b THEN a ELSE b

\* tick(): max(1.0, verify_hold_s * 2.0)
VerifyLimit(c) == Max2(Second, 2 * c.verifyHold)

\* from_mapping clamps every hold above zero, the cooldown to at least zero
\* and the budget to at least one attempt.
SettingsOK(c) ==
    /\ c.enabled \in BOOLEAN
    /\ c.triggerHold \in 1..TimeCap
    /\ c.verifyHold \in 1..TimeCap
    /\ VerifyLimit(c) \in 1..TimeCap
    /\ c.cooldown \in 0..TimeCap
    /\ c.traceTimeout \in 1..TimeCap
    /\ c.maxAttempts \in 1..MaxAttempts

ASSUME NoneAssumption == None \notin Nat /\ None \notin {"sweep", "relock"}

ASSUME SettingsAssumption ==
    /\ TimeCap \in Nat
    /\ MaxAttempts \in Nat
    /\ Second \in Nat \ {0}
    /\ \A c \in Settings : SettingsOK(c)

VARIABLES
    \* AutoRelockController
    config, state, lostFor, waitFor, verifyFor, goodFor, cooldownLeft,
    primed, pending, attempts,
    failed,       \* _last_error is not None
    \* the driver in session.py
    traceFresh,   \* plot_state.last_unlocked_trace_at >= _wait_since
    poll,         \* the poll thread: between frames, or inside stop_lock
    worker,       \* the relock worker, holder of _relock_action_lock
    \* history, read only by the properties
    lossRun,      \* age of the unbroken run of "lost" frames, or None
    goodRun,      \* age of the unbroken run of healthy frames, or None
    restOwed,     \* what is left of the cooldown the last episode earned
    orphan,       \* the running worker's attempt was cancelled or replaced
    disturbed     \* the controller was disabled, or the device reconnected,
                  \* while the worker ran

timers  == <<lostFor, waitFor, verifyFor, goodFor>>
ctlVars == <<config, state, timers, cooldownLeft, primed, pending, attempts, failed>>
runs    == <<lossRun, goodRun>>
vars    == <<ctlVars, traceFresh, poll, worker, runs, restOwed, orphan, disturbed>>

States == {"idle", "lost_pending", "waiting_unlocked_trace", "verifying", "cooldown"}
\* A frame: sweeping; locked and, for LockIndicatorEvaluator.update, lost;
\* locked and not lost.
Frames == {"unlocked", "lost", "good"}
Age    == 0..TimeCap
Older(t) == IF t = None \/ t = TimeCap THEN t ELSE t + 1
Sooner(t) == IF t = None \/ t = 0 THEN t ELSE t - 1
Reached(t, threshold) == t # None /\ t >= threshold

Init ==
    /\ config \in Settings
    /\ state = "idle"
    /\ lostFor = None /\ waitFor = None /\ verifyFor = None /\ goodFor = None
    /\ cooldownLeft = None
    /\ primed = FALSE /\ pending = None /\ attempts = 0 /\ failed = FALSE
    /\ traceFresh = FALSE /\ poll = "ready" /\ worker = "none"
    /\ lossRun = None /\ goodRun = None /\ restOwed = 0
    /\ orphan = FALSE /\ disturbed = FALSE

-----------------------------------------------------------------------------
(* Helpers of the controller: each fixes every controller variable but     *)
(* config, and failed where the caller decides it.                         *)

ResetTransient ==
    /\ lostFor' = None /\ waitFor' = None /\ verifyFor' = None /\ goodFor' = None
    /\ primed' = FALSE
    /\ pending' = None

\* Mutant: the state changes but the deadline is not set.
EnterCooldown_NoDeadline ==
    /\ ResetTransient
    /\ attempts' = 0
    /\ restOwed' = config.cooldown
    /\ cooldownLeft' = None
    /\ state' = IF config.cooldown > 0 THEN "cooldown" ELSE "idle"

EnterCooldown ==
    /\ ResetTransient
    /\ attempts' = 0
    /\ restOwed' = config.cooldown
    /\ IF config.cooldown > 0
         THEN cooldownLeft' = config.cooldown /\ state' = "cooldown"
         ELSE cooldownLeft' = None /\ state' = "idle"

\* Mutant: the failure does not prime the retry.
RecordFailure_NotPrimed(keep) ==
    /\ failed' = TRUE
    /\ \/ /\ attempts >= config.maxAttempts
          /\ EnterCooldown
       \/ /\ attempts < config.maxAttempts
          /\ state' = "lost_pending"
          /\ lostFor' = config.triggerHold
          /\ waitFor' = None /\ verifyFor' = None /\ goodFor' = None
          /\ pending' = keep
          /\ UNCHANGED <<attempts, cooldownLeft, restOwed, primed>>

\* _record_failure; keep is the pending action it finds and, unless the
\* budget is spent, leaves in place.
RecordFailure(keep) ==
    /\ failed' = TRUE
    /\ \/ /\ attempts >= config.maxAttempts
          /\ EnterCooldown
       \/ /\ attempts < config.maxAttempts
          /\ state' = "lost_pending"
          /\ primed' = TRUE
          /\ lostFor' = config.triggerHold
          /\ waitFor' = None /\ verifyFor' = None /\ goodFor' = None
          /\ pending' = keep
          /\ UNCHANGED <<attempts, cooldownLeft, restOwed>>

\* _begin_attempt, then the poll thread enters stop_lock with the "sweep".
BeginAttempt ==
    \/ /\ attempts >= config.maxAttempts
       /\ RecordFailure(pending)
       /\ UNCHANGED poll
    \/ /\ attempts < config.maxAttempts
       /\ attempts' = attempts + 1
       /\ pending' = "sweep"
       /\ poll' = "sweeping"
       /\ primed' = FALSE
       /\ UNCHANGED <<state, timers, cooldownLeft, failed, restOwed>>

-----------------------------------------------------------------------------
(* tick(): its early returns, in the order of the code.                    *)

Cooling == cooldownLeft # None /\ cooldownLeft > 0
Live    == config.enabled /\ ~Cooling
\* The state after "if self._state == cooldown" has turned it back to idle.
Awake   == IF state = "cooldown" THEN "idle" ELSE state

TickDisabled ==
    /\ ~config.enabled
    /\ state' = "idle" /\ attempts' = 0 /\ cooldownLeft' = None /\ failed' = FALSE
    /\ ResetTransient
    /\ restOwed' = 0
    /\ UNCHANGED <<poll, worker>>

TickCooling ==
    /\ config.enabled
    /\ Cooling
    /\ state' = "cooldown"
    /\ UNCHANGED <<timers, cooldownLeft, primed, pending, attempts, failed,
                   poll, worker, restOwed>>

\* A fresh unlocked trace: tick() answers "relock" on every frame until the
\* result arrives; _maybe_dispatch_relock_action drops the duplicates.
TickTraceSeen(fresh) ==
    /\ Live
    /\ state = "waiting_unlocked_trace"
    /\ fresh
    /\ pending' = "relock"
    /\ worker' = "running"
    /\ UNCHANGED <<state, timers, cooldownLeft, primed, attempts, failed,
                   poll, restOwed>>

\* Mutant: the timeout is tested although a fresh trace has been seen.
TickTraceMissing_TimeoutFirst(fresh) ==
    /\ Live
    /\ state = "waiting_unlocked_trace"
    /\ UNCHANGED <<poll, worker>>
    /\ Reached(waitFor, config.traceTimeout)
    /\ RecordFailure(pending)

TickTraceMissing(fresh) ==
    /\ Live
    /\ state = "waiting_unlocked_trace"
    /\ ~fresh
    /\ UNCHANGED <<poll, worker>>
    /\ \/ /\ Reached(waitFor, config.traceTimeout)
          /\ RecordFailure(pending)
       \/ /\ ~Reached(waitFor, config.traceTimeout)
          /\ UNCHANGED <<state, timers, cooldownLeft, primed, pending, attempts,
                         failed, restOwed>>

TickVerifyGood(kind) ==
    /\ Live
    /\ state = "verifying"
    /\ kind = "good"
    /\ LET good == IF goodFor = None THEN 0 ELSE goodFor IN
       \/ /\ good >= config.verifyHold
          /\ failed' = FALSE
          /\ EnterCooldown
       \/ /\ good < config.verifyHold
          /\ goodFor' = good
          /\ UNCHANGED <<state, lostFor, waitFor, verifyFor, cooldownLeft,
                         primed, pending, attempts, failed, restOwed>>
    /\ UNCHANGED <<poll, worker>>

\* Mutant: verifying has no limit.
TickVerifyBad_NoLimit(kind) ==
    /\ Live
    /\ state = "verifying"
    /\ kind # "good"
    /\ goodFor' = None
    /\ UNCHANGED <<state, lostFor, waitFor, verifyFor, cooldownLeft,
                   primed, pending, attempts, failed, restOwed, poll, worker>>

TickVerifyBad(kind) ==
    /\ Live
    /\ state = "verifying"
    /\ kind # "good"
    /\ \/ /\ Reached(verifyFor, VerifyLimit(config))
          /\ RecordFailure(pending)
       \/ /\ ~Reached(verifyFor, VerifyLimit(config))
          /\ goodFor' = None
          /\ UNCHANGED <<state, lostFor, waitFor, verifyFor, cooldownLeft,
                         primed, pending, attempts, failed, restOwed>>
    /\ UNCHANGED <<poll, worker>>

TickRetry ==
    /\ Live
    /\ state = "lost_pending" /\ primed
    /\ \/ /\ lostFor = None \/ Reached(lostFor, config.triggerHold)
          /\ BeginAttempt
       \/ /\ lostFor # None /\ ~Reached(lostFor, config.triggerHold)
          /\ UNCHANGED <<state, timers, cooldownLeft, primed, pending, attempts,
                         failed, poll, restOwed>>
    /\ UNCHANGED worker

\* cooldownLeft after the fall-through of an elapsed cooldown
CooldownCleared == IF state = "cooldown" THEN None ELSE cooldownLeft

Watching == Live /\ Awake \in {"idle", "lost_pending"} /\ ~(Awake = "lost_pending" /\ primed)

TickLost(kind) ==
    /\ Watching
    /\ kind = "lost"
    /\ UNCHANGED worker
    /\ \/ /\ ~Reached(lostFor, config.triggerHold)
          /\ lostFor' = IF lostFor = None THEN 0 ELSE lostFor
          /\ state' = "lost_pending"
          /\ cooldownLeft' = CooldownCleared
          /\ UNCHANGED <<waitFor, verifyFor, goodFor, primed, pending, attempts,
                         failed, poll, restOwed>>
       \/ /\ Reached(lostFor, config.triggerHold)
          /\ BeginAttempt

TickNotLost(kind) ==
    /\ Watching
    /\ kind # "lost"
    /\ lostFor' = None
    /\ state' = "idle"
    /\ cooldownLeft' = CooldownCleared
    /\ UNCHANGED <<waitFor, verifyFor, goodFor, primed, pending, attempts, failed,
                   poll, worker, restOwed>>

Tick(kind, fresh) ==
    \/ TickDisabled
    \/ TickCooling
    \/ TickTraceSeen(fresh)
    \/ TickTraceMissing(fresh)
    \/ TickVerifyGood(kind)
    \/ TickVerifyBad(kind)
    \/ TickRetry
    \/ TickLost(kind)
    \/ TickNotLost(kind)

-----------------------------------------------------------------------------
(* The driver.                                                             *)

\* Whether the relock a running worker was sent for is no longer pending.
Orphaned ==
    orphan' = IF worker' = "none" \/ worker = "none" THEN FALSE
              ELSE orphan \/ (pending = "relock" /\ pending' # "relock")

Extend(run, seen) == IF ~seen THEN None ELSE IF run = None THEN 0 ELSE run

\* _on_to_plot: build_plot_frame stamps an unlocked trace, then tick() runs,
\* both under _state_lock.  The poll thread is busy while it sweeps.
Frame(kind) ==
    /\ poll = "ready"
    /\ traceFresh' = (traceFresh \/ kind = "unlocked")
    /\ lossRun' = Extend(lossRun, kind = "lost")
    /\ goodRun' = Extend(goodRun, kind = "good")
    /\ Tick(kind, traceFresh \/ kind = "unlocked")
    /\ Orphaned
    /\ UNCHANGED <<config, disturbed>>

\* The same frame when the worker thread cannot be started: the claim on
\* _relock_action_lock is given back and the frame ends in an exception.
DispatchFails(kind) ==
    /\ poll = "ready"
    /\ worker = "none"
    /\ Live
    /\ state = "waiting_unlocked_trace"
    /\ traceFresh \/ kind = "unlocked"
    /\ traceFresh' = TRUE
    /\ lossRun' = Extend(lossRun, kind = "lost")
    /\ goodRun' = Extend(goodRun, kind = "good")
    /\ pending' = "relock"
    /\ UNCHANGED <<config, state, timers, cooldownLeft, primed, attempts, failed,
                   poll, worker, restOwed, orphan, disturbed>>

\* stop_lock returned or raised, and complete_action("sweep", ok) follows.
SweepDone(ok) ==
    /\ poll = "sweeping"
    /\ poll' = "ready"
    /\ \/ /\ pending = "sweep"
          /\ ok
          /\ pending' = None
          /\ waitFor' = 0
          /\ traceFresh' = FALSE
          /\ state' = "waiting_unlocked_trace"
          /\ UNCHANGED <<lostFor, verifyFor, goodFor, cooldownLeft, primed,
                         attempts, failed, restOwed>>
       \/ /\ pending = "sweep"
          /\ ~ok
          /\ RecordFailure(None)
          /\ UNCHANGED traceFresh
       \/ /\ pending # "sweep"
          /\ UNCHANGED <<state, timers, cooldownLeft, primed, pending, attempts,
                         failed, traceFresh, restOwed>>
    /\ UNCHANGED <<config, worker, runs, orphan, disturbed>>

\* Mutant: the result is applied whatever is pending by now.
RelockDone_Unmatched(ok) ==
    /\ worker = "running"
    /\ worker' = "none"
    /\ \/ /\ ok
          /\ pending' = None
          /\ waitFor' = None /\ verifyFor' = 0 /\ goodFor' = None
          /\ state' = "verifying"
          /\ UNCHANGED <<lostFor, cooldownLeft, primed, attempts, failed, restOwed>>
       \/ /\ ~ok
          /\ RecordFailure(None)
    /\ Orphaned /\ disturbed' = FALSE
    /\ UNCHANGED <<config, traceFresh, poll, runs>>

\* The worker applies its result, then releases _relock_action_lock.
RelockDone(ok) ==
    /\ worker = "running"
    /\ worker' = "none"
    /\ \/ /\ pending = "relock"
          /\ ok
          /\ pending' = None
          /\ waitFor' = None /\ verifyFor' = 0 /\ goodFor' = None
          /\ state' = "verifying"
          /\ UNCHANGED <<lostFor, cooldownLeft, primed, attempts, failed, restOwed>>
       \/ /\ pending = "relock"
          /\ ~ok
          /\ RecordFailure(None)
       \/ /\ pending # "relock"
          /\ UNCHANGED <<state, timers, cooldownLeft, primed, pending, attempts,
                         failed, restOwed>>
    /\ Orphaned /\ disturbed' = FALSE
    /\ UNCHANGED <<config, traceFresh, poll, runs>>

\* set_config / set_enabled, under _state_lock, from a request thread.
SetConfig(c) ==
    /\ config' = c
    /\ \/ /\ ~c.enabled
          /\ state' = "idle" /\ attempts' = 0 /\ cooldownLeft' = None /\ failed' = FALSE
          /\ ResetTransient
          /\ restOwed' = 0
       \/ /\ c.enabled
          /\ UNCHANGED <<state, timers, cooldownLeft, primed, pending, attempts,
                         failed, restOwed>>
    /\ UNCHANGED <<traceFresh, poll, worker, runs>>
    /\ Orphaned
    /\ disturbed' = (disturbed \/ (worker = "running" /\ ~c.enabled))

\* connect() starts a fresh PlotState: no unlocked trace has been seen.
NewPlotState ==
    /\ traceFresh' = FALSE
    /\ disturbed' = (disturbed \/ worker = "running")
    /\ UNCHANGED <<ctlVars, poll, worker, runs, restOwed, orphan>>

Elapse ==
    /\ lostFor' = Older(lostFor) /\ waitFor' = Older(waitFor)
    /\ verifyFor' = Older(verifyFor) /\ goodFor' = Older(goodFor)
    /\ cooldownLeft' = Sooner(cooldownLeft)
    /\ lossRun' = Older(lossRun) /\ goodRun' = Older(goodRun)
    /\ restOwed' = Sooner(restOwed)
    /\ UNCHANGED <<config, state, primed, pending, attempts, failed,
                   traceFresh, poll, worker, orphan, disturbed>>

\* What frames, the device actions and time do
QuietNext ==
    \/ \E kind \in Frames : Frame(kind)
    \/ \E kind \in Frames : DispatchFails(kind)
    \/ \E ok \in BOOLEAN : SweepDone(ok)
    \/ \E ok \in BOOLEAN : RelockDone(ok)
    \/ Elapse

Next ==
    \/ QuietNext
    \/ \E c \in Settings : SetConfig(c)
    \/ NewPlotState

Spec == Init /\ [][Next]_vars

\* With operators switching the controller, on a connection that stays up
OperatorNext == QuietNext \/ \E c \in Settings : SetConfig(c)
OperatorSpec == Init /\ [][OperatorNext]_vars

\* Frames keep arriving and time passes; stop_lock and auto_lock_from_scan
\* return or raise.  Operators may do nothing.
Fairness ==
    /\ WF_vars(\E kind \in Frames : Frame(kind))
    /\ WF_vars(\E ok \in BOOLEAN : SweepDone(ok))
    /\ WF_vars(\E ok \in BOOLEAN : RelockDone(ok))
    /\ WF_vars(Elapse)

FairSpec == Spec /\ Fairness

-----------------------------------------------------------------------------
(* Properties.                                                             *)

ControllerTypeOK ==
    /\ config \in Settings
    /\ state \in States
    /\ pending \in {None, "sweep", "relock"}
    /\ attempts \in 0..MaxAttempts
    /\ primed \in BOOLEAN /\ failed \in BOOLEAN

TimersTypeOK ==
    /\ lostFor \in Age \cup {None} /\ waitFor \in Age \cup {None}
    /\ verifyFor \in Age \cup {None} /\ goodFor \in Age \cup {None}
    /\ cooldownLeft \in Age \cup {None}

DriverTypeOK ==
    /\ traceFresh \in BOOLEAN
    /\ poll \in {"ready", "sweeping"}
    /\ worker \in {"none", "running"}

HistoryTypeOK ==
    /\ lossRun \in Age \cup {None} /\ goodRun \in Age \cup {None}
    /\ restOwed \in Age /\ orphan \in BOOLEAN /\ disturbed \in BOOLEAN

\* Type invariant of the controller, its driver and the history variables;
\* the budget of every setting bounds the attempts.
TypeOK == ControllerTypeOK /\ TimersTypeOK /\ DriverTypeOK /\ HistoryTypeOK

\* A failed attempt is always either retried or closed by a cooldown: the
\* controller never sits in lost_pending with attempts spent and nothing that
\* will fire the retry (the defect "#10" the comment in tick() describes).
RetryNeverLost ==
    state = "lost_pending" /\ attempts > 0 /\ pending # "sweep" => primed

\* An episode's bookkeeping is gone once the controller is idle or cooling
\* down: no spent attempts to shorten the next episode's budget, no primed
\* retry that would sweep a healthy lock, no action whose late result could
\* restart the closed episode.
ClosedEpisodeLeavesNothing ==
    state \in {"idle", "cooldown"} =>
        /\ attempts = 0 /\ ~primed /\ pending = None
        /\ waitFor = None /\ verifyFor = None /\ lostFor = None

\* The states that wait for something have the timer that ends the wait, and
\* a sweep is pending only while the poll thread performs it in lost_pending.
WaitsAreTimed ==
    /\ state = "waiting_unlocked_trace" => waitFor # None
    /\ state = "verifying" => verifyFor # None
    /\ pending = "sweep" => poll = "sweeping" /\ state = "lost_pending"

\* An episode starts only after every frame of a whole trigger hold showed a
\* lost lock: one good or unlocked frame in between restarts the hold, over
\* cooldowns, disabling and reconfiguration.
EpisodeNeedsSustainedLoss ==
    [][attempts = 0 /\ attempts' > 0 => Reached(lossRun', config.triggerHold)]_vars

\* A relock is declared a success only when the frames since it finished have
\* been healthy without a break for the whole verify hold.
SuccessNeedsSustainedLock ==
    [][state = "verifying" /\ state' \in {"idle", "cooldown"} /\ ~failed' /\ config'.enabled
        => Reached(goodRun', config.verifyHold) /\ Reached(verifyFor, config.verifyHold)]_vars

\* After an episode has closed, no sweep and no relock is started before the
\* cooldown it earned has passed; only disabling the controller forgives it.
RestIsHonoured ==
    [][(poll = "ready" /\ poll' = "sweeping") \/ (worker = "none" /\ worker' = "running")
        => restOwed = 0]_vars

\* The poll thread never stops the lock while a relock worker drives the sweep
\* center: the two device actions of an attempt exclude each other, whatever
\* the frames show and whatever thresholds an operator sets.  Only a worker
\* whose attempt was taken from it, by disabling the controller or by a
\* reconnect that forgets the trace the attempt was waiting for, may still be
\* under way when a later attempt sweeps.
NoSweepDuringRelock == poll = "sweeping" /\ worker = "running" => disturbed

\* complete_action's docstring: once the controller has moved on, the result
\* of the cancelled attempt is ignored "so it can't resurrect a cancelled
\* attempt".  The worker's result, when its attempt was cancelled or replaced,
\* changes nothing in the controller.
StaleResultIgnored ==
    [][worker = "running" /\ worker' = "none" /\ orphan => UNCHANGED ctlVars]_vars

-----------------------------------------------------------------------------
(* What links the timers of the controller to what the frames really       *)
(* showed, and the pending action to the state; with the invariants above  *)
(* it is inductive, which the proofs use.                                  *)

NothingSpent ==
    attempts = 0 =>
        state \in {"idle", "lost_pending", "cooldown"} /\ pending = None /\ ~primed

LostPendingShape ==
    state = "lost_pending" =>
        /\ waitFor = None /\ verifyFor = None
        /\ pending = "relock" => primed

CoolingMeansCooldown == cooldownLeft # None => state = "cooldown"

DisabledMeansIdle == ~config.enabled => state = "idle"

\* The trigger hold never runs ahead of the loss the frames have shown.
HoldIsBacked ==
    state = "lost_pending" /\ attempts = 0 /\ lostFor # None =>
        lossRun # None /\ lossRun >= lostFor

\* The verify hold never runs ahead of the health shown since the relock.
VerifyIsBacked ==
    state = "verifying" /\ goodFor # None =>
        goodRun # None /\ goodRun >= goodFor /\ verifyFor >= goodFor

RestIsTimed == restOwed > 0 => cooldownLeft # None /\ cooldownLeft >= restOwed

\* The bookkeeping of the controller is consistent with what the frames and
\* the operators did: no hold, rest or pending action is ahead of its cause.
Bookkeeping ==
    /\ NothingSpent
    /\ LostPendingShape
    /\ CoolingMeansCooldown
    /\ DisabledMeansIdle
    /\ HoldIsBacked
    /\ VerifyIsBacked
    /\ RestIsTimed

-----------------------------------------------------------------------------
\* The refinement mapping to the abstract episode.
Phase ==
    CASE ~config.enabled -> "off"
      [] config.enabled /\ state = "cooldown" -> "resting"
      [] config.enabled /\ state # "cooldown" /\ attempts > 0 -> "attempting"
      [] OTHER -> "watching"

Episode == INSTANCE RelockEpisode WITH phase <- Phase, spent <- attempts

\* The controller, its threads and its operators implement the abstract
\* episode: attempts are only made one by one inside an episode, never beyond
\* the largest budget, and an episode only closes from an attempt.
ImplementsEpisode == Episode!Spec

\* Every relock episode ends: with frames arriving and actions returning, the
\* spent attempts are eventually cleared by a success, by an exhausted budget
\* or by disabling the controller, whatever the frames show.
EpisodeEnds == (attempts > 0) ~> (attempts = 0)

=============================================================================
