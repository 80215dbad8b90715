-------------------------- MODULE AutoRelockProofs --------------------------
(***************************************************************************)
(* Proofs about AutoRelock for every set of settings, every time scale and *)
(* every budget.                                                           *)
(***************************************************************************)
EXTENDS AutoRelock, TLAPS

\* The inductive invariant: the type, the three invariants of the runs and
\* the bookkeeping that makes them inductive.
IInv ==
    /\ TypeOK
    /\ RetryNeverLost
    /\ ClosedEpisodeLeavesNothing
    /\ WaitsAreTimed
    /\ Bookkeeping

USE DEF timers, runs, ctlVars

\* Zero, and every threshold of a setting, is an age; a setting's budget is
\* within MaxAttempts.
LEMMA Thresholds ==
    /\ 0 \in Age /\ 0 \in 0..MaxAttempts
    /\ \A c \in Settings :
         /\ c.triggerHold \in Age /\ c.cooldown \in Age
         /\ c.verifyHold \in Nat \ {0}
         /\ \A a \in 0..MaxAttempts :
              a < c.maxAttempts => a + 1 \in 0..MaxAttempts /\ a + 1 # 0 /\ a + 1 > 0
         /\ \A a \in 0..MaxAttempts : a >= c.maxAttempts => a # 0
BY SettingsAssumption DEF SettingsOK, Age

\* The clock keeps a timer an age, and keeps a timer that is behind another
\* behind it.
LEMMA ClockKeepsAges ==
    /\ \A t \in Age \cup {None} : Older(t) \in Age \cup {None} /\ Sooner(t) \in Age \cup {None}
    /\ \A t \in Age : Older(t) \in Age /\ Sooner(t) \in Age
    /\ \A t \in Age \cup {None} : (Older(t) = None <=> t = None) /\ (Sooner(t) = None <=> t = None)
    /\ \A s, t \in Age : s >= t => Older(s) >= Older(t) /\ Sooner(s) >= Sooner(t)
    /\ \A t \in Age : Sooner(t) > 0 => t > 0
BY SettingsAssumption, NoneAssumption DEF Age, Older, Sooner

\* The initial states satisfy the inductive invariant.
LEMMA InitIInv == Init => IInv
<1> SUFFICES ASSUME Init PROVE IInv
  OBVIOUS
<1>1. TypeOK
  BY Thresholds DEF Init, TypeOK, ControllerTypeOK, TimersTypeOK, DriverTypeOK,
     HistoryTypeOK,
     ControllerTypeOK, TimersTypeOK, DriverTypeOK, HistoryTypeOK, States
<1>2. RetryNeverLost /\ ClosedEpisodeLeavesNothing /\ WaitsAreTimed
  BY <1>1, NoneAssumption DEF Init, TypeOK, ControllerTypeOK, TimersTypeOK, DriverTypeOK,
     HistoryTypeOK,
     RetryNeverLost, ClosedEpisodeLeavesNothing,
     WaitsAreTimed
<1>3. Bookkeeping
  BY <1>1, NoneAssumption DEF Init, TypeOK, ControllerTypeOK, TimersTypeOK, DriverTypeOK,
     HistoryTypeOK,
     Bookkeeping, NothingSpent, LostPendingShape,
     CoolingMeansCooldown, DisabledMeansIdle, HoldIsBacked, VerifyIsBacked, RestIsTimed
<1> QED
  BY <1>1, <1>2, <1>3 DEF IInv

\* A frame of a disabled controller resets it, which keeps the invariant.
LEMMA TickDisabledKeeps ==
  ASSUME IInv, NEW kind \in Frames, Frame(kind),
         TickDisabled
  PROVE  IInv'
<1> USE Thresholds, NoneAssumption DEF Frame, TickDisabled, ResetTransient
<1>1. TypeOK'
  <2>1. ControllerTypeOK'
    BY DEF IInv, TypeOK, ControllerTypeOK, TimersTypeOK, DriverTypeOK, HistoryTypeOK, States
  <2>2. TimersTypeOK'
    BY DEF IInv, TypeOK, ControllerTypeOK, TimersTypeOK, DriverTypeOK, HistoryTypeOK, States
  <2>3. DriverTypeOK'
    BY DEF IInv, TypeOK, ControllerTypeOK, TimersTypeOK, DriverTypeOK, HistoryTypeOK, States
  <2>4. HistoryTypeOK'
    BY DEF IInv, TypeOK, ControllerTypeOK, TimersTypeOK, DriverTypeOK, HistoryTypeOK,
       States, Extend, Orphaned, Frames
  <2> QED
    BY <2>1, <2>2, <2>3, <2>4 DEF TypeOK
<1>2. RetryNeverLost' /\ ClosedEpisodeLeavesNothing' /\ WaitsAreTimed'
  BY <1>1 DEF IInv, TypeOK, ControllerTypeOK, TimersTypeOK, DriverTypeOK, HistoryTypeOK,
     States, Bookkeeping, NothingSpent, LostPendingShape,
         CoolingMeansCooldown, RetryNeverLost, ClosedEpisodeLeavesNothing, WaitsAreTimed
<1>3. Bookkeeping'
  BY <1>1 DEF IInv, TypeOK, ControllerTypeOK, TimersTypeOK, DriverTypeOK, HistoryTypeOK,
     States, Age, Frames, Extend, RetryNeverLost, ClosedEpisodeLeavesNothing,
     WaitsAreTimed, Bookkeeping, NothingSpent, LostPendingShape,
         CoolingMeansCooldown, DisabledMeansIdle, HoldIsBacked, VerifyIsBacked, RestIsTimed
<1> QED
  BY <1>1, <1>2, <1>3 DEF IInv

\* A frame during the cooldown, ended or not, keeps the invariant.
LEMMA TickCoolingKeeps ==
  ASSUME IInv, NEW kind \in Frames, Frame(kind),
         TickCooling
  PROVE  IInv'
<1> USE Thresholds, NoneAssumption DEF Frame, TickCooling, Cooling
<1>1. TypeOK'
  <2>1. ControllerTypeOK'
    BY DEF IInv, TypeOK, ControllerTypeOK, TimersTypeOK, DriverTypeOK, HistoryTypeOK, States
  <2>2. TimersTypeOK'
    BY DEF IInv, TypeOK, ControllerTypeOK, TimersTypeOK, DriverTypeOK, HistoryTypeOK, States
  <2>3. DriverTypeOK'
    BY DEF IInv, TypeOK, ControllerTypeOK, TimersTypeOK, DriverTypeOK, HistoryTypeOK, States
  <2>4. HistoryTypeOK'
    BY DEF IInv, TypeOK, ControllerTypeOK, TimersTypeOK, DriverTypeOK, HistoryTypeOK,
       States, Extend, Orphaned, Frames
  <2> QED
    BY <2>1, <2>2, <2>3, <2>4 DEF TypeOK
<1>2. RetryNeverLost' /\ ClosedEpisodeLeavesNothing' /\ WaitsAreTimed'
  BY <1>1 DEF IInv, TypeOK, ControllerTypeOK, TimersTypeOK, DriverTypeOK, HistoryTypeOK,
     States, Bookkeeping, NothingSpent, LostPendingShape,
         CoolingMeansCooldown, RetryNeverLost, ClosedEpisodeLeavesNothing, WaitsAreTimed
<1>3. Bookkeeping'
  BY <1>1 DEF IInv, TypeOK, ControllerTypeOK, TimersTypeOK, DriverTypeOK, HistoryTypeOK,
     States, Age, Frames, Extend, RetryNeverLost, ClosedEpisodeLeavesNothing,
     WaitsAreTimed, Bookkeeping, NothingSpent, LostPendingShape,
         CoolingMeansCooldown, DisabledMeansIdle, HoldIsBacked, VerifyIsBacked, RestIsTimed
<1> QED
  BY <1>1, <1>2, <1>3 DEF IInv

\* A frame with a fresh unlocked trace, which dispatches the relock, keeps
\* the invariant.
LEMMA TickTraceSeenKeeps ==
  ASSUME IInv, NEW kind \in Frames, Frame(kind),
         TickTraceSeen(traceFresh \/ kind = "unlocked")
  PROVE  IInv'
<1> USE Thresholds, NoneAssumption DEF Frame, TickTraceSeen, Live, Cooling
<1>1. TypeOK'
  <2>1. ControllerTypeOK'
    BY DEF IInv, TypeOK, ControllerTypeOK, TimersTypeOK, DriverTypeOK, HistoryTypeOK, States
  <2>2. TimersTypeOK'
    BY DEF IInv, TypeOK, ControllerTypeOK, TimersTypeOK, DriverTypeOK, HistoryTypeOK, States
  <2>3. DriverTypeOK'
    BY DEF IInv, TypeOK, ControllerTypeOK, TimersTypeOK, DriverTypeOK, HistoryTypeOK, States
  <2>4. HistoryTypeOK'
    BY DEF IInv, TypeOK, ControllerTypeOK, TimersTypeOK, DriverTypeOK, HistoryTypeOK,
       States, Extend, Orphaned, Frames
  <2> QED
    BY <2>1, <2>2, <2>3, <2>4 DEF TypeOK
<1>2. RetryNeverLost' /\ ClosedEpisodeLeavesNothing' /\ WaitsAreTimed'
  BY <1>1 DEF IInv, TypeOK, ControllerTypeOK, TimersTypeOK, DriverTypeOK, HistoryTypeOK,
     States, Bookkeeping, NothingSpent, LostPendingShape,
         CoolingMeansCooldown, RetryNeverLost, ClosedEpisodeLeavesNothing, WaitsAreTimed
<1>3. Bookkeeping'
  BY <1>1 DEF IInv, TypeOK, ControllerTypeOK, TimersTypeOK, DriverTypeOK, HistoryTypeOK,
     States, Age, Frames, Extend, RetryNeverLost, ClosedEpisodeLeavesNothing,
     WaitsAreTimed, Bookkeeping, NothingSpent, LostPendingShape,
         CoolingMeansCooldown, DisabledMeansIdle, HoldIsBacked, VerifyIsBacked, RestIsTimed
<1> QED
  BY <1>1, <1>2, <1>3 DEF IInv

\* A frame without a fresh unlocked trace, which waits on or times out, keeps
\* the invariant.
LEMMA TickTraceMissingKeeps ==
  ASSUME IInv, NEW kind \in Frames, Frame(kind),
         TickTraceMissing(traceFresh \/ kind = "unlocked")
  PROVE  IInv'
<1> USE Thresholds, NoneAssumption DEF Frame, TickTraceMissing, Live, Cooling, Reached,
   RecordFailure, EnterCooldown, ResetTransient
<1>1. TypeOK'
  <2>1. ControllerTypeOK'
    BY DEF IInv, TypeOK, ControllerTypeOK, TimersTypeOK, DriverTypeOK, HistoryTypeOK, States
  <2>2. TimersTypeOK'
    BY DEF IInv, TypeOK, ControllerTypeOK, TimersTypeOK, DriverTypeOK, HistoryTypeOK, States
  <2>3. DriverTypeOK'
    BY DEF IInv, TypeOK, ControllerTypeOK, TimersTypeOK, DriverTypeOK, HistoryTypeOK, States
  <2>4. HistoryTypeOK'
    BY DEF IInv, TypeOK, ControllerTypeOK, TimersTypeOK, DriverTypeOK, HistoryTypeOK,
       States, Extend, Orphaned, Frames
  <2> QED
    BY <2>1, <2>2, <2>3, <2>4 DEF TypeOK
<1>2. RetryNeverLost' /\ ClosedEpisodeLeavesNothing' /\ WaitsAreTimed'
  BY <1>1 DEF IInv, TypeOK, ControllerTypeOK, TimersTypeOK, DriverTypeOK, HistoryTypeOK,
     States, Bookkeeping, NothingSpent, LostPendingShape,
         CoolingMeansCooldown, RetryNeverLost, ClosedEpisodeLeavesNothing, WaitsAreTimed
<1>3. Bookkeeping'
  BY <1>1 DEF IInv, TypeOK, ControllerTypeOK, TimersTypeOK, DriverTypeOK, HistoryTypeOK,
     States, Age, Frames, Extend, RetryNeverLost, ClosedEpisodeLeavesNothing,
     WaitsAreTimed, Bookkeeping, NothingSpent, LostPendingShape,
         CoolingMeansCooldown, DisabledMeansIdle, HoldIsBacked, VerifyIsBacked, RestIsTimed
<1> QED
  BY <1>1, <1>2, <1>3 DEF IInv

\* A healthy frame while a relock is verified keeps the invariant, whether it
\* starts, continues or completes the hold.
LEMMA TickVerifyGoodKeeps ==
  ASSUME IInv, NEW kind \in Frames, Frame(kind),
         TickVerifyGood(kind)
  PROVE  IInv'
<1> USE Thresholds, NoneAssumption DEF Frame, TickVerifyGood, Live, Cooling,
   EnterCooldown, ResetTransient
<1>1. TypeOK'
  <2>1. ControllerTypeOK'
    BY DEF IInv, TypeOK, ControllerTypeOK, TimersTypeOK, DriverTypeOK, HistoryTypeOK, States
  <2>2. TimersTypeOK'
    BY DEF IInv, TypeOK, ControllerTypeOK, TimersTypeOK, DriverTypeOK, HistoryTypeOK, States
  <2>3. DriverTypeOK'
    BY DEF IInv, TypeOK, ControllerTypeOK, TimersTypeOK, DriverTypeOK, HistoryTypeOK, States
  <2>4. HistoryTypeOK'
    BY DEF IInv, TypeOK, ControllerTypeOK, TimersTypeOK, DriverTypeOK, HistoryTypeOK,
       States, Extend, Orphaned, Frames
  <2> QED
    BY <2>1, <2>2, <2>3, <2>4 DEF TypeOK
<1>2. RetryNeverLost' /\ ClosedEpisodeLeavesNothing' /\ WaitsAreTimed'
  BY <1>1 DEF IInv, TypeOK, ControllerTypeOK, TimersTypeOK, DriverTypeOK, HistoryTypeOK,
     States, Bookkeeping, NothingSpent, LostPendingShape,
         CoolingMeansCooldown, RetryNeverLost, ClosedEpisodeLeavesNothing, WaitsAreTimed
<1>3. Bookkeeping'
  BY <1>1 DEF IInv, TypeOK, ControllerTypeOK, TimersTypeOK, DriverTypeOK, HistoryTypeOK,
     States, Age, Frames, Extend, RetryNeverLost, ClosedEpisodeLeavesNothing,
     WaitsAreTimed, Bookkeeping, NothingSpent, LostPendingShape,
         CoolingMeansCooldown, DisabledMeansIdle, HoldIsBacked, VerifyIsBacked, RestIsTimed
<1> QED
  BY <1>1, <1>2, <1>3 DEF IInv

\* An unhealthy frame while a relock is verified keeps the invariant: the
\* failure leaves a retry pending or closes the episode.
LEMMA TickVerifyBadKeeps ==
  ASSUME IInv, NEW kind \in Frames, Frame(kind),
         TickVerifyBad(kind)
  PROVE  IInv'
<1> USE Thresholds, NoneAssumption DEF Frame, TickVerifyBad, Live, Cooling, Reached,
   RecordFailure, EnterCooldown, ResetTransient
<1>1. TypeOK'
  <2>1. ControllerTypeOK'
    BY DEF IInv, TypeOK, ControllerTypeOK, TimersTypeOK, DriverTypeOK, HistoryTypeOK, States
  <2>2. TimersTypeOK'
    BY DEF IInv, TypeOK, ControllerTypeOK, TimersTypeOK, DriverTypeOK, HistoryTypeOK, States
  <2>3. DriverTypeOK'
    BY DEF IInv, TypeOK, ControllerTypeOK, TimersTypeOK, DriverTypeOK, HistoryTypeOK, States
  <2>4. HistoryTypeOK'
    BY DEF IInv, TypeOK, ControllerTypeOK, TimersTypeOK, DriverTypeOK, HistoryTypeOK,
       States, Extend, Orphaned, Frames
  <2> QED
    BY <2>1, <2>2, <2>3, <2>4 DEF TypeOK
<1>2. RetryNeverLost' /\ ClosedEpisodeLeavesNothing' /\ WaitsAreTimed'
  BY <1>1 DEF IInv, TypeOK, ControllerTypeOK, TimersTypeOK, DriverTypeOK, HistoryTypeOK,
     States, Bookkeeping, NothingSpent, LostPendingShape,
         CoolingMeansCooldown, RetryNeverLost, ClosedEpisodeLeavesNothing, WaitsAreTimed
<1>3. Bookkeeping'
  BY <1>1 DEF IInv, TypeOK, ControllerTypeOK, TimersTypeOK, DriverTypeOK, HistoryTypeOK,
     States, Age, Frames, Extend, RetryNeverLost, ClosedEpisodeLeavesNothing,
     WaitsAreTimed, Bookkeeping, NothingSpent, LostPendingShape,
         CoolingMeansCooldown, DisabledMeansIdle, HoldIsBacked, VerifyIsBacked, RestIsTimed
<1> QED
  BY <1>1, <1>2, <1>3 DEF IInv

\* A frame that finds a retry due keeps the invariant: the attempt it spends
\* is within the budget.
LEMMA TickRetryKeeps ==
  ASSUME IInv, NEW kind \in Frames, Frame(kind),
         TickRetry
  PROVE  IInv'
<1> USE Thresholds, NoneAssumption DEF Frame, TickRetry, Live, Cooling, Reached,
   BeginAttempt, RecordFailure, EnterCooldown, ResetTransient
<1>1. TypeOK'
  <2>1. ControllerTypeOK'
    BY DEF IInv, TypeOK, ControllerTypeOK, TimersTypeOK, DriverTypeOK, HistoryTypeOK, States
  <2>2. TimersTypeOK'
    BY DEF IInv, TypeOK, ControllerTypeOK, TimersTypeOK, DriverTypeOK, HistoryTypeOK, States
  <2>3. DriverTypeOK'
    BY DEF IInv, TypeOK, ControllerTypeOK, TimersTypeOK, DriverTypeOK, HistoryTypeOK, States
  <2>4. HistoryTypeOK'
    BY DEF IInv, TypeOK, ControllerTypeOK, TimersTypeOK, DriverTypeOK, HistoryTypeOK,
       States, Extend, Orphaned, Frames
  <2> QED
    BY <2>1, <2>2, <2>3, <2>4 DEF TypeOK
<1>2. RetryNeverLost' /\ ClosedEpisodeLeavesNothing' /\ WaitsAreTimed'
  BY <1>1 DEF IInv, TypeOK, ControllerTypeOK, TimersTypeOK, DriverTypeOK, HistoryTypeOK,
     States, Bookkeeping, NothingSpent, LostPendingShape,
         CoolingMeansCooldown, RetryNeverLost, ClosedEpisodeLeavesNothing, WaitsAreTimed
<1>3. Bookkeeping'
  <2>1. NothingSpent' /\ LostPendingShape' /\ CoolingMeansCooldown' /\ DisabledMeansIdle'
    BY <1>1 DEF IInv, TypeOK, ControllerTypeOK, TimersTypeOK, DriverTypeOK,
       HistoryTypeOK, States, RetryNeverLost, ClosedEpisodeLeavesNothing, WaitsAreTimed,
       Bookkeeping, NothingSpent, LostPendingShape,
       CoolingMeansCooldown, DisabledMeansIdle
  <2>2. HoldIsBacked'
    <3>1. attempts \in 0..MaxAttempts /\ attempts # 0 /\ config \in Settings
      BY DEF IInv, TypeOK, ControllerTypeOK, TimersTypeOK, DriverTypeOK, HistoryTypeOK,
         States, Bookkeeping, NothingSpent
    <3>2. ~(state' = "lost_pending" /\ attempts' = 0)
      BY <3>1
    <3> QED
      BY <3>2, Zenon DEF HoldIsBacked
  <2>3. VerifyIsBacked'
    BY DEF VerifyIsBacked
  <2>4. RestIsTimed'
    <3>1. config.cooldown \in Age /\ restOwed \in Age
      BY DEF IInv, TypeOK, ControllerTypeOK, TimersTypeOK, DriverTypeOK, HistoryTypeOK,
         States
    <3>2. RestIsTimed
      BY DEF IInv, Bookkeeping
    <3> HIDE DEF EnterCooldown
    <3>3. EnterCooldown \/ (restOwed' = restOwed /\ cooldownLeft' = cooldownLeft)
      OBVIOUS
    <3> HIDE DEF Frame, TickRetry, Live, Cooling, Reached, BeginAttempt, RecordFailure,
                ResetTransient
    <3>4. CASE EnterCooldown
      BY <3>1, <3>4 DEF EnterCooldown, RestIsTimed, Age
    <3>5. CASE restOwed' = restOwed /\ cooldownLeft' = cooldownLeft
      BY <3>2, <3>5 DEF RestIsTimed
    <3> QED
      BY <3>3, <3>4, <3>5
  <2> QED
    BY <2>1, <2>2, <2>3, <2>4 DEF Bookkeeping
<1> QED
  BY <1>1, <1>2, <1>3 DEF IInv

\* A frame that shows the lock lost keeps the invariant, whether the trigger
\* hold goes on or an episode starts.
LEMMA TickLostKeeps ==
  ASSUME IInv, NEW kind \in Frames, Frame(kind),
         TickLost(kind)
  PROVE  IInv'
<1> USE Thresholds, NoneAssumption DEF Frame, TickLost, Live, Cooling, Watching, Awake,
   CooldownCleared, Reached, BeginAttempt, RecordFailure, EnterCooldown, ResetTransient
<1>1. TypeOK'
  <2>1. ControllerTypeOK'
    BY DEF IInv, TypeOK, ControllerTypeOK, TimersTypeOK, DriverTypeOK, HistoryTypeOK, States
  <2>2. TimersTypeOK'
    BY DEF IInv, TypeOK, ControllerTypeOK, TimersTypeOK, DriverTypeOK, HistoryTypeOK, States
  <2>3. DriverTypeOK'
    BY DEF IInv, TypeOK, ControllerTypeOK, TimersTypeOK, DriverTypeOK, HistoryTypeOK, States
  <2>4. HistoryTypeOK'
    BY DEF IInv, TypeOK, ControllerTypeOK, TimersTypeOK, DriverTypeOK, HistoryTypeOK,
       States, Extend, Orphaned, Frames
  <2> QED
    BY <2>1, <2>2, <2>3, <2>4 DEF TypeOK
<1>2. RetryNeverLost' /\ ClosedEpisodeLeavesNothing' /\ WaitsAreTimed'
  BY <1>1 DEF IInv, TypeOK, ControllerTypeOK, TimersTypeOK, DriverTypeOK, HistoryTypeOK,
     States, Bookkeeping, NothingSpent, LostPendingShape,
         CoolingMeansCooldown, RetryNeverLost, ClosedEpisodeLeavesNothing, WaitsAreTimed
<1>3. Bookkeeping'
  BY <1>1 DEF IInv, TypeOK, ControllerTypeOK, TimersTypeOK, DriverTypeOK, HistoryTypeOK,
     States, Age, Frames, Extend, RetryNeverLost, ClosedEpisodeLeavesNothing,
     WaitsAreTimed, Bookkeeping, NothingSpent, LostPendingShape,
         CoolingMeansCooldown, DisabledMeansIdle, HoldIsBacked, VerifyIsBacked, RestIsTimed
<1> QED
  BY <1>1, <1>2, <1>3 DEF IInv

\* A frame that shows no loss keeps the invariant.
LEMMA TickNotLostKeeps ==
  ASSUME IInv, NEW kind \in Frames, Frame(kind),
         TickNotLost(kind)
  PROVE  IInv'
<1> USE Thresholds, NoneAssumption DEF Frame, TickNotLost, Live, Cooling, Watching,
   Awake, CooldownCleared
<1>1. TypeOK'
  <2>1. ControllerTypeOK'
    BY DEF IInv, TypeOK, ControllerTypeOK, TimersTypeOK, DriverTypeOK, HistoryTypeOK, States
  <2>2. TimersTypeOK'
    BY DEF IInv, TypeOK, ControllerTypeOK, TimersTypeOK, DriverTypeOK, HistoryTypeOK, States
  <2>3. DriverTypeOK'
    BY DEF IInv, TypeOK, ControllerTypeOK, TimersTypeOK, DriverTypeOK, HistoryTypeOK, States
  <2>4. HistoryTypeOK'
    BY DEF IInv, TypeOK, ControllerTypeOK, TimersTypeOK, DriverTypeOK, HistoryTypeOK,
       States, Extend, Orphaned, Frames
  <2> QED
    BY <2>1, <2>2, <2>3, <2>4 DEF TypeOK
<1>2. RetryNeverLost' /\ ClosedEpisodeLeavesNothing' /\ WaitsAreTimed'
  BY <1>1 DEF IInv, TypeOK, ControllerTypeOK, TimersTypeOK, DriverTypeOK, HistoryTypeOK,
     States, Bookkeeping, NothingSpent, LostPendingShape,
         CoolingMeansCooldown, RetryNeverLost, ClosedEpisodeLeavesNothing, WaitsAreTimed
<1>3. Bookkeeping'
  BY <1>1 DEF IInv, TypeOK, ControllerTypeOK, TimersTypeOK, DriverTypeOK, HistoryTypeOK,
     States, Age, Frames, Extend, RetryNeverLost, ClosedEpisodeLeavesNothing,
     WaitsAreTimed, Bookkeeping, NothingSpent, LostPendingShape,
         CoolingMeansCooldown, DisabledMeansIdle, HoldIsBacked, VerifyIsBacked, RestIsTimed
<1> QED
  BY <1>1, <1>2, <1>3 DEF IInv

\* A worker thread that cannot be started keeps the invariant.
LEMMA DispatchFailsKeeps ==
  ASSUME IInv, NEW kind \in Frames, DispatchFails(kind)
  PROVE  IInv'
<1> USE Thresholds, NoneAssumption DEF DispatchFails, Live, Cooling, Extend
<1>1. TypeOK'
  <2>1. ControllerTypeOK'
    BY DEF IInv, TypeOK, ControllerTypeOK, TimersTypeOK, DriverTypeOK, HistoryTypeOK, States
  <2>2. TimersTypeOK'
    BY DEF IInv, TypeOK, ControllerTypeOK, TimersTypeOK, DriverTypeOK, HistoryTypeOK, States
  <2>3. DriverTypeOK'
    BY DEF IInv, TypeOK, ControllerTypeOK, TimersTypeOK, DriverTypeOK, HistoryTypeOK, States
  <2>4. HistoryTypeOK'
    BY DEF IInv, TypeOK, ControllerTypeOK, TimersTypeOK, DriverTypeOK, HistoryTypeOK, States
  <2> QED
    BY <2>1, <2>2, <2>3, <2>4 DEF TypeOK
<1>2. RetryNeverLost' /\ ClosedEpisodeLeavesNothing' /\ WaitsAreTimed'
  BY <1>1 DEF IInv, TypeOK, ControllerTypeOK, TimersTypeOK, DriverTypeOK, HistoryTypeOK,
     States, Bookkeeping, NothingSpent, LostPendingShape,
         CoolingMeansCooldown, RetryNeverLost, ClosedEpisodeLeavesNothing, WaitsAreTimed
<1>3. Bookkeeping'
  BY <1>1 DEF IInv, TypeOK, ControllerTypeOK, TimersTypeOK, DriverTypeOK, HistoryTypeOK,
     States, Age, RetryNeverLost, ClosedEpisodeLeavesNothing, WaitsAreTimed, Bookkeeping,
     NothingSpent, LostPendingShape,
         CoolingMeansCooldown, DisabledMeansIdle, HoldIsBacked, VerifyIsBacked, RestIsTimed
<1> QED
  BY <1>1, <1>2, <1>3 DEF IInv

\* The result of a sweep, stale or not, keeps the invariant.
LEMMA SweepDoneKeeps ==
  ASSUME IInv, NEW ok \in BOOLEAN, SweepDone(ok)
  PROVE  IInv'
<1> USE Thresholds, NoneAssumption DEF SweepDone, RecordFailure, EnterCooldown,
   ResetTransient
<1>1. TypeOK'
  <2>1. ControllerTypeOK'
    BY DEF IInv, TypeOK, ControllerTypeOK, TimersTypeOK, DriverTypeOK, HistoryTypeOK, States
  <2>2. TimersTypeOK'
    BY DEF IInv, TypeOK, ControllerTypeOK, TimersTypeOK, DriverTypeOK, HistoryTypeOK, States
  <2>3. DriverTypeOK'
    BY DEF IInv, TypeOK, ControllerTypeOK, TimersTypeOK, DriverTypeOK, HistoryTypeOK, States
  <2>4. HistoryTypeOK'
    BY DEF IInv, TypeOK, ControllerTypeOK, TimersTypeOK, DriverTypeOK, HistoryTypeOK, States
  <2> QED
    BY <2>1, <2>2, <2>3, <2>4 DEF TypeOK
<1>2. RetryNeverLost' /\ ClosedEpisodeLeavesNothing' /\ WaitsAreTimed'
  BY <1>1 DEF IInv, TypeOK, ControllerTypeOK, TimersTypeOK, DriverTypeOK, HistoryTypeOK,
     States, Bookkeeping, NothingSpent, LostPendingShape,
         CoolingMeansCooldown, RetryNeverLost, ClosedEpisodeLeavesNothing, WaitsAreTimed
<1>3. Bookkeeping'
  BY <1>1 DEF IInv, TypeOK, ControllerTypeOK, TimersTypeOK, DriverTypeOK, HistoryTypeOK,
     States, Age, RetryNeverLost, ClosedEpisodeLeavesNothing, WaitsAreTimed, Bookkeeping,
     NothingSpent, LostPendingShape,
         CoolingMeansCooldown, DisabledMeansIdle, HoldIsBacked, VerifyIsBacked, RestIsTimed
<1> QED
  BY <1>1, <1>2, <1>3 DEF IInv

\* The result of a relock, stale or not, keeps the invariant.
LEMMA RelockDoneKeeps ==
  ASSUME IInv, NEW ok \in BOOLEAN, RelockDone(ok)
  PROVE  IInv'
<1> USE Thresholds, NoneAssumption DEF RelockDone, RecordFailure, EnterCooldown,
   ResetTransient, Orphaned
<1>1. TypeOK'
  <2>1. ControllerTypeOK'
    BY DEF IInv, TypeOK, ControllerTypeOK, TimersTypeOK, DriverTypeOK, HistoryTypeOK, States
  <2>2. TimersTypeOK'
    BY DEF IInv, TypeOK, ControllerTypeOK, TimersTypeOK, DriverTypeOK, HistoryTypeOK, States
  <2>3. DriverTypeOK'
    BY DEF IInv, TypeOK, ControllerTypeOK, TimersTypeOK, DriverTypeOK, HistoryTypeOK, States
  <2>4. HistoryTypeOK'
    BY DEF IInv, TypeOK, ControllerTypeOK, TimersTypeOK, DriverTypeOK, HistoryTypeOK, States
  <2> QED
    BY <2>1, <2>2, <2>3, <2>4 DEF TypeOK
<1>2. RetryNeverLost' /\ ClosedEpisodeLeavesNothing' /\ WaitsAreTimed'
  BY <1>1 DEF IInv, TypeOK, ControllerTypeOK, TimersTypeOK, DriverTypeOK, HistoryTypeOK,
     States, Bookkeeping, NothingSpent, LostPendingShape,
         CoolingMeansCooldown, RetryNeverLost, ClosedEpisodeLeavesNothing, WaitsAreTimed
<1>3. Bookkeeping'
  BY <1>1 DEF IInv, TypeOK, ControllerTypeOK, TimersTypeOK, DriverTypeOK, HistoryTypeOK,
     States, Age, RetryNeverLost, ClosedEpisodeLeavesNothing, WaitsAreTimed, Bookkeeping,
     NothingSpent, LostPendingShape,
         CoolingMeansCooldown, DisabledMeansIdle, HoldIsBacked, VerifyIsBacked, RestIsTimed
<1> QED
  BY <1>1, <1>2, <1>3 DEF IInv

\* A new setting, which resets the controller, keeps the invariant.
LEMMA SetConfigKeeps ==
  ASSUME IInv, NEW c \in Settings, SetConfig(c)
  PROVE  IInv'
<1> USE Thresholds, NoneAssumption DEF SetConfig, ResetTransient, Orphaned
<1>1. TypeOK'
  <2>1. ControllerTypeOK'
    BY DEF IInv, TypeOK, ControllerTypeOK, TimersTypeOK, DriverTypeOK, HistoryTypeOK, States
  <2>2. TimersTypeOK'
    BY DEF IInv, TypeOK, ControllerTypeOK, TimersTypeOK, DriverTypeOK, HistoryTypeOK, States
  <2>3. DriverTypeOK'
    BY DEF IInv, TypeOK, ControllerTypeOK, TimersTypeOK, DriverTypeOK, HistoryTypeOK, States
  <2>4. HistoryTypeOK'
    BY DEF IInv, TypeOK, ControllerTypeOK, TimersTypeOK, DriverTypeOK, HistoryTypeOK, States
  <2> QED
    BY <2>1, <2>2, <2>3, <2>4 DEF TypeOK
<1>2. RetryNeverLost' /\ ClosedEpisodeLeavesNothing' /\ WaitsAreTimed'
  BY <1>1 DEF IInv, TypeOK, ControllerTypeOK, TimersTypeOK, DriverTypeOK, HistoryTypeOK,
     States, Bookkeeping, NothingSpent, LostPendingShape,
         CoolingMeansCooldown, RetryNeverLost, ClosedEpisodeLeavesNothing, WaitsAreTimed
<1>3. Bookkeeping'
  BY <1>1 DEF IInv, TypeOK, ControllerTypeOK, TimersTypeOK, DriverTypeOK, HistoryTypeOK,
     States, Age, RetryNeverLost, ClosedEpisodeLeavesNothing, WaitsAreTimed, Bookkeeping,
     NothingSpent, LostPendingShape,
         CoolingMeansCooldown, DisabledMeansIdle, HoldIsBacked, VerifyIsBacked, RestIsTimed
<1> QED
  BY <1>1, <1>2, <1>3 DEF IInv

\* A new indicator state of the plot keeps the invariant.
LEMMA NewPlotStateKeeps ==
  ASSUME IInv, NewPlotState
  PROVE  IInv'
<1> USE Thresholds, NoneAssumption DEF NewPlotState
<1>1. TypeOK'
  <2>1. ControllerTypeOK'
    BY DEF IInv, TypeOK, ControllerTypeOK, TimersTypeOK, DriverTypeOK, HistoryTypeOK, States
  <2>2. TimersTypeOK'
    BY DEF IInv, TypeOK, ControllerTypeOK, TimersTypeOK, DriverTypeOK, HistoryTypeOK, States
  <2>3. DriverTypeOK'
    BY DEF IInv, TypeOK, ControllerTypeOK, TimersTypeOK, DriverTypeOK, HistoryTypeOK, States
  <2>4. HistoryTypeOK'
    BY DEF IInv, TypeOK, ControllerTypeOK, TimersTypeOK, DriverTypeOK, HistoryTypeOK, States
  <2> QED
    BY <2>1, <2>2, <2>3, <2>4 DEF TypeOK
<1>2. RetryNeverLost' /\ ClosedEpisodeLeavesNothing' /\ WaitsAreTimed'
  BY <1>1 DEF IInv, TypeOK, ControllerTypeOK, TimersTypeOK, DriverTypeOK, HistoryTypeOK,
     States, Bookkeeping, NothingSpent, LostPendingShape,
         CoolingMeansCooldown, RetryNeverLost, ClosedEpisodeLeavesNothing, WaitsAreTimed
<1>3. Bookkeeping'
  BY <1>1 DEF IInv, TypeOK, ControllerTypeOK, TimersTypeOK, DriverTypeOK, HistoryTypeOK,
     States, Age, RetryNeverLost, ClosedEpisodeLeavesNothing, WaitsAreTimed, Bookkeeping,
     NothingSpent, LostPendingShape,
         CoolingMeansCooldown, DisabledMeansIdle, HoldIsBacked, VerifyIsBacked, RestIsTimed
<1> QED
  BY <1>1, <1>2, <1>3 DEF IInv

\* The clock keeps the invariant: it ages every running timer alike.
LEMMA ElapseKeeps ==
  ASSUME IInv, Elapse
  PROVE  IInv'
<1> USE Thresholds, NoneAssumption, ClockKeepsAges DEF Elapse
<1>1. TypeOK'
  <2>1. ControllerTypeOK'
    BY DEF IInv, TypeOK, ControllerTypeOK, TimersTypeOK, DriverTypeOK, HistoryTypeOK, States
  <2>2. TimersTypeOK'
    BY DEF IInv, TypeOK, ControllerTypeOK, TimersTypeOK, DriverTypeOK, HistoryTypeOK, States
  <2>3. DriverTypeOK'
    BY DEF IInv, TypeOK, ControllerTypeOK, TimersTypeOK, DriverTypeOK, HistoryTypeOK, States
  <2>4. HistoryTypeOK'
    BY DEF IInv, TypeOK, ControllerTypeOK, TimersTypeOK, DriverTypeOK, HistoryTypeOK, States
  <2> QED
    BY <2>1, <2>2, <2>3, <2>4 DEF TypeOK
<1>2. RetryNeverLost' /\ ClosedEpisodeLeavesNothing' /\ WaitsAreTimed'
  BY <1>1 DEF IInv, TypeOK, ControllerTypeOK, TimersTypeOK, DriverTypeOK, HistoryTypeOK,
     States, Bookkeeping, NothingSpent, LostPendingShape,
         CoolingMeansCooldown, RetryNeverLost, ClosedEpisodeLeavesNothing, WaitsAreTimed
<1>3. Bookkeeping'
  BY <1>1 DEF IInv, TypeOK, ControllerTypeOK, TimersTypeOK, DriverTypeOK, HistoryTypeOK,
     States, Age, RetryNeverLost, ClosedEpisodeLeavesNothing, WaitsAreTimed, Bookkeeping,
     NothingSpent, LostPendingShape,
         CoolingMeansCooldown, DisabledMeansIdle, HoldIsBacked, VerifyIsBacked, RestIsTimed
<1> QED
  BY <1>1, <1>2, <1>3 DEF IInv

\* Every step of the controller, its threads and its operators keeps the
\* inductive invariant.
LEMMA NextIInv == IInv /\ [Next]_vars => IInv'
<1> SUFFICES ASSUME IInv, [Next]_vars PROVE IInv'
  OBVIOUS
<1>1. ASSUME NEW kind \in Frames, Frame(kind) PROVE IInv'
  <2>1. Tick(kind, traceFresh \/ kind = "unlocked")
    BY <1>1 DEF Frame
  <2> QED
    BY <1>1, <2>1, TickDisabledKeeps, TickCoolingKeeps, TickTraceSeenKeeps,
       TickTraceMissingKeeps, TickVerifyGoodKeeps, TickVerifyBadKeeps, TickRetryKeeps,
       TickLostKeeps, TickNotLostKeeps DEF Tick
<1>2. ASSUME NEW kind \in Frames, DispatchFails(kind) PROVE IInv'
  BY <1>2, DispatchFailsKeeps
<1>3. ASSUME NEW ok \in BOOLEAN, SweepDone(ok) PROVE IInv'
  BY <1>3, SweepDoneKeeps
<1>4. ASSUME NEW ok \in BOOLEAN, RelockDone(ok) PROVE IInv'
  BY <1>4, RelockDoneKeeps
<1>5. ASSUME NEW c \in Settings, SetConfig(c) PROVE IInv'
  BY <1>5, SetConfigKeeps
<1>6. CASE NewPlotState
  BY <1>6, NewPlotStateKeeps
<1>7. CASE Elapse
  BY <1>7, ElapseKeeps
<1>8. CASE UNCHANGED vars
  BY <1>8 DEF vars, IInv, TypeOK, ControllerTypeOK, TimersTypeOK, DriverTypeOK,
     HistoryTypeOK, States, RetryNeverLost, ClosedEpisodeLeavesNothing, WaitsAreTimed,
     Bookkeeping, NothingSpent, LostPendingShape,
         CoolingMeansCooldown, DisabledMeansIdle, HoldIsBacked, VerifyIsBacked, RestIsTimed
<1> QED
  BY <1>1, <1>2, <1>3, <1>4, <1>5, <1>6, <1>7, <1>8 DEF Next, QuietNext

\* The inductive invariant holds in every reachable state.
THEOREM InductiveInvariant == Spec => []IInv
BY InitIInv, NextIInv, PTL DEF Spec

\* Type correctness for every set of settings; in particular no sequence of
\* frames, results and reconfigurations spends more attempts than the largest
\* budget an operator may set.
THEOREM TypeCorrect == Spec => []TypeOK
<1>1. IInv => TypeOK
  BY DEF IInv
<1> QED
  BY <1>1, InductiveInvariant, PTL

\* A failed attempt is always retried or closed by a cooldown (the defect
\* "#10" of auto_relock.py:264-269 cannot return).
THEOREM RetryNeverLostHolds == Spec => []RetryNeverLost
<1>1. IInv => RetryNeverLost
  BY DEF IInv
<1> QED
  BY <1>1, InductiveInvariant, PTL

\* An idle or cooling controller owes nothing to the episode it closed.
THEOREM ClosedEpisodeLeavesNothingHolds == Spec => []ClosedEpisodeLeavesNothing
<1>1. IInv => ClosedEpisodeLeavesNothing
  BY DEF IInv
<1> QED
  BY <1>1, InductiveInvariant, PTL

\* Every waiting state has the timer that ends the wait.
THEOREM WaitsAreTimedHolds == Spec => []WaitsAreTimed
<1>1. IInv => WaitsAreTimed
  BY DEF IInv
<1> QED
  BY <1>1, InductiveInvariant, PTL
-----------------------------------------------------------------------------
(* The device actions exclude each other.                                  *)

\* A worker nobody disturbed still runs for the attempt that is pending, on a
\* trace that has been seen: tick() answers every frame with the same relock
\* and the poll thread has nothing to sweep.
WorkerOwnsAttempt ==
    worker = "running" /\ ~disturbed =>
        /\ poll = "ready" /\ traceFresh
        /\ state = "waiting_unlocked_trace" /\ pending = "relock"

\* Every step keeps it.
LEMMA WorkerOwnsAttemptKept ==
  ASSUME IInv, WorkerOwnsAttempt, [Next]_vars
  PROVE  WorkerOwnsAttempt'
<1> USE DEF WorkerOwnsAttempt
<1>1. ASSUME NEW kind \in Frames, Frame(kind) PROVE WorkerOwnsAttempt'
  <2>1. Tick(kind, traceFresh \/ kind = "unlocked") /\ poll = "ready"
    BY <1>1 DEF Frame
  <2>2. CASE worker = "running" /\ ~disturbed
    <3>1. Live
      BY <2>2 DEF IInv, Bookkeeping, DisabledMeansIdle, CoolingMeansCooldown, Live, Cooling
    <3>2. TickTraceSeen(traceFresh \/ kind = "unlocked")
      BY <2>1, <2>2, <3>1 DEF Tick, TickDisabled, TickCooling, TickTraceMissing,
         TickVerifyGood, TickVerifyBad, TickRetry, TickLost, TickNotLost, Watching,
         Awake, Live
    <3> QED
      BY <1>1, <2>2, <3>2 DEF Frame, TickTraceSeen
  <2>3. CASE worker # "running" \/ disturbed
    <3>1. CASE TickTraceSeen(traceFresh \/ kind = "unlocked")
      BY <1>1, <2>1, <3>1 DEF Frame, TickTraceSeen
    <3>2. CASE ~TickTraceSeen(traceFresh \/ kind = "unlocked")
      <4>1. worker' = worker
        BY <2>1, <3>2 DEF Tick, TickDisabled, TickCooling, TickTraceMissing,
           TickVerifyGood, TickVerifyBad, TickRetry, TickLost, TickNotLost
      <4> QED
        BY <1>1, <2>3, <4>1 DEF Frame
    <3> QED
      BY <3>1, <3>2
  <2> QED
    BY <2>2, <2>3
<1>2. ASSUME NEW kind \in Frames, DispatchFails(kind) PROVE WorkerOwnsAttempt'
  BY <1>2 DEF DispatchFails
<1>3. ASSUME NEW ok \in BOOLEAN, SweepDone(ok) PROVE WorkerOwnsAttempt'
  BY <1>3 DEF SweepDone
<1>4. ASSUME NEW ok \in BOOLEAN, RelockDone(ok) PROVE WorkerOwnsAttempt'
  BY <1>4 DEF RelockDone
<1>5. ASSUME NEW c \in Settings, SetConfig(c) PROVE WorkerOwnsAttempt'
  BY <1>5 DEF SetConfig
<1>6. CASE NewPlotState
  BY <1>6 DEF NewPlotState
<1>7. CASE Elapse
  BY <1>7 DEF Elapse
<1>8. CASE UNCHANGED vars
  BY <1>8 DEF vars
<1> QED
  BY <1>1, <1>2, <1>3, <1>4, <1>5, <1>6, <1>7, <1>8 DEF Next, QuietNext

\* The sweep of an attempt and an undisturbed relock never overlap.
THEOREM NoSweepDuringRelockHolds == Spec => []NoSweepDuringRelock
<1>1. Init => WorkerOwnsAttempt
  BY DEF Init, WorkerOwnsAttempt
<1>2. IInv /\ WorkerOwnsAttempt /\ [Next]_vars => WorkerOwnsAttempt'
  BY WorkerOwnsAttemptKept
<1>3. WorkerOwnsAttempt => NoSweepDuringRelock
  BY DEF WorkerOwnsAttempt, NoSweepDuringRelock
<1> QED
  BY <1>1, <1>2, <1>3, InductiveInvariant, PTL DEF Spec

-----------------------------------------------------------------------------
(* Action properties.  Only BeginAttempt spends an attempt or sweeps.      *)

\* A step that spends an attempt or enters stop_lock is TickRetry or TickLost,
\* on a controller that is not cooling down.
LEMMA OnlyTicksBegin ==
  ASSUME IInv, [Next]_vars, attempts' > attempts \/ (poll = "ready" /\ poll' = "sweeping")
  PROVE  \E kind \in Frames : Frame(kind) /\ Live /\ (TickRetry \/ TickLost(kind))
<1>1. attempts \in Nat /\ attempts' \in Nat
  <2>1. IInv'
    BY NextIInv
  <2> QED
    BY <2>1, SettingsAssumption DEF IInv, TypeOK, ControllerTypeOK
<1>2. ASSUME NEW kind \in Frames, Frame(kind)
      PROVE  Live /\ (TickRetry \/ TickLost(kind))
  <2>1. Tick(kind, traceFresh \/ kind = "unlocked")
    BY <1>2 DEF Frame
  <2>2. ~TickDisabled
    BY <1>1 DEF TickDisabled
  <2>3. ~TickCooling
    BY <1>1 DEF TickCooling
  <2>4. ~TickTraceSeen(traceFresh \/ kind = "unlocked")
    BY <1>1 DEF TickTraceSeen
  <2>5. ~TickTraceMissing(traceFresh \/ kind = "unlocked")
    BY <1>1 DEF TickTraceMissing, RecordFailure, EnterCooldown
  <2>6. ~TickVerifyGood(kind)
    BY <1>1 DEF TickVerifyGood, EnterCooldown
  <2>7. ~TickVerifyBad(kind)
    BY <1>1 DEF TickVerifyBad, RecordFailure, EnterCooldown
  <2>8. ~TickNotLost(kind)
    BY <1>1 DEF TickNotLost
  <2> QED
    BY <2>1, <2>2, <2>3, <2>4, <2>5, <2>6, <2>7, <2>8 DEF Tick, TickRetry, TickLost, Watching
<1>3. ASSUME NEW kind \in Frames PROVE ~DispatchFails(kind)
  BY <1>1 DEF DispatchFails
<1>4. ASSUME NEW ok \in BOOLEAN PROVE ~SweepDone(ok)
  BY <1>1 DEF SweepDone, RecordFailure, EnterCooldown
<1>5. ASSUME NEW ok \in BOOLEAN PROVE ~RelockDone(ok)
  BY <1>1 DEF RelockDone, RecordFailure, EnterCooldown
<1>6. ASSUME NEW c \in Settings PROVE ~SetConfig(c)
  BY <1>1 DEF SetConfig
<1>7. ~NewPlotState /\ ~Elapse /\ ~UNCHANGED vars
  BY <1>1 DEF NewPlotState, Elapse, vars
<1> QED
  BY <1>2, <1>3, <1>4, <1>5, <1>6, <1>7 DEF Next, QuietNext

\* An episode starts only after a whole trigger hold of lost frames.
THEOREM EpisodeNeedsSustainedLossHolds == Spec => EpisodeNeedsSustainedLoss
<1>1. ASSUME IInv, [Next]_vars, attempts = 0, attempts' > 0
      PROVE  Reached(lossRun', config.triggerHold)
  <2>1. PICK kind \in Frames : Frame(kind) /\ Live /\ (TickRetry \/ TickLost(kind))
    BY <1>1, OnlyTicksBegin
  <2>2. ~TickRetry
    BY <1>1 DEF IInv, Bookkeeping, NothingSpent, TickRetry
  <2>3. TickLost(kind)
    BY <2>1, <2>2
  <2>4. kind = "lost" /\ Reached(lostFor, config.triggerHold)
    BY <1>1, <2>3 DEF TickLost
  <2>5. lostFor # None /\ lostFor >= config.triggerHold
    BY <2>4 DEF Reached
  <2>6. state = "lost_pending"
    BY <1>1, <2>3, <2>5 DEF IInv, ClosedEpisodeLeavesNothing, TickLost, Watching, Awake
  <2>7. lossRun # None /\ lossRun >= lostFor
    BY <1>1, <2>5, <2>6 DEF IInv, Bookkeeping, HoldIsBacked
  <2>8. lossRun' = lossRun
    BY <2>1, <2>4, <2>7 DEF Frame, Extend
  <2>9. lossRun \in Nat /\ lostFor \in Nat /\ config.triggerHold \in Nat
    BY <1>1, <2>5, <2>7, Thresholds, SettingsAssumption
       DEF IInv, TypeOK, ControllerTypeOK, TimersTypeOK, HistoryTypeOK, Age
  <2> QED
    BY <2>5, <2>7, <2>8, <2>9 DEF Reached
<1>2. IInv /\ [Next]_vars =>
        [attempts = 0 /\ attempts' > 0 => Reached(lossRun', config.triggerHold)]_vars
  BY <1>1
<1> QED
  BY <1>2, InductiveInvariant, PTL DEF Spec, EpisodeNeedsSustainedLoss

\* No device action before the rest of the closed episode is over.
THEOREM RestIsHonouredHolds == Spec => RestIsHonoured
<1>1. IInv /\ Live => restOwed = 0
  <2> SUFFICES ASSUME IInv, Live, restOwed > 0 PROVE FALSE
    BY SettingsAssumption DEF IInv, TypeOK, HistoryTypeOK, Age
  <2>1. cooldownLeft # None /\ cooldownLeft >= restOwed
    BY DEF IInv, Bookkeeping, RestIsTimed
  <2>2. cooldownLeft \in Nat /\ restOwed \in Nat
    BY <2>1, SettingsAssumption DEF IInv, TypeOK, TimersTypeOK, HistoryTypeOK, Age
  <2> QED
    BY <2>1, <2>2 DEF Live, Cooling
<1>2. ASSUME IInv, [Next]_vars, poll = "ready", poll' = "sweeping" PROVE Live
  BY <1>2, OnlyTicksBegin
<1>3. ASSUME IInv, [Next]_vars, worker = "none", worker' = "running" PROVE Live
  <2>1. ASSUME NEW kind \in Frames, Frame(kind) PROVE Live
    <3>1. Tick(kind, traceFresh \/ kind = "unlocked")
      BY <2>1 DEF Frame
    <3> QED
      BY <1>3, <3>1 DEF Tick, TickDisabled, TickCooling, TickTraceSeen, TickTraceMissing,
         TickVerifyGood, TickVerifyBad, TickRetry, TickLost, TickNotLost, Watching
  <2>2. ASSUME NEW kind \in Frames PROVE ~DispatchFails(kind)
    BY <1>3 DEF DispatchFails
  <2>3. ASSUME NEW ok \in BOOLEAN PROVE ~SweepDone(ok) /\ ~RelockDone(ok)
    BY <1>3 DEF SweepDone, RelockDone
  <2>4. ASSUME NEW c \in Settings PROVE ~SetConfig(c)
    BY <1>3 DEF SetConfig
  <2>5. ~NewPlotState /\ ~Elapse /\ ~UNCHANGED vars
    BY <1>3 DEF NewPlotState, Elapse, vars
  <2> QED
    BY <1>3, <2>1, <2>2, <2>3, <2>4, <2>5 DEF Next, QuietNext
<1>4. IInv /\ [Next]_vars =>
        [(poll = "ready" /\ poll' = "sweeping") \/ (worker = "none" /\ worker' = "running")
            => restOwed = 0]_vars
  BY <1>1, <1>2, <1>3
<1> QED
  BY <1>4, InductiveInvariant, PTL DEF Spec, RestIsHonoured

\* A relock counts as a success only after a whole verify hold of healthy
\* frames that began after the relock finished.
THEOREM SuccessNeedsSustainedLockHolds == Spec => SuccessNeedsSustainedLock
<1> DEFINE Success == /\ state = "verifying" /\ state' \in {"idle", "cooldown"}
                      /\ ~failed' /\ config'.enabled
           Held == Reached(goodRun', config.verifyHold) /\ Reached(verifyFor, config.verifyHold)
<1>1. ASSUME IInv, [Next]_vars, Success PROVE Held
  <2>1. ASSUME NEW kind \in Frames, Frame(kind) PROVE TickVerifyGood(kind)
    <3>1. Tick(kind, traceFresh \/ kind = "unlocked")
      BY <2>1 DEF Frame
    <3>2. ~TickDisabled
      BY <1>1, <2>1 DEF TickDisabled, Frame
    <3>3. ~TickCooling
      BY <1>1 DEF TickCooling, Cooling, IInv, Bookkeeping, CoolingMeansCooldown
    <3>4. ~TickVerifyBad(kind)
      BY <1>1 DEF TickVerifyBad, RecordFailure
    <3> QED
      BY <1>1, <3>1, <3>2, <3>3, <3>4 DEF Tick, TickTraceSeen, TickTraceMissing, TickRetry,
         TickLost, TickNotLost, Watching, Awake
  <2>2. ASSUME NEW kind \in Frames PROVE ~DispatchFails(kind)
    BY <1>1 DEF DispatchFails
  <2>3. ASSUME NEW ok \in BOOLEAN PROVE ~SweepDone(ok)
    BY <1>1 DEF SweepDone, RecordFailure
  <2>4. ASSUME NEW ok \in BOOLEAN PROVE ~RelockDone(ok)
    BY <1>1 DEF RelockDone, RecordFailure
  <2>5. ASSUME NEW c \in Settings PROVE ~SetConfig(c)
    BY <1>1 DEF SetConfig
  <2>6. ~NewPlotState /\ ~Elapse /\ ~UNCHANGED vars
    BY <1>1 DEF NewPlotState, Elapse, vars
  <2>7. PICK kind \in Frames : Frame(kind) /\ TickVerifyGood(kind)
    BY <1>1, <2>1, <2>2, <2>3, <2>4, <2>5, <2>6 DEF Next, QuietNext
  <2>8. config.verifyHold \in Nat \ {0}
    BY <1>1, Thresholds DEF IInv, TypeOK, ControllerTypeOK
  <2>9. goodFor # None /\ goodFor >= config.verifyHold /\ kind = "good"
    BY <1>1, <2>7, <2>8 DEF TickVerifyGood
  <2>10. goodRun # None /\ goodRun >= goodFor /\ verifyFor >= goodFor /\ verifyFor # None
    BY <1>1, <2>9 DEF IInv, Bookkeeping, VerifyIsBacked, WaitsAreTimed
  <2>11. goodRun' = goodRun
    BY <2>7, <2>9, <2>10 DEF Frame, Extend
  <2>12. goodRun \in Nat /\ goodFor \in Nat /\ verifyFor \in Nat
    BY <1>1, <2>9, <2>10, SettingsAssumption
       DEF IInv, TypeOK, TimersTypeOK, HistoryTypeOK, Age
  <2>13. goodRun >= config.verifyHold /\ verifyFor >= config.verifyHold
    BY <2>8, <2>9, <2>10, <2>12
  <2> QED
    BY <2>10, <2>11, <2>13 DEF Reached
<1>2. IInv /\ [Next]_vars => [Success => Held]_vars
  BY <1>1
<1> QED
  BY <1>2, InductiveInvariant, PTL DEF Spec, SuccessNeedsSustainedLock

-----------------------------------------------------------------------------
(* The controller implements the abstract episode.                         *)

\* What a step of an unchanged configuration does to the spent attempts.
LEMMA SpentSteps ==
  ASSUME IInv, [Next]_vars, config' = config
  PROVE  \/ attempts' = attempts
         \/ attempts' = 0
         \/ attempts' = attempts + 1 /\ attempts < config.maxAttempts /\ state # "cooldown"
<1>1. CASE \E kind \in Frames : Frame(kind) /\ (TickRetry \/ TickLost(kind))
  <2>1. PICK kind \in Frames : Frame(kind) /\ (TickRetry \/ TickLost(kind))
    BY <1>1
  <2>2. CASE TickRetry
    BY <2>2 DEF TickRetry, BeginAttempt, RecordFailure, EnterCooldown
  <2>3. CASE TickLost(kind)
    <3>1. Reached(lostFor, config.triggerHold) => state # "cooldown"
      BY DEF IInv, ClosedEpisodeLeavesNothing, Reached
    <3> QED
      BY <2>3, <3>1 DEF TickLost, BeginAttempt, RecordFailure, EnterCooldown
  <2> QED
    BY <2>1, <2>2, <2>3
<1>2. ASSUME NEW kind \in Frames, Frame(kind), ~TickRetry, ~TickLost(kind)
      PROVE  attempts' = attempts \/ attempts' = 0
  <2>1. Tick(kind, traceFresh \/ kind = "unlocked")
    BY <1>2 DEF Frame
  <2> QED
    BY <1>2, <2>1 DEF Tick, TickDisabled, TickCooling, TickTraceSeen, TickTraceMissing,
       TickVerifyGood, TickVerifyBad, TickNotLost, RecordFailure, EnterCooldown
<1>3. ASSUME NEW kind \in Frames, DispatchFails(kind) PROVE attempts' = attempts
  BY <1>3 DEF DispatchFails
<1>4. ASSUME NEW ok \in BOOLEAN, SweepDone(ok) PROVE attempts' = attempts \/ attempts' = 0
  BY <1>4 DEF SweepDone, RecordFailure, EnterCooldown
<1>5. ASSUME NEW ok \in BOOLEAN, RelockDone(ok) PROVE attempts' = attempts \/ attempts' = 0
  BY <1>5 DEF RelockDone, RecordFailure, EnterCooldown
<1>6. ASSUME NEW c \in Settings, SetConfig(c) PROVE attempts' = attempts \/ attempts' = 0
  BY <1>6 DEF SetConfig
<1>7. NewPlotState \/ Elapse \/ UNCHANGED vars => attempts' = attempts
  BY DEF NewPlotState, Elapse, vars
<1> QED
  BY <1>1, <1>2, <1>3, <1>4, <1>5, <1>6, <1>7 DEF Next, QuietNext

\* A cooldown is entered only from an episode.
LEMMA RestComesFromAnEpisode ==
  ASSUME IInv, [Next]_vars, state # "cooldown", state' = "cooldown"
  PROVE  attempts # 0
<1> SUFFICES ASSUME attempts = 0 PROVE FALSE
  OBVIOUS
<1>1. state \in {"idle", "lost_pending"} /\ pending = None /\ ~primed
  BY DEF IInv, Bookkeeping, NothingSpent
<1>2. ~(attempts >= config.maxAttempts)
  BY Thresholds DEF IInv, TypeOK, ControllerTypeOK
<1>3. ~Cooling
  BY DEF IInv, Bookkeeping, CoolingMeansCooldown, Cooling
<1>4. ASSUME NEW kind \in Frames, Frame(kind) PROVE FALSE
  <2>1. Tick(kind, traceFresh \/ kind = "unlocked")
    BY <1>4 DEF Frame
  <2> QED
    BY <1>1, <1>2, <1>3, <2>1 DEF Tick, TickDisabled, TickCooling, TickTraceSeen,
       TickTraceMissing, TickVerifyGood, TickVerifyBad, TickRetry, TickLost, TickNotLost,
       BeginAttempt, RecordFailure
<1>5. ASSUME NEW kind \in Frames, DispatchFails(kind) PROVE FALSE
  BY <1>5 DEF DispatchFails
<1>6. ASSUME NEW ok \in BOOLEAN, SweepDone(ok) PROVE FALSE
  BY <1>1, <1>6, NoneAssumption DEF SweepDone
<1>7. ASSUME NEW ok \in BOOLEAN, RelockDone(ok) PROVE FALSE
  BY <1>1, <1>7, NoneAssumption DEF RelockDone
<1>8. ASSUME NEW c \in Settings, SetConfig(c) PROVE FALSE
  BY <1>8 DEF SetConfig
<1>9. ~NewPlotState /\ ~Elapse /\ ~UNCHANGED vars
  BY DEF NewPlotState, Elapse, vars
<1> QED
  BY <1>4, <1>5, <1>6, <1>7, <1>8, <1>9 DEF Next, QuietNext

\* The refinement: for every set of settings the controller, its two threads
\* and its operators implement RelockEpisode.
THEOREM Refinement == Spec => ImplementsEpisode
<1>1. Init => Episode!Init
  BY DEF Init, Episode!Init, Phase
<1>2. ASSUME IInv, IInv', [Next]_vars PROVE [Episode!Next]_(Episode!vars)
  <2> USE DEF Episode!Next, Episode!Attempt, Episode!Close, Episode!Wake,
              Episode!SwitchOff, Episode!SwitchOn, Episode!vars, Phase
  <2>1. attempts \in 0..MaxAttempts /\ attempts' \in 0..MaxAttempts /\ MaxAttempts \in Nat
    BY <1>2, SettingsAssumption DEF IInv, TypeOK, ControllerTypeOK
  <2>2. /\ ~config.enabled => state = "idle" /\ attempts = 0
        /\ ~config'.enabled => state' = "idle" /\ attempts' = 0
        /\ state = "cooldown" => attempts = 0
        /\ state' = "cooldown" => attempts' = 0
    BY <1>2 DEF IInv, Bookkeeping, DisabledMeansIdle, ClosedEpisodeLeavesNothing
  <2>3. CASE config' # config
    <3>1. PICK c \in Settings : SetConfig(c)
      BY <1>2, <2>3 DEF Next, QuietNext, Frame, DispatchFails, SweepDone, RelockDone,
         NewPlotState, Elapse, vars
    <3>2. config'.enabled => state' = state /\ attempts' = attempts
      BY <3>1 DEF SetConfig
    <3> QED
      BY <2>2, <3>2
  <2>4. CASE config' = config
    <3>1. CASE attempts' = attempts /\ attempts = 0
      <4>1. state' = "cooldown" => state = "cooldown"
        BY <1>2, <3>1, RestComesFromAnEpisode
      <4> QED
        BY <2>2, <2>4, <3>1, <4>1
    <3>2. CASE attempts' = attempts /\ attempts # 0
      BY <2>1, <2>2, <2>4, <3>2
    <3>3. CASE attempts' = 0 /\ attempts # 0
      BY <2>1, <2>2, <2>4, <3>3
    <3>4. CASE attempts' = attempts + 1 /\ attempts < config.maxAttempts /\ state # "cooldown"
      <4>1. attempts < MaxAttempts /\ attempts' > 0 /\ config.enabled
        BY <1>2, <2>1, <2>2, <2>4, <3>4, SettingsAssumption
           DEF IInv, TypeOK, ControllerTypeOK, SettingsOK
      <4> QED
        BY <2>1, <2>2, <2>4, <3>4, <4>1
    <3> QED
      BY <1>2, <2>4, <3>1, <3>2, <3>3, <3>4, SpentSteps
  <2> QED
    BY <2>3, <2>4
<1> QED
  BY <1>1, <1>2, InductiveInvariant, PTL DEF Spec, ImplementsEpisode, Episode!Spec

=============================================================================
