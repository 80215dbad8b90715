---------------------------- MODULE RelockEpisode ----------------------------
(***************************************************************************)
(* What the auto-relock controller promises, without frames, timers,       *)
(* threads or device actions: while it is switched on it watches; a loss   *)
(* opens an episode of at most MaxAttempts attempts; every episode is      *)
(* closed, normally into a rest, and no attempt is made outside of one.    *)
(***************************************************************************)
EXTENDS Naturals

CONSTANT MaxAttempts   \* the largest budget an operator may set

VARIABLES phase, spent

vars == <<phase, spent>>

Init == phase \in {"off", "watching"} /\ spent = 0

\* An attempt is started: the first opens the episode.
Attempt ==
    /\ phase \in {"watching", "attempting"}
    /\ spent < MaxAttempts
    /\ phase' = "attempting"
    /\ spent' = spent + 1

\* Success, or the budget is used up.
Close ==
    /\ phase = "attempting"
    /\ phase' \in {"resting", "watching"}
    /\ spent' = 0

Wake ==
    /\ phase = "resting"
    /\ phase' = "watching"
    /\ spent' = spent

SwitchOff == phase' = "off" /\ spent' = 0

SwitchOn ==
    /\ phase = "off"
    /\ phase' = "watching"
    /\ spent' = spent

Next == Attempt \/ Close \/ Wake \/ SwitchOff \/ SwitchOn

Spec == Init /\ [][Next]_vars
=============================================================================
