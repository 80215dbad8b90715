---------------------------- MODULE MCAutoRelock ----------------------------
(* Instances of AutoRelock for TLC.                                        *)
EXTENDS AutoRelock

Setting(on, trigger, verify, cool, timeout, max) ==
    [enabled |-> on, triggerHold |-> trigger, verifyHold |-> verify,
     cooldown |-> cool, traceTimeout |-> timeout, maxAttempts |-> max]

\* Two enabled settings with different thresholds and budgets, one of them
\* without a cooldown, and the controller switched off.
MixedSettings ==
    {Setting(TRUE, 1, 2, 3, 2, 2), Setting(TRUE, 2, 1, 0, 3, 1),
     Setting(FALSE, 1, 2, 3, 2, 2)}

\* One enabled setting and the switch.
SwitchedSettings ==
    {Setting(TRUE, 1, 1, 2, 2, 2), Setting(FALSE, 1, 1, 2, 2, 2)}
=============================================================================
