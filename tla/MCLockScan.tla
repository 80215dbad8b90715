----------------------------- MODULE MCLockScan -----------------------------
(* Model checking LockScan: no operator tells the movers apart, nor the     *)
(* centers.  Used by the safety runs only.                                  *)
EXTENDS LockScan, TLC

Symmetry == Permutations(Movers) \cup Permutations(Centers)
=============================================================================
