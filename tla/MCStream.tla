------------------------------ MODULE MCStream ------------------------------
(* Stream for TLC: tabs are interchangeable. *)
EXTENDS Stream, TLC

Tabs == Permutations(Clients)

=============================================================================
