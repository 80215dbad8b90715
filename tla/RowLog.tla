------------------------------- MODULE RowLog -------------------------------
(***************************************************************************)
(* What the lock result writer promises of the rows it accepts, without    *)
(* threads, settings or databases: at most Capacity rows are accepted and  *)
(* not dealt with, and they are dealt with one by one, each exactly once   *)
(* and in the order in which they were accepted.                           *)
(***************************************************************************)
EXTENDS Naturals, Sequences

CONSTANT Capacity   \* rows accepted and not dealt with

VARIABLES log, done \* the rows accepted and those dealt with, in order

logVars == <<log, done>>

Init == log = <<>> /\ done = <<>>

\* Rows are numbered as they are accepted.
Accept ==
    /\ Len(log) - Len(done) < Capacity
    /\ log' = Append(log, Len(log) + 1)
    /\ done' = done

DealWith ==
    /\ Len(done) < Len(log)
    /\ done' = Append(done, log[Len(done) + 1])
    /\ log' = log

Next == Accept \/ DealWith

Spec == Init /\ [][Next]_logVars
=============================================================================
