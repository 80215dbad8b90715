----------------------------- MODULE MCSession -----------------------------
(* Session for TLC.  A reboot operation and the boot id worker meet in      *)
(* nothing but the record they save, so the instance has one or the other.  *)
EXTENDS Session

OneOrTheOther ==
    ops = 0 \/ \A c \in Conns : bootJob[c] # "read" /\ lastBoot = None

=============================================================================
