------------------------------- MODULE MCTimer -------------------------------
(* Instance of Timer for TLC: three sleepers, a tick every three time units. *)
EXTENDS Timer
CONSTANTS t1, t2, t3
MCThreads == {t1, t2, t3}
=============================================================================
