------------------------------ MODULE MCThreads ------------------------------
(* Instances of Threads for TLC: main, idle and two more slots of thrtab,  *)
(* and one condition beside the child_exit ones.                           *)
EXTENDS Threads
CONSTANT io
MCConds == {io}
=============================================================================
