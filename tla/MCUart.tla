------------------------------- MODULE MCUart -------------------------------
(* Instances of Uart for TLC: a ring of two bytes with positions that wrap *)
(* after four.                                                             *)
EXTENDS Uart
=============================================================================
