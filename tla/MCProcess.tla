------------------------------ MODULE MCProcess ------------------------------
(* Process with three entries of proctab and two threads beside main: the  *)
(* third fork finds the table full, and a joined thread's entry is reused. *)
EXTENDS Process

Zeroed == [pending |-> {}, blocked |-> {}, handled |-> {}]
Garbage == [pending |-> {SIGTERM, 3}, blocked |-> {}, handled |-> {}]

Residues == {Zeroed, Garbage}
=============================================================================
