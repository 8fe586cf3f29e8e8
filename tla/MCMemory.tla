------------------------------ MODULE MCMemory ------------------------------
(* Memory with two virtual pages in two tables: a text page and a page of  *)
(* data or stack.                                                          *)
EXTENDS Memory

Text == [first |-> 0, last |-> 0, flags |-> {"R", "X"}, data |-> 7]
Bss  == [first |-> 1, last |-> 1, flags |-> {"R", "W"}, data |-> 8]

Programs == {<<Text>>, <<Text, Bss>>}
=============================================================================
