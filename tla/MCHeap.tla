------------------------------- MODULE MCHeap --------------------------------
(* Heap over three pages; the sizes reach from a unit to more than a page. *)
EXTENDS Heap
=============================================================================
