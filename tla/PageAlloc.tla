------------------------------ MODULE PageAlloc ------------------------------
(***************************************************************************)
(* The physical page allocator of memory.c.  Free pages form a list linked *)
(* through the first word of each page, so the link of a page that is in   *)
(* use is whatever its owner stored there.  A page is its index above the  *)
(* end of the heap, 1 being the page at heap_end.                          *)
(*                                                                         *)
(* An operator X_Y, defined before X, is X with the fault Y.               *)
(***************************************************************************)
EXTENDS Naturals

CONSTANT PAGE_CNT       \* number of pages between the heap and RAM_END

ASSUME PageCntAssumption == PAGE_CNT \in Nat \ {0}

Page == 1..PAGE_CNT
NULL == 0
Base == 1               \* the page at heap_end, the first one linked

VARIABLES
  free_list,            \* head of the list
  next,                 \* first word of every page
  used,                 \* pages handed out and not returned
  drained,              \* the allocator has handed out the base page
  panicked              \* the kernel has stopped

vars == <<free_list, next, used, drained, panicked>>

TypeOK ==
  /\ free_list \in Page \cup {NULL}
  /\ next \in [Page -> Page \cup {NULL}]
  /\ used \subseteq Page
  /\ drained \in BOOLEAN
  /\ panicked \in BOOLEAN

-----------------------------------------------------------------------------
(* The loop of memory_init links each page to the head it finds, and the   *)
(* head it finds first is heap_end itself: the base page links to itself.  *)
linked == [p \in Page |-> IF p = Base THEN Base ELSE p - 1]

memory_init ==
  /\ next = linked
  /\ free_list = PAGE_CNT
  /\ used = {}
  /\ drained = FALSE
  /\ panicked = FALSE

(* Popping the head reads its link before the page is cleared. *)
memory_alloc_page ==
  /\ ~panicked
  /\ \/ /\ free_list = NULL
        /\ panicked' = TRUE
        /\ UNCHANGED <<free_list, next, used, drained>>
     \/ /\ free_list # NULL
        /\ free_list' = next[free_list]
        /\ next' = [next EXCEPT ![free_list] = NULL]
        /\ used' = used \cup {free_list}
        /\ drained' = (drained \/ free_list = Base)
        /\ UNCHANGED panicked

(* The client returns a page that it holds: memory.h:113. *)
memory_free_page_NoLink(p) ==
  /\ ~panicked
  /\ p \in used
  /\ free_list' = p
  /\ next' = [next EXCEPT ![p] = NULL]
  /\ used' = used \ {p}
  /\ UNCHANGED <<drained, panicked>>

memory_free_page(p) ==
  /\ ~panicked
  /\ p \in used
  /\ next' = [next EXCEPT ![p] = free_list]
  /\ free_list' = p
  /\ used' = used \ {p}
  /\ UNCHANGED <<drained, panicked>>

(* The holder of a page stores data in its first word. *)
Store(p, w) ==
  /\ ~panicked
  /\ p \in used
  /\ next' = [next EXCEPT ![p] = w]
  /\ UNCHANGED <<free_list, used, drained, panicked>>

-----------------------------------------------------------------------------
(* The pages on the list: those in every set of pages that has the head    *)
(* and, with a page, the page it links to.                                 *)
Closed(S) ==
  /\ free_list # NULL => free_list \in S
  /\ \A p \in S : next[p] # NULL => next[p] \in S

Listed == {p \in Page : \A S \in SUBSET Page : Closed(S) => p \in S}

(* Until the base page has been handed out, the pages on the list are      *)
(* exactly the pages not in use, whatever the clients store in theirs: no  *)
(* page is handed out twice and none is lost by any order of allocations   *)
(* and returns.                                                            *)
ListIsComplement == TypeOK /\ (~drained => Listed = Page \ used)
=============================================================================
