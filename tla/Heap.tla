--------------------------------- MODULE Heap ---------------------------------
(***************************************************************************)
(* The kernel heap of ezheap.c on top of the page allocator.  Requests are *)
(* cut from the end of the current block; when one does not fit a page is  *)
(* taken, and the larger remainder is kept as the current block.  Nothing  *)
(* is ever given back.  Other clients take, use and return whole pages     *)
(* meanwhile.                                                              *)
(*                                                                         *)
(* Addresses are bytes, from the start of the heap that memory_init sets   *)
(* up; the pages follow it.                                                *)
(*                                                                         *)
(* An operator X_Y, defined before X, is X with the fault Y.               *)
(***************************************************************************)
EXTENDS PageAlloc, Integers

CONSTANTS
  HEAP_INIT,            \* bytes between the kernel image and the first page
  PAGE_SIZE, UNIT,      \* 4096 and 16 in the code
  Size                  \* sizes asked for

ASSUME HeapAssumption ==
  /\ {HEAP_INIT, PAGE_SIZE, UNIT} \subseteq Nat \ {0}
  /\ Size \subseteq Nat

VARIABLES
  heap_start, heap_end, \* the current block
  blocks                \* what has been handed out: address and length

hvars == <<heap_start, heap_end, blocks>>

Addr(p) == HEAP_INIT + (p - 1) * PAGE_SIZE

heap_init ==
  /\ heap_start = 0
  /\ heap_end = HEAP_INIT
  /\ blocks = {}

round_up(size) == ((size + UNIT - 1) \div UNIT) * UNIT

(* A block of the rounded size, at least as long as what was asked for. *)
Give(addr, size) == blocks' = blocks \cup {[addr |-> addr, len |-> size]}

TooLarge(size) ==
  /\ PAGE_SIZE < size
  /\ panicked' = TRUE
  /\ UNCHANGED <<free_list, next, used, drained, hvars>>

Fits(size) ==
  /\ size <= heap_end - heap_start
  /\ heap_end' = heap_end - size
  /\ Give(heap_end', size)
  /\ UNCHANGED <<heap_start, vars>>

(* The page goes to this request; the larger remainder is the block from   *)
(* now on.                                                                 *)
NewBlock_KeepEnd(size) ==
  LET new_block == Addr(free_list)
  IN  /\ size <= PAGE_SIZE /\ heap_end - heap_start < size
      /\ memory_alloc_page
      /\ IF panicked' THEN UNCHANGED hvars
         ELSE IF heap_end - heap_start < PAGE_SIZE - size
         THEN /\ heap_start' = new_block
              /\ heap_end' = new_block + PAGE_SIZE
              /\ Give(heap_end' - size, size)
         ELSE Give(new_block, size) /\ UNCHANGED <<heap_start, heap_end>>

NewBlock(size) ==
  LET new_block == Addr(free_list)
  IN  /\ size <= PAGE_SIZE /\ heap_end - heap_start < size
      /\ memory_alloc_page
      /\ IF panicked' THEN UNCHANGED hvars
         ELSE IF heap_end - heap_start < PAGE_SIZE - size
         THEN /\ heap_start' = new_block
              /\ heap_end' = new_block + PAGE_SIZE - size
              /\ Give(heap_end', size)
         ELSE Give(new_block, size) /\ UNCHANGED <<heap_start, heap_end>>

kmalloc(size) ==
  /\ ~panicked
  /\ \/ TooLarge(round_up(size))
     \/ round_up(size) <= PAGE_SIZE /\ Fits(round_up(size))
     \/ NewBlock(round_up(size))

(* The pages that the heap lives in. *)
HeapPage(p) ==
  \/ heap_start = Addr(p)
  \/ \E b \in blocks : b.addr >= Addr(p) /\ b.addr < Addr(p) + PAGE_SIZE

(* Other clients hold the other pages. *)
HeapNext ==
  \/ ~drained /\ \E size \in Size : kmalloc(size)  \* bound: not after the base page (see PageAlloc)
  \/ memory_alloc_page /\ UNCHANGED hvars
  \/ \E p \in used : ~HeapPage(p) /\ memory_free_page(p) /\ UNCHANGED hvars
  \/ \E p \in used, w \in Page \cup {NULL} : Store(p, w) /\ UNCHANGED hvars

HeapInit == memory_init /\ heap_init

HeapSpec == HeapInit /\ [][HeapNext]_<<vars, hvars>>

-----------------------------------------------------------------------------
Bytes(b) == b.addr..(b.addr + b.len - 1)

(* Every block that kmalloc has handed out is memory of its own: no two    *)
(* share a byte, none reaches into the block that the next requests are    *)
(* cut from, and each lies in the first heap or in one page that the page  *)
(* allocator counts as used, whatever other clients take and return.       *)
BlocksApart ==
  ~drained =>
    /\ \A b, c \in blocks : b # c => Bytes(b) \cap Bytes(c) = {}
    /\ \A b \in blocks : Bytes(b) \cap (heap_start..(heap_end - 1)) = {}
    /\ \A b \in blocks : \/ Bytes(b) \subseteq 0..(HEAP_INIT - 1)
                         \/ \E p \in used : Bytes(b) \subseteq Addr(p)..(Addr(p) + PAGE_SIZE - 1)
=============================================================================
