----------------------------- MODULE HeapProofs -----------------------------
(***************************************************************************)
(* Proofs about PageAlloc and Heap, for any number and size of pages, any  *)
(* sizes asked for and anything that clients store in their pages.         *)
(***************************************************************************)
EXTENDS Heap, WellFoundedInduction, TLAPS

Free == Page \ used

(* Why the list holds the free pages and no other, until the base page is  *)
(* handed out: it stays within them, no two of its pages have the same     *)
(* link and none links to the head, so taking the head off loses nothing   *)
(* and leaves no link to what was taken.                                   *)
Linked ==
  /\ free_list \in Free
  /\ Base \in Free /\ next[Base] = Base
  /\ \A p \in Free : next[p] \in Free
  /\ \A p, q \in Free \ {Base} : next[p] = next[q] => p = q
  /\ \A p \in Free \ {Base} : next[p] # free_list

Whole == \A S \in SUBSET Page : Closed(S) => Free \subseteq S

ListInv == TypeOK /\ (~drained => Linked /\ Whole)

(* Where the current block lies, where the blocks lie that were handed     *)
(* out, and that they are apart.  An empty block has no bytes to share.    *)
Within(addr, len, lo, hi) == lo <= addr /\ addr + len <= hi

InHeap(pages, addr, len) ==
  \/ Within(addr, len, 0, HEAP_INIT)
  \/ \E p \in pages : Within(addr, len, Addr(p), Addr(p) + PAGE_SIZE)

Apart(a, m, b, n) == m = 0 \/ n = 0 \/ a + m <= b \/ b + n <= a

CurrentBlock ==
  /\ heap_start \in Nat /\ heap_end \in Nat /\ heap_start <= heap_end
  /\ \/ heap_start = 0 /\ heap_end <= HEAP_INIT
     \/ \E p \in used : heap_start = Addr(p) /\ heap_end <= Addr(p) + PAGE_SIZE

BlockPlaces ==
  /\ \A b \in blocks :
       /\ b.addr \in Nat /\ b.len \in Nat
       /\ b.len # 0 => InHeap(used, b.addr, b.len)
       /\ Apart(b.addr, b.len, heap_start, heap_end - heap_start)
  /\ \A b, c \in blocks : b # c => Apart(b.addr, b.len, c.addr, c.len)

IInv == ListInv /\ (~drained => CurrentBlock /\ BlockPlaces)

-----------------------------------------------------------------------------
(* A set of naturals that is not empty has a least element: what the       *)
(* inductions below need.                                                  *)
LEMMA LeastNat ==
  ASSUME NEW T, T \subseteq Nat, T # {}
  PROVE  \E n \in T : \A m \in T : n <= m
<1> DEFINE R == {ss \in Nat \X Nat : ss[1] < ss[2]}
<1>1. IsWellFoundedOn(R, Nat)
    BY NatLessThanWellFounded, Zenon DEF OpToRel
<1>2. PICK n \in T : \A m \in T : ~(<<m, n>> \in R)
    <2> HIDE DEF R
    <2> QED BY Zenon, <1>1, WFMin
<1>3. ASSUME NEW m \in T, m < n PROVE FALSE
    <2>1. <<m, n>> \in R
        BY <1>3
    <2> QED BY <1>2, <2>1
<1>4. n \in Nat /\ T \subseteq Nat
    OBVIOUS
<1> QED BY <1>3, <1>4

(* memory_init links every page: a set that has the last page and, with a  *)
(* page, the one before it has them all.                                   *)
LEMMA LinkedAll ==
  ASSUME NEW S, PAGE_CNT \in S, \A p \in S : p > 1 /\ p \in Page => p - 1 \in S
  PROVE  Page \subseteq S
<1> DEFINE T == {k \in Nat : k < PAGE_CNT /\ PAGE_CNT - k \notin S}
<1>1. ASSUME T # {} PROVE FALSE
    <2>1. PICK k \in T : \A m \in T : k <= m
        <3> HIDE DEF T
        <3>1. T \subseteq Nat
            BY DEF T
        <3> QED BY Zenon, <1>1, <3>1, LeastNat
    <2>2. k # 0 /\ k - 1 \in Nat /\ ~(k <= k - 1)
        BY PageCntAssumption
    <2>3. k - 1 \notin T
        BY <2>1, <2>2
    <2>4. PAGE_CNT - (k - 1) \in S
        BY <2>1, <2>2, <2>3, PageCntAssumption
    <2>5. PAGE_CNT - (k - 1) - 1 \in S
        BY <2>1, <2>2, <2>4, PageCntAssumption DEF Page
    <2> QED BY <2>1, <2>5, PageCntAssumption
<1>2. ASSUME NEW p \in Page PROVE p \in S
    <2>1. PAGE_CNT - p \in Nat /\ PAGE_CNT - p < PAGE_CNT /\ PAGE_CNT - (PAGE_CNT - p) = p
        BY PageCntAssumption DEF Page
    <2> QED BY <1>1, <2>1
<1> QED BY <1>2

LEMMA ListInit == memory_init => ListInv
<1> SUFFICES ASSUME memory_init PROVE ListInv
    OBVIOUS
<1> USE PageCntAssumption DEF Page, NULL, Base
<1>0. \A p \in Page : linked[p] \in Page /\ (p > 1 => linked[p] = p - 1 /\ p - 1 # NULL)
    BY DEF linked
<1>1. TypeOK
    <2>1. linked \in [Page -> Page \cup {NULL}]
        BY <1>0 DEF linked
    <2>2. free_list \in Page \cup {NULL} /\ used \subseteq Page
        BY DEF memory_init
    <2>3. drained \in BOOLEAN /\ panicked \in BOOLEAN
        BY Zenon DEF memory_init
    <2>4. next \in [Page -> Page \cup {NULL}]
        BY <2>1 DEF memory_init
    <2> QED BY <2>2, <2>3, <2>4 DEF TypeOK
<1>2. Linked
    BY DEF memory_init, linked, Linked, Free
<1>3. Whole
    <2> SUFFICES ASSUME NEW S \in SUBSET Page, Closed(S) PROVE Page \subseteq S
        BY DEF Whole, Free
    <2>1. PAGE_CNT \in S /\ \A p \in S : p > 1 /\ p \in Page => p - 1 \in S
        BY <1>0 DEF memory_init, Closed
    <2> QED BY Zenon, <2>1, LinkedAll
<1> QED BY <1>1, <1>2, <1>3 DEF ListInv

LEMMA AllocOK ==
  ASSUME ListInv, memory_alloc_page
  PROVE  ListInv'
<1>1. TypeOK'
    BY Zenon, PageCntAssumption DEF ListInv, TypeOK, memory_alloc_page, Page, Base
<1> SUFFICES ASSUME ~drained' PROVE Linked' /\ Whole'
    BY <1>1 DEF ListInv
<1> DEFINE h == free_list
<1>2. /\ TypeOK /\ Linked /\ Whole /\ h \in Free /\ h # Base /\ h # NULL /\ NULL \notin Page
      /\ free_list' = next[h] /\ next' = [next EXCEPT ![h] = NULL] /\ used' = used \cup {h}
    <2>1. ~drained
        BY Zenon DEF memory_alloc_page
    <2>2. TypeOK /\ Linked /\ Whole /\ NULL \notin Page
        BY <2>1 DEF ListInv, Page, NULL
    <2>3. free_list \in Free /\ free_list # NULL
        BY <2>2 DEF Linked, Free
    <2> QED BY Zenon, <2>2, <2>3 DEF memory_alloc_page
<1> HIDE DEF h
<1>3. Free' = Free \ {h} /\ \A p \in Page : p # h => next'[p] = next[p]
    BY <1>2 DEF Free, TypeOK
<1>4. Linked'
    BY <1>2, <1>3 DEF Linked, Free, h
<1>5. Whole'
    <2> SUFFICES ASSUME NEW S \in SUBSET Page, Closed(S)' PROVE Free \ {h} \subseteq S
        BY <1>3 DEF Whole
    <2>1. next[h] \in Free
        BY <1>2 DEF Linked
    <2>2. next[h] \in S
        BY <1>2, <2>1 DEF Closed, Free
    <2>3. Closed(S \cup {h})
        BY <1>2, <1>3, <2>2 DEF Closed, h
    <2>4. S \cup {h} \in SUBSET Page
        BY <1>2 DEF Free
    <2> QED BY <1>2, <2>3, <2>4 DEF Whole
<1> QED BY <1>4, <1>5

(* What happens to the first words of used pages is of no account: the     *)
(* free pages of a closed set are closed.                                  *)
LEMMA FreePart ==
  ASSUME Linked, Whole, NEW S \in SUBSET Page, free_list \in S,
         \A p \in S \cap Free : next[p] \in S
  PROVE  Free \subseteq S
<1>1. Closed(S \cap Free)
    BY DEF Closed, Linked
<1> QED BY <1>1 DEF Whole

LEMMA FreeOK ==
  ASSUME ListInv, NEW p, memory_free_page(p)
  PROVE  ListInv'
<1>1. /\ TypeOK /\ p \in used /\ p \in Page /\ drained' = drained
      /\ free_list' = p /\ next' = [next EXCEPT ![p] = free_list] /\ used' = used \ {p}
    BY DEF ListInv, TypeOK, memory_free_page
<1>2. Free' = Free \cup {p} /\ p \notin Free
    BY <1>1 DEF Free
<1>3. next'[p] = free_list /\ \A q \in Page : q # p => next'[q] = next[q]
    BY <1>1 DEF TypeOK
<1>4. TypeOK'
    BY <1>1 DEF TypeOK, memory_free_page
<1> SUFFICES ASSUME ~drained' PROVE Linked' /\ Whole'
    BY <1>4 DEF ListInv
<1>5. Linked /\ Whole
    BY <1>1 DEF ListInv
<1>6. Linked'
    <2>1. free_list' \in Free' /\ Base \in Free' /\ next'[Base] = Base /\ p # Base
        BY <1>1, <1>2, <1>3, <1>5 DEF Linked, Free
    <2>2. \A q \in Free' : next'[q] \in Free'
        BY <1>1, <1>2, <1>3, <1>5 DEF Linked, Free
    <2>3. \A q, r \in Free' \ {Base} : next'[q] = next'[r] => q = r
        BY <1>1, <1>2, <1>3, <1>5 DEF Linked, Free
    <2>4. \A q \in Free' \ {Base} : next'[q] # free_list'
        BY <1>1, <1>2, <1>3, <1>5 DEF Linked, Free
    <2> QED BY <2>1, <2>2, <2>3, <2>4 DEF Linked
<1>7. Whole'
    <2> SUFFICES ASSUME NEW S \in SUBSET Page, Closed(S)' PROVE Free \cup {p} \subseteq S
        BY <1>2 DEF Whole
    <2>1. NULL \notin Page
        BY DEF NULL, Page
    <2>2. p \in S
        BY <1>1, <2>1 DEF Closed
    <2>3. free_list \in S
        BY <1>1, <1>3, <1>5, <2>1, <2>2 DEF Closed, Linked, Free
    <2>4. \A q \in S \cap Free : next[q] \in S
        BY <1>2, <1>3, <1>5, <2>1 DEF Closed, Linked, Free
    <2> QED BY <1>5, <2>2, <2>3, <2>4, FreePart
<1> QED BY <1>6, <1>7

LEMMA StoreOK ==
  ASSUME ListInv, NEW p \in used, NEW w \in Page \cup {NULL}, Store(p, w)
  PROVE  ListInv'
<1>1. /\ TypeOK /\ UNCHANGED <<free_list, used, drained>> /\ Free' = Free
      /\ \A q \in Free : next'[q] = next[q]
    BY DEF ListInv, TypeOK, Store, Free
<1>2. TypeOK'
    BY DEF ListInv, TypeOK, Store
<1> SUFFICES ASSUME ~drained' PROVE Linked' /\ Whole'
    BY <1>2 DEF ListInv
<1>3. Linked /\ Whole
    BY <1>1 DEF ListInv
<1>4. Linked'
    BY <1>1, <1>3 DEF Linked
<1>5. Whole'
    <2> SUFFICES ASSUME NEW S \in SUBSET Page, Closed(S)' PROVE Free \subseteq S
        BY <1>1 DEF Whole
    <2>1. NULL \notin Page
        BY DEF NULL, Page
    <2>2. free_list \in S /\ \A q \in S \cap Free : next[q] \in S
        BY <1>1, <1>3, <2>1 DEF Closed, Linked, Free
    <2> QED BY <1>3, <2>2, FreePart
<1> QED BY <1>4, <1>5

-----------------------------------------------------------------------------
(* Places in memory. *)

LEMMA Product ==
  ASSUME NEW b \in Nat, NEW m \in Nat, NEW n \in Nat, m <= n
  PROVE  m * b <= n * b
OBVIOUS

LEMMA PageAddr ==
  ASSUME NEW p \in Page
  PROVE  Addr(p) \in Nat /\ HEAP_INIT <= Addr(p)
<1>1. p - 1 \in Nat /\ PAGE_SIZE \in Nat /\ HEAP_INIT \in Nat
    BY HeapAssumption DEF Page
<1>2. (p - 1) * PAGE_SIZE \in Nat
    BY <1>1
<1> QED BY <1>1, <1>2 DEF Addr

LEMMA PageOrder ==
  ASSUME NEW p \in Page, NEW q \in Page, p < q
  PROVE  Addr(p) + PAGE_SIZE <= Addr(q)
<1>1. p - 1 \in Nat /\ q - 1 \in Nat /\ (p - 1) + 1 <= q - 1 /\ PAGE_SIZE \in Nat /\ HEAP_INIT \in Nat
    BY HeapAssumption DEF Page
<1>2. ((p - 1) + 1) * PAGE_SIZE <= (q - 1) * PAGE_SIZE
    BY <1>1, Product
<1>3. ((p - 1) + 1) * PAGE_SIZE = (p - 1) * PAGE_SIZE + PAGE_SIZE
    BY <1>1
<1> QED BY <1>1, <1>2, <1>3 DEF Addr

LEMMA RoundUp ==
  ASSUME NEW size \in Nat
  PROVE  round_up(size) \in Nat
<1>1. UNIT \in Nat \ {0} /\ size + UNIT - 1 \in Nat
    BY HeapAssumption
<1>2. (size + UNIT - 1) \div UNIT \in Nat
    BY <1>1
<1> QED BY <1>1, <1>2 DEF round_up

(* A free page shares nothing with what lies in the heap. *)
LEMMA FreshPage ==
  ASSUME TypeOK, NEW h \in Free, NEW a \in Nat, NEW m \in Nat, NEW b \in Nat, NEW n \in Nat,
         m # 0 => InHeap(used, a, m), Within(b, n, Addr(h), Addr(h) + PAGE_SIZE)
  PROVE  Apart(a, m, b, n)
<1> USE HeapAssumption DEF Within, Apart
<1>1. CASE Within(a, m, 0, HEAP_INIT)
    BY <1>1, PageAddr DEF Free
<1>2. ASSUME NEW p \in used, Within(a, m, Addr(p), Addr(p) + PAGE_SIZE) PROVE Apart(a, m, b, n)
    <2>1. p \in Page /\ h \in Page /\ p # h
        BY DEF TypeOK, Free
    <2>2. Addr(p) + PAGE_SIZE <= Addr(h) \/ Addr(h) + PAGE_SIZE <= Addr(p)
        BY <2>1, PageOrder DEF Page
    <2>3. Addr(p) \in Nat /\ Addr(h) \in Nat
        BY <2>1, PageAddr
    <2> HIDE DEF Addr
    <2> QED BY <1>2, <2>2, <2>3
<1> QED BY <1>1, <1>2 DEF InHeap

LEMMA CurrentInHeap ==
  ASSUME TypeOK, CurrentBlock
  PROVE  InHeap(used, heap_start, heap_end - heap_start)
<1>1. heap_start + (heap_end - heap_start) = heap_end
    BY DEF CurrentBlock
<1> QED BY <1>1 DEF CurrentBlock, InHeap, Within

(* A block is handed out: it lies in the heap, apart from the blocks that  *)
(* were and from what is left.                                             *)
LEMMA GiveOK ==
  ASSUME BlockPlaces, used \subseteq used',
         NEW addr \in Nat, NEW size \in Nat, Give(addr, size),
         size # 0 => InHeap(used', addr, size),
         Apart(addr, size, heap_start', heap_end' - heap_start'),
         \A b \in blocks : /\ Apart(b.addr, b.len, addr, size)
                           /\ Apart(b.addr, b.len, heap_start', heap_end' - heap_start')
  PROVE  BlockPlaces'
<1> DEFINE new == [addr |-> addr, len |-> size]
<1>1. blocks' = blocks \cup {new} /\ new.addr = addr /\ new.len = size
    BY DEF Give
<1> HIDE DEF new
<1>2. \A b \in blocks : /\ b.addr \in Nat /\ b.len \in Nat
                        /\ Apart(b.addr, b.len, new.addr, new.len)
                        /\ Apart(new.addr, new.len, b.addr, b.len)
    BY <1>1 DEF BlockPlaces, Apart
<1>3. \A a, m : InHeap(used, a, m) => InHeap(used', a, m)
    BY DEF InHeap
<1>4. \A b \in blocks' : b.addr \in Nat /\ b.len \in Nat /\ (b.len # 0 => InHeap(used', b.addr, b.len))
    BY <1>1, <1>3 DEF BlockPlaces
<1>5. \A b \in blocks' : Apart(b.addr, b.len, heap_start', heap_end' - heap_start')
    BY <1>1
<1>6. \A b, c \in blocks' : b # c => Apart(b.addr, b.len, c.addr, c.len)
    BY <1>1, <1>2 DEF BlockPlaces
<1> QED BY <1>4, <1>5, <1>6 DEF BlockPlaces, Apart

-----------------------------------------------------------------------------
(* kmalloc. *)

LEMMA FitsOK ==
  ASSUME IInv, ~drained, NEW size \in Nat, Fits(size)
  PROVE  IInv'
<1>1. TypeOK /\ ListInv /\ CurrentBlock /\ BlockPlaces
    BY DEF IInv, ListInv
<1>2. /\ size <= heap_end - heap_start /\ heap_end' = heap_end - size /\ heap_start' = heap_start
      /\ UNCHANGED vars /\ Give(heap_end - size, size) /\ used' = used
    BY DEF Fits, Give, vars
<1>3. ListInv'
    BY <1>1, <1>2 DEF vars, ListInv, TypeOK, Linked, Whole, Closed, Free
<1>4. heap_start \in Nat /\ heap_end \in Nat /\ heap_end - size \in Nat /\ heap_start <= heap_end - size
    BY <1>1, <1>2 DEF CurrentBlock
<1>5. CurrentBlock'
    BY <1>1, <1>2, <1>4, PageAddr, HeapAssumption DEF CurrentBlock, TypeOK, Addr
<1>6. BlockPlaces'
    <2>1. InHeap(used, heap_end - size, size)
        <3>1. (heap_end - size) + size = heap_end /\ 0 <= heap_start
            BY <1>4
        <3>2. CASE heap_start = 0 /\ heap_end <= HEAP_INIT
            BY <1>4, <3>1, <3>2 DEF InHeap, Within
        <3>3. ASSUME NEW p \in used, heap_start = Addr(p), heap_end <= Addr(p) + PAGE_SIZE
              PROVE  InHeap(used, heap_end - size, size)
            BY <1>4, <3>1, <3>3 DEF InHeap, Within
        <3> QED BY <1>1, <3>2, <3>3 DEF CurrentBlock
    <2>2. InHeap(used', heap_end - size, size)
        BY <1>2, <2>1
    <2>3. Apart(heap_end - size, size, heap_start, heap_end - size - heap_start)
        BY <1>4 DEF Apart
    <2>4. ASSUME NEW b \in blocks
          PROVE  /\ Apart(b.addr, b.len, heap_end - size, size)
                 /\ Apart(b.addr, b.len, heap_start, heap_end - size - heap_start)
        <3>1. b.addr \in Nat /\ b.len \in Nat /\ Apart(b.addr, b.len, heap_start, heap_end - heap_start)
            BY <1>1 DEF BlockPlaces
        <3> QED BY <1>2, <1>4, <3>1 DEF Apart
    <2> QED BY <1>1, <1>2, <1>4, <2>2, <2>3, <2>4, GiveOK
<1> QED BY <1>3, <1>5, <1>6 DEF IInv

LEMMA NewBlockOK ==
  ASSUME IInv, ~drained, NEW size \in Nat, NewBlock(size)
  PROVE  IInv'
<1>1. TypeOK /\ ListInv /\ CurrentBlock /\ BlockPlaces /\ memory_alloc_page
    BY DEF IInv, ListInv, NewBlock
<1>2. ListInv'
    BY <1>1, AllocOK
<1> SUFFICES CurrentBlock' /\ BlockPlaces'
    BY <1>2 DEF IInv
<1> DEFINE h == free_list
<1>3. h \in Free /\ h \in Page /\ h # NULL
    <2>1. h \in Free
        BY <1>1 DEF ListInv, Linked
    <2> QED BY <2>1 DEF Free, Page, NULL
<1>4. used' = used \cup {h} /\ panicked' = panicked /\ ~panicked
    BY <1>1, <1>3 DEF memory_alloc_page
<1> HIDE DEF h
<1>5. /\ Addr(h) \in Nat /\ heap_start \in Nat /\ heap_end \in Nat /\ heap_start <= heap_end
      /\ heap_end - heap_start \in Nat /\ PAGE_SIZE \in Nat /\ size <= PAGE_SIZE
    BY <1>1, <1>3, PageAddr, HeapAssumption DEF CurrentBlock, NewBlock
<1>6. \A p : Addr(p)' = Addr(p)
    BY DEF Addr
<1>7. ASSUME NEW a \in Nat, NEW m \in Nat, Within(a, m, Addr(h), Addr(h) + PAGE_SIZE)
      PROVE  /\ InHeap(used', a, m)
             /\ \A b \in blocks : Apart(b.addr, b.len, a, m)
             /\ Apart(heap_start, heap_end - heap_start, a, m)
    <2>1. InHeap(used', a, m)
        BY <1>4, <1>7 DEF InHeap, Within, Addr
    <2>2. Apart(heap_start, heap_end - heap_start, a, m)
        BY <1>1, <1>3, <1>5, <1>7, CurrentInHeap, FreshPage
    <2>3. ASSUME NEW b \in blocks PROVE Apart(b.addr, b.len, a, m)
        BY <1>1, <1>3, <1>7, FreshPage DEF BlockPlaces
    <2> QED BY <2>1, <2>2, <2>3
<1> USE DEF h
<1>8. CASE heap_end - heap_start < PAGE_SIZE - size
    <2>1. /\ heap_start' = Addr(h) /\ heap_end' = Addr(h) + PAGE_SIZE - size
          /\ Give(Addr(h) + PAGE_SIZE - size, size)
        BY <1>4, <1>8 DEF NewBlock, Give
    <2> HIDE DEF h
    <2> DEFINE top == Addr(h) + PAGE_SIZE - size
    <2>2. /\ top \in Nat /\ Addr(h) <= top /\ top + size = Addr(h) + PAGE_SIZE
          /\ top - Addr(h) \in Nat /\ Addr(h) + (top - Addr(h)) = top /\ top <= Addr(h) + PAGE_SIZE
        BY <1>5
    <2> HIDE DEF top
    <2>3. heap_start' = Addr(h) /\ heap_end' = top /\ Give(top, size)
        BY <2>1 DEF top
    <2>4. CurrentBlock'
        BY <1>4, <1>5, <1>6, <2>2, <2>3 DEF CurrentBlock
    <2>5. Within(top, size, Addr(h), Addr(h) + PAGE_SIZE)
        BY <2>2, <1>5 DEF Within
    <2>6. Within(Addr(h), top - Addr(h), Addr(h), Addr(h) + PAGE_SIZE)
        BY <2>2, <1>5 DEF Within
    <2>7. Apart(top, size, Addr(h), top - Addr(h))
        BY <2>2, <1>5 DEF Apart
    <2>8. \A b \in blocks : Apart(b.addr, b.len, top, size) /\ Apart(b.addr, b.len, Addr(h), top - Addr(h))
        BY <1>5, <1>7, <2>2, <2>5, <2>6
    <2>9. InHeap(used', top, size)
        BY <1>7, <2>2, <2>5
    <2>10. BlockPlaces'
        BY Zenon, <1>1, <1>4, <2>2, <2>3, <2>7, <2>8, <2>9, GiveOK
    <2> QED BY <2>4, <2>10
<1>9. CASE ~(heap_end - heap_start < PAGE_SIZE - size)
    <2>1. UNCHANGED <<heap_start, heap_end>> /\ Give(Addr(h), size)
        BY <1>4, <1>9 DEF NewBlock
    <2> HIDE DEF h
    <2>2. CurrentBlock'
        BY <1>1, <1>4, <1>6, <2>1 DEF CurrentBlock
    <2>3. Within(Addr(h), size, Addr(h), Addr(h) + PAGE_SIZE)
        BY <1>5 DEF Within
    <2>4. /\ InHeap(used', Addr(h), size) /\ \A b \in blocks : Apart(b.addr, b.len, Addr(h), size)
          /\ Apart(heap_start, heap_end - heap_start, Addr(h), size)
        BY <1>5, <1>7, <2>3
    <2>5. Apart(Addr(h), size, heap_start, heap_end - heap_start)
        BY <1>5, <2>4 DEF Apart
    <2>6. \A b \in blocks : Apart(b.addr, b.len, heap_start, heap_end - heap_start)
        BY <1>1 DEF BlockPlaces
    <2>7. BlockPlaces'
        BY Zenon, <1>1, <1>4, <1>5, <2>1, <2>4, <2>5, <2>6, GiveOK
    <2> QED BY <2>2, <2>7
<1> QED BY <1>8, <1>9

(* Steps that leave the heap alone: pages come to be used, and only pages  *)
(* that the heap does not live in cease to be.                             *)
LEMMA OthersOK ==
  ASSUME IInv, UNCHANGED hvars, ListInv',
         ~drained' => ~drained /\ \A p \in used : HeapPage(p) => p \in used'
  PROVE  IInv'
<1> SUFFICES ASSUME ~drained' PROVE CurrentBlock' /\ BlockPlaces'
    BY DEF IInv
<1>1. TypeOK /\ CurrentBlock /\ BlockPlaces /\ \A p \in used : HeapPage(p) => p \in used'
    BY DEF IInv, ListInv
<1>2. UNCHANGED <<heap_start, heap_end, blocks>> /\ \A p : Addr(p)' = Addr(p)
    BY DEF hvars, Addr
<1>3. CurrentBlock'
    BY <1>1, <1>2 DEF CurrentBlock, HeapPage
<1>4. ASSUME NEW b \in blocks, b.len # 0 PROVE InHeap(used', b.addr, b.len)
    <2>1. InHeap(used, b.addr, b.len) /\ b.addr \in Nat /\ b.len \in Nat
        BY <1>1, <1>4 DEF BlockPlaces
    <2>2. ASSUME NEW p \in used, Within(b.addr, b.len, Addr(p), Addr(p) + PAGE_SIZE)
          PROVE  p \in used'
        <3>1. Addr(p) \in Nat
            BY <1>1, PageAddr DEF TypeOK
        <3>2. b.addr >= Addr(p) /\ b.addr < Addr(p) + PAGE_SIZE
            BY <1>4, <2>1, <2>2, <3>1, HeapAssumption DEF Within
        <3> QED BY <1>1, <3>2 DEF HeapPage
    <2> QED BY <2>1, <2>2 DEF InHeap
<1>5. BlockPlaces'
    BY <1>1, <1>2, <1>4 DEF BlockPlaces, Apart
<1> QED BY <1>3, <1>5

LEMMA StepOK == IInv /\ [HeapNext]_<<vars, hvars>> => IInv'
<1> SUFFICES ASSUME IInv, [HeapNext]_<<vars, hvars>> PROVE IInv'
    OBVIOUS
<1>1. ListInv
    BY DEF IInv
<1>2. ASSUME ~drained, NEW sz \in Size, kmalloc(sz) PROVE IInv'
    <2>1. round_up(sz) \in Nat
        BY RoundUp, HeapAssumption
    <2>2. CASE TooLarge(round_up(sz))
        <3>1. UNCHANGED <<free_list, next, used, drained, hvars>> /\ panicked' = TRUE
            BY <2>2 DEF TooLarge
        <3>2. ListInv'
            BY <1>1, <3>1 DEF ListInv, TypeOK, Linked, Whole, Closed, Free
        <3> QED BY <3>1, <3>2, OthersOK
    <2>3. CASE Fits(round_up(sz))
        BY <1>2, <2>1, <2>3, FitsOK
    <2>4. CASE NewBlock(round_up(sz))
        BY <1>2, <2>1, <2>4, NewBlockOK
    <2> QED BY <1>2, <2>2, <2>3, <2>4 DEF kmalloc
<1>3. CASE memory_alloc_page /\ UNCHANGED hvars
    <2>1. used \subseteq used'
        BY <1>3 DEF memory_alloc_page
    <2>2. ~drained' => ~drained
        BY <1>3, Zenon DEF memory_alloc_page
    <2> QED BY <1>1, <1>3, <2>1, <2>2, AllocOK, OthersOK
<1>4. ASSUME NEW p \in used, ~HeapPage(p), memory_free_page(p), UNCHANGED hvars PROVE IInv'
    BY Zenon, <1>1, <1>4, FreeOK, OthersOK DEF memory_free_page
<1>5. ASSUME NEW p \in used, NEW w \in Page \cup {NULL}, Store(p, w), UNCHANGED hvars PROVE IInv'
    BY Zenon, <1>1, <1>5, StoreOK, OthersOK DEF Store
<1>6. CASE UNCHANGED <<vars, hvars>>
    <2>1. ListInv'
        BY <1>1, <1>6 DEF vars, ListInv, TypeOK, Linked, Whole, Closed, Free
    <2> QED BY <1>6, <2>1, OthersOK DEF vars
<1> QED BY <1>2, <1>3, <1>4, <1>5, <1>6 DEF HeapNext

LEMMA Invariant == HeapSpec => []IInv
<1>1. HeapInit => IInv
    BY ListInit, HeapAssumption DEF HeapInit, heap_init, IInv, CurrentBlock, BlockPlaces
<1> QED BY <1>1, StepOK, PTL DEF HeapSpec

(* No order of allocations, returns and stores by the holders of pages     *)
(* makes memory_alloc_page hand out a page twice or lose one, until it has *)
(* handed out the page at heap_end (memory.c:241-245, 264-312).            *)
THEOREM ListHoldsFreePages == HeapSpec => []ListIsComplement
<1>1. IInv => ListIsComplement
    <2> SUFFICES ASSUME TypeOK, Linked, Whole PROVE Listed = Page \ used
        BY DEF IInv, ListInv, ListIsComplement
    <2>1. Closed(Free) /\ Free \in SUBSET Page
        BY DEF Closed, Linked, Free
    <2>2. Listed \subseteq Free
        BY <2>1 DEF Listed
    <2>3. Free \subseteq Listed
        BY DEF Whole, Listed, Free
    <2> QED BY <2>2, <2>3 DEF Free
<1> QED BY <1>1, Invariant, PTL

(* Blocks that are apart share no byte. *)
LEMMA ApartBytes ==
  ASSUME NEW a \in Nat, NEW m \in Nat, NEW b \in Nat, NEW n \in Nat, Apart(a, m, b, n)
  PROVE  (a..(a + m - 1)) \cap (b..(b + n - 1)) = {}
BY DEF Apart

(* What kmalloc hands out is memory that nobody else has, for any sequence *)
(* of requests and any pages that other clients take and return meanwhile  *)
(* (ezheap.c).                                                             *)
THEOREM BlocksAreApart == HeapSpec => []BlocksApart
<1>1. IInv => BlocksApart
    <2> SUFFICES ASSUME IInv, ~drained PROVE BlocksApart
        BY DEF BlocksApart
    <2>1. TypeOK /\ CurrentBlock /\ BlockPlaces
        BY DEF IInv, ListInv
    <2>2. \A b, c \in blocks : b # c => Bytes(b) \cap Bytes(c) = {}
        BY Zenon, <2>1, ApartBytes DEF BlockPlaces, Bytes
    <2>3. ASSUME NEW b \in blocks PROVE Bytes(b) \cap (heap_start..(heap_end - 1)) = {}
        <3>1. heap_start \in Nat /\ heap_end - heap_start \in Nat
              /\ heap_start + (heap_end - heap_start) - 1 = heap_end - 1
            BY <2>1 DEF CurrentBlock
        <3>2. /\ b.addr \in Nat /\ b.len \in Nat
              /\ Apart(b.addr, b.len, heap_start, heap_end - heap_start)
            BY <2>1 DEF BlockPlaces
        <3>3. Bytes(b) \cap (heap_start..(heap_start + (heap_end - heap_start) - 1)) = {}
            BY Zenon, <3>1, <3>2, ApartBytes DEF Bytes
        <3> QED BY <3>1, <3>3
    <2>4. ASSUME NEW b \in blocks
          PROVE  \/ Bytes(b) \subseteq 0..(HEAP_INIT - 1)
                 \/ \E p \in used : Bytes(b) \subseteq Addr(p)..(Addr(p) + PAGE_SIZE - 1)
        <3>1. b.addr \in Nat /\ b.len \in Nat /\ (b.len # 0 => InHeap(used, b.addr, b.len))
            BY <2>1 DEF BlockPlaces
        <3>2. CASE b.len = 0
            BY <3>1, <3>2 DEF Bytes
        <3>3. CASE Within(b.addr, b.len, 0, HEAP_INIT)
            BY <3>1, <3>3, HeapAssumption DEF Within, Bytes
        <3>4. ASSUME NEW p \in used, Within(b.addr, b.len, Addr(p), Addr(p) + PAGE_SIZE)
              PROVE  Bytes(b) \subseteq Addr(p)..(Addr(p) + PAGE_SIZE - 1)
            <4>1. Addr(p) \in Nat /\ PAGE_SIZE \in Nat
                BY <2>1, PageAddr, HeapAssumption DEF TypeOK
            <4> QED BY <3>1, <3>4, <4>1 DEF Within, Bytes
        <3> QED BY <3>1, <3>2, <3>3, <3>4 DEF InHeap
    <2> QED BY <2>2, <2>3, <2>4 DEF BlocksApart
<1> QED BY <1>1, Invariant, PTL
=============================================================================
