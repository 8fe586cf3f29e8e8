---------------------------- MODULE MemoryProofs ----------------------------
(***************************************************************************)
(* Proofs about Memory, for any number of processes and pages, any         *)
(* geometry of the tables and any executables.                             *)
(*                                                                         *)
(* Sound is the part of the inductive invariant about memory: a page is    *)
(* free once or held once.  The operations of memory.c preserve it because *)
(* each takes pages from the free list, one place for each, or gives back  *)
(* what one entry held; their loops are followed round by round.  From     *)
(* what each does to memory follow isolation, the copies of fork and the   *)
(* account of lost pages.                                                  *)
(***************************************************************************)
EXTENDS Memory, FiniteSetTheorems, TLAPS

-----------------------------------------------------------------------------
(* Definitions *)

Memories ==
  [free : Seq(Page), top : [Root -> Page \cup {NULL}],
   low : [Root -> [Group -> Page \cup {NULL}]],
   pte : [Root -> [VPage -> Entry]], word : [Page -> Word]]

\* The flags of a leaf of the tables.
Rights == {flags \in SUBSET Flag : flags \cap Access # {}}

Kind == {"root", "top", "low", "pte"}

(* Space r, one of R, holds page p as its root, as its level-1 table, as   *)
(* the table of group j or as the page mapped at j.                        *)
Holds(m, R, k, r, j, p) ==
  /\ r \in R
  /\ \/ k = "root" /\ j = 0 /\ r = p
     \/ k = "top" /\ j = 0 /\ m.top[r] = p
     \/ k = "low" /\ j \in Group /\ m.low[r][j] = p
     \/ k = "pte" /\ j \in VPage /\ m.pte[r][j].v /\ m.pte[r][j].ppn = p

Unheld(m, R, p) ==
  \A k \in Kind, r \in Root, j \in VPage : ~Holds(m, R, k, r, j, p)

(* No page is held twice. *)
Apart(m, R) ==
  \A p \in Page, k1, k2 \in Kind, r1, r2 \in Root, j1, j2 \in VPage :
    Holds(m, R, k1, r1, j1, p) /\ Holds(m, R, k2, r2, j2, p) =>
      k1 = k2 /\ r1 = r2 /\ j1 = j2

(* A page is free once, and not held then. *)
FreeOnce(m, R) ==
  /\ \A i, j \in 1..Len(m.free) : m.free[i] = m.free[j] => i = j
  /\ \A p \in Range(m.free) : Unheld(m, R, p)

(* A valid entry has a page and a right, and a space of no process is      *)
(* empty.                                                                  *)
Filled(m, R) ==
  /\ \A r \in Root, v \in VPage : m.pte[r][v].v =>
       m.pte[r][v].ppn \in Page /\ m.pte[r][v].flags \cap Access # {}
  /\ \A r \in Root \ R :
       /\ m.top[r] = NULL
       /\ \A g \in Group : m.low[r][g] = NULL
       /\ \A v \in VPage : ~m.pte[r][v].v

Sound(m, R) ==
  /\ m \in Memories /\ R \subseteq Root
  /\ Apart(m, R) /\ FreeOnce(m, R) /\ Filled(m, R)

(* m1 is m after space r has taken pages from the free list: for tables it *)
(* lacked and for entries, of which only those in W may have been valid.   *)
Grown(m, m1, R, r, W) ==
  /\ Sound(m1, R)
  /\ Range(m1.free) \subseteq Range(m.free)
  /\ \A x \in Root \ {r} :
       m1.top[x] = m.top[x] /\ m1.low[x] = m.low[x] /\ m1.pte[x] = m.pte[x]
  /\ m.top[r] # NULL => m1.top[r] = m.top[r]
  /\ \A g \in Group : m.low[r][g] # NULL => m1.low[r][g] = m.low[r][g]
  /\ \A v \in VPage \ W : m.pte[r][v].v => m1.pte[r][v] = m.pte[r][v]
  /\ \A q \in Page \ Range(m.free) : m1.word[q] = m.word[q]
  /\ \A k \in Kind, j \in VPage, q \in Page :
       Holds(m1, R, k, r, j, q) => Holds(m, R, k, r, j, q) \/ q \in Range(m.free)
  /\ \A q \in Range(m.free) \ Range(m1.free) :
       \E k \in Kind, j \in VPage : Holds(m1, R, k, r, j, q)

-----------------------------------------------------------------------------
(* Constants and sequences *)

\* The static root is no page, and 0 is neither.
LEMMA ConstantFacts ==
    /\ NULL \notin Root /\ NULL \notin Page
    /\ Page \subseteq Root /\ main_pt2 \in Root /\ main_pt2 \notin Page
    /\ Page \subseteq Nat /\ VPage \subseteq Nat /\ 0 \in VPage
    /\ None \notin Proc /\ MAIN \in Proc
    /\ \A v \in Nat : v \in VPage <=> v < VPAGES
  BY MemoryAssumption DEF NULL, Page, Root, main_pt2, VPage, None

\* The level-0 tables that a walk reaches.
LEMMA GroupFacts ==
    /\ Group \subseteq VPage
    /\ \A v \in VPage : v \div PER_TABLE \in Group
  <1>1. \A v \in VPage : v \div PER_TABLE \in 0..v
    BY MemoryAssumption DEF VPage
  <1>2. \A v \in VPage : 0..v \subseteq VPage
    BY MemoryAssumption DEF VPage
  <1> QED BY Zenon, <1>1, <1>2 DEF Group

\* A page leaves the list of free pages at its head.
LEMMA TailFacts ==
    ASSUME NEW s \in Seq(Page), s # <<>>,
           \A i, j \in 1..Len(s) : s[i] = s[j] => i = j
    PROVE  /\ Head(s) \in Page /\ Head(s) \in Range(s)
           /\ Tail(s) \in Seq(Page) /\ Len(Tail(s)) = Len(s) - 1
           /\ Range(Tail(s)) = Range(s) \ {Head(s)}
           /\ \A i, j \in 1..Len(Tail(s)) : Tail(s)[i] = Tail(s)[j] => i = j
  <1>1. /\ Len(s) \in Nat \ {0} /\ DOMAIN s = 1..Len(s) /\ Head(s) = s[1]
        /\ Head(s) \in Page /\ Tail(s) \in Seq(Page) /\ Len(Tail(s)) = Len(s) - 1
        /\ DOMAIN Tail(s) = 1..(Len(s) - 1)
        /\ \A i \in 1..(Len(s) - 1) : Tail(s)[i] = s[i + 1]
    OBVIOUS
  <1>2. Head(s) \in Range(s)
    BY <1>1 DEF Range
  <1>3. \A i, j \in 1..Len(Tail(s)) : Tail(s)[i] = Tail(s)[j] => i = j
    BY <1>1
  <1>4. Range(Tail(s)) \subseteq Range(s) \ {Head(s)}
    BY <1>1 DEF Range
  <1>5. ASSUME NEW x \in Range(s), x # Head(s) PROVE x \in Range(Tail(s))
    <2>1. PICK i \in 1..Len(s) : s[i] = x
      BY Zenon, <1>1, <1>5 DEF Range
    <2>2. i - 1 \in 1..(Len(s) - 1) /\ Tail(s)[i - 1] = x
      BY <1>1, <2>1, <1>5
    <2> QED BY Zenon, <2>2, <1>1 DEF Range
  <1> QED BY Zenon, <1>1, <1>2, <1>3, <1>4, <1>5

\* A page joins the list of free pages at its head.
LEMMA PushFacts ==
    ASSUME NEW s \in Seq(Page), NEW p \in Page, p \notin Range(s),
           \A i, j \in 1..Len(s) : s[i] = s[j] => i = j
    PROVE  /\ <<p>> \o s \in Seq(Page)
           /\ Range(<<p>> \o s) = Range(s) \cup {p}
           /\ \A i, j \in 1..Len(<<p>> \o s) : (<<p>> \o s)[i] = (<<p>> \o s)[j] => i = j
  <1> DEFINE t == <<p>> \o s
  <1>1. /\ t \in Seq(Page) /\ Len(t) = Len(s) + 1 /\ DOMAIN t = 1..(Len(s) + 1)
        /\ DOMAIN s = 1..Len(s) /\ Len(s) \in Nat
        /\ t[1] = p /\ \A i \in 2..(Len(s) + 1) : t[i] = s[i - 1]
    OBVIOUS
  <1> HIDE DEF t
  <1>2. Range(t) = Range(s) \cup {p}
    <2>1. ASSUME NEW x \in Range(t), x # p PROVE x \in Range(s)
      <3>1. PICK i \in 1..(Len(s) + 1) : t[i] = x
        BY Zenon, <1>1 DEF Range
      <3>2. i - 1 \in 1..Len(s) /\ s[i - 1] = x
        BY <1>1, <3>1, <2>1
      <3> QED BY Zenon, <1>1, <3>2 DEF Range
    <2>2. p \in Range(t)
      BY <1>1 DEF Range
    <2>3. ASSUME NEW x \in Range(s) PROVE x \in Range(t)
      <3>1. PICK i \in 1..Len(s) : s[i] = x
        BY Zenon, <1>1 DEF Range
      <3>2. i + 1 \in 1..(Len(s) + 1) /\ t[i + 1] = x
        BY <1>1, <3>1
      <3> QED BY Zenon, <1>1, <3>2 DEF Range
    <2> QED BY Zenon, <2>1, <2>2, <2>3
  <1>3. \A i, j \in 1..Len(t) : t[i] = t[j] => i = j
    <2> SUFFICES ASSUME NEW i \in 1..Len(t), NEW j \in 1..Len(t), t[i] = t[j] PROVE i = j
      BY Zenon
    <2>1. \A n \in 2..(Len(s) + 1) : t[n] # p
      BY <1>1 DEF Range
    <2>2. CASE i = 1 \/ j = 1
      BY ONLY <1>1, <2>1, <2>2, i \in 1..Len(t), j \in 1..Len(t), t[i] = t[j]
    <2>3. CASE i # 1 /\ j # 1
      <3>1. i - 1 \in 1..Len(s) /\ j - 1 \in 1..Len(s) /\ t[i] = s[i - 1] /\ t[j] = s[j - 1]
        BY ONLY <1>1, <2>3, i \in 1..Len(t), j \in 1..Len(t)
      <3>2. i - 1 = j - 1
        BY Zenon, <3>1
      <3> QED BY ONLY <3>2, i \in 1..Len(t), j \in 1..Len(t), <1>1
    <2> QED BY Zenon, <2>2, <2>3
  <1> QED BY Zenon, <1>1, <1>2, <1>3 DEF t

-----------------------------------------------------------------------------
(* Taking and placing pages *)

\* alloc_page takes the first free page and clears it.
LEMMA AllocFacts ==
    ASSUME NEW m \in Memories, m.free # <<>>
    PROVE  /\ alloc_page(m) \in Memories
           /\ alloc_page(m).free = Tail(m.free)
           /\ alloc_page(m).top = m.top /\ alloc_page(m).low = m.low
           /\ alloc_page(m).pte = m.pte
           /\ \A q \in Page : q # Head(m.free) => alloc_page(m).word[q] = m.word[q]
  <1>1. Head(m.free) \in Page /\ Tail(m.free) \in Seq(Page)
    BY DEF Memories
  <1>2. 0 \in Word
    BY Zenon DEF Word
  <1> QED BY Zenon, <1>1, <1>2 DEF Memories, alloc_page

\* Spaces with the same tables hold the same pages.
LEMMA HoldsSame ==
    ASSUME NEW m, NEW m1, NEW R,
           m1.top = m.top, m1.low = m.low, m1.pte = m.pte
    PROVE  \A k, r, j, p : Holds(m1, R, k, r, j, p) <=> Holds(m, R, k, r, j, p)
  BY DEF Holds

\* A page that was taken is no longer free and not yet held.
LEMMA TakeFacts ==
    ASSUME NEW m, NEW R, Sound(m, R), m.free # <<>>
    PROVE  /\ Sound(alloc_page(m), R)
           /\ Head(m.free) \in Range(m.free) /\ Head(m.free) \in Page
           /\ Unheld(alloc_page(m), R, Head(m.free))
           /\ Range(alloc_page(m).free) = Range(m.free) \ {Head(m.free)}
           /\ Len(alloc_page(m).free) = Len(m.free) - 1
  <1> DEFINE p  == Head(m.free)
             m1 == alloc_page(m)
  <1>1. /\ m \in Memories /\ m.free \in Seq(Page)
        /\ Apart(m, R) /\ FreeOnce(m, R) /\ Filled(m, R) /\ R \subseteq Root
    BY Zenon DEF Sound, Memories
  <1>2. /\ m1 \in Memories /\ m1.free = Tail(m.free)
        /\ m1.top = m.top /\ m1.low = m.low /\ m1.pte = m.pte
    BY Zenon, <1>1, AllocFacts
  <1>3. /\ p \in Page /\ p \in Range(m.free)
        /\ Len(m1.free) = Len(m.free) - 1 /\ Range(m1.free) = Range(m.free) \ {p}
        /\ \A i, j \in 1..Len(m1.free) : m1.free[i] = m1.free[j] => i = j
    <2>1. \A i, j \in 1..Len(m.free) : m.free[i] = m.free[j] => i = j
      BY Zenon, <1>1 DEF FreeOnce
    <2> HIDE DEF m1
    <2> QED BY Zenon, <1>1, <1>2, <2>1, TailFacts
  <1> HIDE DEF p, m1
  <1>4. \A k, r, j, q : Holds(m1, R, k, r, j, q) <=> Holds(m, R, k, r, j, q)
    BY Zenon, <1>2, HoldsSame
  <1>5. Apart(m1, R)
    BY <1>1, <1>4 DEF Apart
  <1>6. \A q \in Range(m.free) : Unheld(m1, R, q)
    BY Zenon, <1>1, <1>4 DEF FreeOnce, Unheld
  <1>7. Filled(m1, R)
    BY <1>1, <1>2 DEF Filled
  <1> QED BY Zenon, <1>1, <1>2, <1>3, <1>5, <1>6, <1>7 DEF Sound, FreeOnce, p, m1

\* The only page that m1 holds and m does not is p, held as k at j of r.
OnlyNew(m, R, m1, R1, k, r, j, p) ==
  \A k1 \in Kind, r1 \in Root, j1 \in VPage, q \in Page :
    Holds(m1, R1, k1, r1, j1, q) =>
      \/ Holds(m, R, k1, r1, j1, q)
      \/ q = p /\ k1 = k /\ r1 = r /\ j1 = j

\* A page that was taken may be put in an empty place.
LEMMA PlaceFacts ==
    ASSUME NEW m, NEW R, Sound(m, R),
           NEW p \in Page, p \notin Range(m.free), Unheld(m, R, p),
           NEW k, NEW r, NEW j, NEW R1 \in SUBSET Root,
           NEW m1 \in Memories, m1.free = m.free, Filled(m1, R1),
           OnlyNew(m, R, m1, R1, k, r, j, p)
    PROVE  Sound(m1, R1)
  <1>1. /\ m \in Memories /\ m.free \in Seq(Page) /\ Range(m.free) \subseteq Page
        /\ Apart(m, R) /\ FreeOnce(m, R) /\ R \subseteq Root
    BY DEF Sound, Memories, Range
  <1>2. Apart(m1, R1)
    <2> SUFFICES ASSUME NEW q \in Page, NEW k1 \in Kind, NEW k2 \in Kind,
                        NEW r1 \in Root, NEW r2 \in Root,
                        NEW j1 \in VPage, NEW j2 \in VPage,
                        Holds(m1, R1, k1, r1, j1, q), Holds(m1, R1, k2, r2, j2, q)
                 PROVE  k1 = k2 /\ r1 = r2 /\ j1 = j2
      BY ZenonT(60) DEF Apart
    <2>1. CASE q = p
      BY <2>1 DEF Unheld, OnlyNew
    <2>2. CASE q # p
      <3>1. Holds(m, R, k1, r1, j1, q) /\ Holds(m, R, k2, r2, j2, q)
        BY Zenon, <2>2 DEF OnlyNew
      <3> QED BY Zenon, <1>1, <3>1 DEF Apart
    <2> QED BY Zenon, <2>1, <2>2
  <1>3. FreeOnce(m1, R1)
    <2>1. ASSUME NEW q \in Range(m.free) PROVE Unheld(m1, R1, q)
      <3>1. q \in Page /\ q # p /\ Unheld(m, R, q)
        BY Zenon, <1>1, <2>1 DEF FreeOnce
      <3> QED BY Zenon, <3>1 DEF Unheld, OnlyNew
    <2> QED BY Zenon, <1>1, <2>1 DEF FreeOnce
  <1> QED BY Zenon, <1>1, <1>2, <1>3 DEF Sound

-----------------------------------------------------------------------------
(* Tables *)

\* A page p that was taken becomes the level-1 table of r.
LEMMA PlaceTop ==
    ASSUME NEW m, NEW R, Sound(m, R), NEW r \in R,
           NEW p \in Page, p \notin Range(m.free), Unheld(m, R, p),
           NEW m1 \in Memories, m1.free = m.free, m1.low = m.low, m1.pte = m.pte,
           m1.top[r] = p, \A x \in Root \ {r} : m1.top[x] = m.top[x]
    PROVE  Sound(m1, R)
  <1>1. Filled(m1, R)
    BY DEF Sound, Filled
  <1>2. OnlyNew(m, R, m1, R, "top", r, 0, p)
    BY DEF OnlyNew, Holds
  <1>3. R \in SUBSET Root
    BY Zenon DEF Sound
  <1> QED BY ONLY Zenon, <1>1, <1>2, <1>3, Sound(m, R), p \in Page, p \notin Range(m.free),
                  Unheld(m, R, p), m1 \in Memories, m1.free = m.free, PlaceFacts

\* A page p that was taken becomes the table of group g of r.
LEMMA PlaceLow ==
    ASSUME NEW m, NEW R, Sound(m, R), NEW r \in R, NEW g \in Group,
           NEW p \in Page, p \notin Range(m.free), Unheld(m, R, p),
           NEW m1 \in Memories, m1.free = m.free, m1.top = m.top, m1.pte = m.pte,
           m1.low[r][g] = p, \A h \in Group \ {g} : m1.low[r][h] = m.low[r][h],
           \A x \in Root \ {r} : m1.low[x] = m.low[x]
    PROVE  Sound(m1, R)
  <1>1. Filled(m1, R)
    BY DEF Sound, Filled
  <1>2. OnlyNew(m, R, m1, R, "low", r, g, p)
    BY DEF OnlyNew, Holds
  <1>3. R \in SUBSET Root
    BY Zenon DEF Sound
  <1> QED BY ONLY Zenon, <1>1, <1>2, <1>3, Sound(m, R), p \in Page, p \notin Range(m.free),
                  Unheld(m, R, p), m1 \in Memories, m1.free = m.free, PlaceFacts

\* A page that was taken is mapped at v of r.
LEMMA PlacePte ==
    ASSUME NEW m, NEW R, Sound(m, R), NEW r \in R, NEW v \in VPage,
           NEW p \in Page, p \notin Range(m.free), Unheld(m, R, p),
           NEW m1 \in Memories, m1.free = m.free, m1.top = m.top, m1.low = m.low,
           m1.pte[r][v].ppn = p, m1.pte[r][v].flags \cap Access # {},
           \A w \in VPage \ {v} : m1.pte[r][w] = m.pte[r][w],
           \A x \in Root \ {r} : m1.pte[x] = m.pte[x]
    PROVE  Sound(m1, R)
  <1>1. Filled(m1, R)
    BY DEF Sound, Filled
  <1>2. OnlyNew(m, R, m1, R, "pte", r, v, p)
    BY DEF OnlyNew, Holds
  <1>3. R \in SUBSET Root
    BY Zenon DEF Sound
  <1> QED BY ONLY Zenon, <1>1, <1>2, <1>3, Sound(m, R), p \in Page, p \notin Range(m.free),
                  Unheld(m, R, p), m1 \in Memories, m1.free = m.free, PlaceFacts

-----------------------------------------------------------------------------
(* Growing a space *)

\* A space grows by nothing,
LEMMA GrownRefl ==
    ASSUME NEW m, NEW R, Sound(m, R), NEW r
    PROVE  Grown(m, m, R, r, {})
  BY Zenon DEF Grown

\* and step by step.
LEMMA GrownTrans ==
    ASSUME NEW m, NEW m1, NEW m2, NEW R, NEW r, NEW W, Sound(m, R),
           Grown(m, m1, R, r, {}), Grown(m1, m2, R, r, W),
           W = {} \/ m1.pte = m.pte
    PROVE  Grown(m, m2, R, r, W)
  <1>1. Sound(m2, R) /\ Range(m2.free) \subseteq Range(m.free)
    BY Zenon DEF Grown
  <1>2. /\ \A x \in Root \ {r} :
             m2.top[x] = m.top[x] /\ m2.low[x] = m.low[x] /\ m2.pte[x] = m.pte[x]
        /\ m.top[r] # NULL => m2.top[r] = m.top[r]
        /\ \A g \in Group : m.low[r][g] # NULL => m2.low[r][g] = m.low[r][g]
        /\ \A v \in VPage \ W : m.pte[r][v].v => m2.pte[r][v] = m.pte[r][v]
    BY ZenonT(60) DEF Grown
  <1>3. \A q \in Page \ Range(m.free) : m2.word[q] = m.word[q]
    BY ZenonT(60) DEF Grown
  <1>4. \A k \in Kind, j \in VPage, q \in Page :
          Holds(m2, R, k, r, j, q) => Holds(m, R, k, r, j, q) \/ q \in Range(m.free)
    BY Zenon DEF Grown
  <1>5. ASSUME NEW q \in Range(m.free) \ Range(m2.free)
        PROVE  \E k \in Kind, j \in VPage : Holds(m2, R, k, r, j, q)
    <2>1. CASE q \in Range(m1.free)
      BY Zenon, <2>1, <1>5 DEF Grown
    <2>2. CASE q \notin Range(m1.free)
      <3>1. PICK k \in Kind, j \in VPage : Holds(m1, R, k, r, j, q)
        BY Zenon, <2>2, <1>5 DEF Grown
      <3>2. q # NULL /\ Unheld(m, R, q) /\ r \in Root
        BY <1>5, <3>1, ConstantFacts DEF Sound, FreeOnce, Memories, Range, Holds
      <3>3. k = "pte" => W = {}
        BY Zenon, <3>1, <3>2, ConstantFacts DEF Unheld, Holds
      <3>4. Holds(m2, R, k, r, j, q)
        BY <3>1, <3>2, <3>3 DEF Grown, Holds
      <3> QED BY Zenon, <3>4
    <2> QED BY Zenon, <2>1, <2>2
  <1> QED BY Zenon, <1>1, <1>2, <1>3, <1>4, <1>5 DEF Grown

\* What growth leaves alone: pages held by a space, and pages in transit.
LEMMA GrownKeeps ==
    ASSUME NEW m, NEW m1, NEW R, NEW r, Sound(m, R), Grown(m, m1, R, r, {})
    PROVE  /\ \A k \in Kind, x \in Root, j \in VPage, q \in Page :
                Holds(m, R, k, x, j, q) => Holds(m1, R, k, x, j, q)
           /\ \A q \in Page : q \notin Range(m.free) /\ Unheld(m, R, q) =>
                q \notin Range(m1.free) /\ Unheld(m1, R, q)
  <1>1. \A k \in Kind, x \in Root, j \in VPage, q \in Page :
          Holds(m, R, k, x, j, q) => Holds(m1, R, k, x, j, q)
    <2> SUFFICES ASSUME NEW k \in Kind, NEW x \in Root, NEW j \in VPage, NEW q \in Page,
                        Holds(m, R, k, x, j, q)
                 PROVE  Holds(m1, R, k, x, j, q)
      BY Zenon
    <2>1. q # NULL
      BY Zenon, ConstantFacts
    <2>2. CASE x = r
      BY <2>1, <2>2 DEF Holds, Grown
    <2>3. CASE x # r
      BY Zenon, <2>3 DEF Holds, Grown
    <2> QED BY Zenon, <2>2, <2>3
  <1>2. ASSUME NEW q \in Page, q \notin Range(m.free), Unheld(m, R, q)
        PROVE  q \notin Range(m1.free) /\ Unheld(m1, R, q)
    <2>1. ASSUME NEW k \in Kind, NEW x \in Root, NEW j \in VPage, Holds(m1, R, k, x, j, q)
          PROVE  FALSE
      <3>1. CASE x = r
        BY Zenon, <2>1, <3>1, <1>2 DEF Grown, Unheld
      <3>2. CASE x # r
        <4>1. Holds(m, R, k, x, j, q)
          BY Zenon, <2>1, <3>2 DEF Grown, Holds
        <4> QED BY Zenon, <4>1, <1>2 DEF Unheld
      <3> QED BY Zenon, <3>1, <3>2
    <2> QED BY Zenon, <2>1, <1>2 DEF Grown, Unheld
  <1> QED BY Zenon, <1>1, <1>2

-----------------------------------------------------------------------------
(* walk_pt *)

AddTop(m, r) == [alloc_page(m) EXCEPT !.top[r] = Head(m.free)]
AddLow(m, r, g) == [alloc_page(m) EXCEPT !.low[r][g] = Head(m.free)]

\* A missing level-1 table is taken from the free pages.
LEMMA TakeTop ==
    ASSUME NEW m, NEW R, Sound(m, R), NEW r \in R, m.top[r] = NULL, m.free # <<>>,
           NEW m1, m1 = AddTop(m, r)
    PROVE  /\ Grown(m, m1, R, r, {}) /\ m1.pte = m.pte /\ m1.low = m.low
           /\ m1.top[r] # NULL /\ Len(m1.free) = Len(m.free) - 1
  <1> DEFINE a == alloc_page(m)
             p == Head(m.free)
  <1>1. /\ Sound(a, R) /\ p \in Range(m.free) /\ p \in Page /\ Unheld(a, R, p)
        /\ Range(a.free) = Range(m.free) \ {p} /\ Len(a.free) = Len(m.free) - 1
    BY Zenon, TakeFacts
  <1>2. /\ m \in Memories /\ a \in Memories
        /\ a.top = m.top /\ a.low = m.low /\ a.pte = m.pte
        /\ \A q \in Page : q # p => a.word[q] = m.word[q]
    BY Zenon, <1>1, AllocFacts DEF Sound
  <1> HIDE DEF a, p
  <1>3. /\ m1 \in Memories /\ m1.free = a.free /\ m1.low = a.low
        /\ m1.pte = a.pte /\ m1.word = a.word
        /\ m1.top[r] = p /\ \A x \in Root \ {r} : m1.top[x] = a.top[x]
    <2>1. m1 = [a EXCEPT !.top[r] = p] /\ r \in Root
      BY Zenon DEF Sound, AddTop, a, p
    <2> QED BY ONLY Zenon, <1>1, <1>2, <2>1 DEF Memories
  <1>4. Sound(m1, R)
    BY ONLY Zenon, <1>1, <1>3, r \in R, PlaceTop
  <1>5. \A k \in Kind, j \in VPage, q \in Page :
          Holds(m1, R, k, r, j, q) => Holds(m, R, k, r, j, q) \/ q \in Range(m.free)
    BY ZenonT(60), <1>1, <1>2, <1>3 DEF Holds
  <1>6. Holds(m1, R, "top", r, 0, p) /\ 0 \in VPage /\ "top" \in Kind
    BY Zenon, <1>3, ConstantFacts DEF Holds, Kind
  <1>7. p # NULL
    BY Zenon, <1>1, ConstantFacts
  <1> QED BY <1>1, <1>2, <1>3, <1>4, <1>5, <1>6, <1>7 DEF Grown

\* A missing table of a group is taken from the free pages.
LEMMA TakeLow ==
    ASSUME NEW m, NEW R, Sound(m, R), NEW r \in R, NEW g \in Group,
           m.low[r][g] = NULL, m.free # <<>>,
           NEW m1, m1 = AddLow(m, r, g)
    PROVE  /\ Grown(m, m1, R, r, {}) /\ m1.pte = m.pte /\ m1.top = m.top
           /\ m1.low[r][g] # NULL /\ \A h \in Group \ {g} : m1.low[r][h] = m.low[r][h]
           /\ Len(m1.free) = Len(m.free) - 1
  <1> DEFINE a == alloc_page(m)
             p == Head(m.free)
  <1>1. /\ Sound(a, R) /\ p \in Range(m.free) /\ p \in Page /\ Unheld(a, R, p)
        /\ Range(a.free) = Range(m.free) \ {p} /\ Len(a.free) = Len(m.free) - 1
    BY Zenon, TakeFacts
  <1>2. /\ m \in Memories /\ a \in Memories
        /\ a.top = m.top /\ a.low = m.low /\ a.pte = m.pte
        /\ \A q \in Page : q # p => a.word[q] = m.word[q]
    BY Zenon, <1>1, AllocFacts DEF Sound
  <1> HIDE DEF a, p
  <1>3. /\ m1 \in Memories /\ m1.free = a.free /\ m1.top = a.top
        /\ m1.pte = a.pte /\ m1.word = a.word
        /\ m1.low[r][g] = p /\ \A h \in Group \ {g} : m1.low[r][h] = a.low[r][h]
        /\ \A x \in Root \ {r} : m1.low[x] = a.low[x]
    <2>1. m1 = [a EXCEPT !.low[r][g] = p] /\ r \in Root /\ g \in Group
      BY Zenon DEF Sound, AddLow, a, p
    <2> QED BY ONLY Zenon, <1>1, <1>2, <2>1 DEF Memories
  <1>4. Sound(m1, R)
    BY ONLY <1>1, <1>3, r \in R, g \in Group, PlaceLow
  <1>5. \A k \in Kind, j \in VPage, q \in Page :
          Holds(m1, R, k, r, j, q) => Holds(m, R, k, r, j, q) \/ q \in Range(m.free)
    BY <1>1, <1>2, <1>3 DEF Holds
  <1>6. Holds(m1, R, "low", r, g, p) /\ g \in VPage /\ "low" \in Kind
    BY Zenon, <1>3, GroupFacts DEF Holds, Kind
  <1>7. p # NULL
    BY Zenon, <1>1, ConstantFacts
  <1> QED BY <1>1, <1>2, <1>3, <1>4, <1>5, <1>6, <1>7 DEF Grown

\* The tables that walk_pt adds to reach v in r.
Missing(m, r, v) ==
  (IF m.top[r] = NULL THEN 1 ELSE 0)
    + (IF m.low[r][v \div PER_TABLE] = NULL THEN 1 ELSE 0)

\* At most the two tables below the root are missing.
LEMMA MissingRange ==
    ASSUME NEW m, NEW r, NEW v
    PROVE  Missing(m, r, v) \in 0..2
  BY DEF Missing

\* walk_pt adds the tables that are missing on the way to v, and no entry.
LEMMA WalkFacts ==
    ASSUME NEW m, NEW R, Sound(m, R), NEW r \in R, NEW v \in VPage,
           Len(m.free) >= Missing(m, r, v),
           NEW m2, m2 = walk_pt(m, r, v)
    PROVE  /\ Grown(m, m2, R, r, {}) /\ m2.pte = m.pte
           /\ m2.top[r] # NULL /\ m2.low[r][v \div PER_TABLE] # NULL
           /\ \A h \in Group \ {v \div PER_TABLE} : m2.low[r][h] = m.low[r][h]
           /\ Len(m2.free) = Len(m.free) - Missing(m, r, v)
  <1> DEFINE g  == v \div PER_TABLE
             m1 == IF m.top[r] # NULL THEN m
                   ELSE [alloc_page(m) EXCEPT !.top[r] = Head(m.free)]
  <1>1. g \in Group
    BY Zenon, GroupFacts
  <1>2. m2 = IF m1.low[r][g] # NULL THEN m1
             ELSE [alloc_page(m1) EXCEPT !.low[r][g] = Head(m1.free)]
    BY Zenon DEF walk_pt
  <1>3. m.free \in Seq(Page) /\ Len(m.free) \in Nat
    BY DEF Sound, Memories
  <1>4. /\ Grown(m, m1, R, r, {}) /\ m1.pte = m.pte /\ m1.low = m.low /\ m1.top[r] # NULL
        /\ Len(m1.free) = Len(m.free) - (IF m.top[r] = NULL THEN 1 ELSE 0)
    <2>1. CASE m.top[r] # NULL
      <3>1. m1 = m
        BY Zenon, <2>1
      <3> HIDE DEF m1
      <3> QED BY <2>1, <3>1, <1>3, GrownRefl
    <2>2. CASE m.top[r] = NULL
      <3>1. m1 = AddTop(m, r)
        BY Zenon, <2>2 DEF AddTop
      <3>2. m.free # <<>>
        BY <2>2, <1>3 DEF Missing
      <3> HIDE DEF m1
      <3> QED BY Zenon, <2>2, <3>1, <3>2, TakeTop
    <2> QED BY ZenonT(60), <2>1, <2>2
  <1> HIDE DEF m1
  <1>5. Sound(m1, R)
    BY Zenon, <1>4 DEF Grown
  <1>6. CASE m1.low[r][g] # NULL
    <2>1. m2 = m1
      BY Zenon, <1>6, <1>2
    <2> QED BY <2>1, <1>3, <1>4, <1>6 DEF Missing
  <1>7. CASE m1.low[r][g] = NULL
    <2>1. m2 = AddLow(m1, r, g)
      BY Zenon, <1>7, <1>2 DEF AddLow
    <2>2. m1.free # <<>>
      <3>1. Len(m1.free) >= 1
        BY <1>3, <1>4, <1>7 DEF Missing
      <3> QED BY <3>1
    <2>3. /\ Grown(m1, m2, R, r, {}) /\ m2.pte = m1.pte /\ m2.top = m1.top
          /\ m2.low[r][g] # NULL /\ \A h \in Group \ {g} : m2.low[r][h] = m1.low[r][h]
          /\ Len(m2.free) = Len(m1.free) - 1
      <3> HIDE DEF g
      <3> QED BY ONLY <1>1, <1>5, <1>7, <2>1, <2>2, r \in R, TakeLow
    <2>4. Grown(m, m2, R, r, {})
      BY ONLY Zenon, <1>4, <2>3, Sound(m, R), GrownTrans
    <2> QED BY <1>3, <1>4, <1>7, <2>3, <2>4 DEF Missing
  <1> QED BY Zenon, <1>6, <1>7

-----------------------------------------------------------------------------
(* Mapping a page *)

\* A page has been mapped at v of r, with the tables that lead to it.
Placed(m, m1, r, v) ==
  /\ m1.pte[r][v].v /\ \A w \in VPage \ {v} : m1.pte[r][w] = m.pte[r][w]
  /\ m1.top[r] # NULL /\ m1.low[r][v \div PER_TABLE] # NULL
  /\ \A h \in Group \ {v \div PER_TABLE} : m1.low[r][h] = m.low[r][h]
  /\ Len(m1.free) = Len(m.free) - (1 + Missing(m, r, v))

\* memory_alloc_and_map_page maps a free page at v, and the page that may have
\* been mapped there is the only one that the space no longer holds.
LEMMA MapPageFacts ==
    ASSUME NEW m, NEW R, Sound(m, R), NEW r \in R, NEW v \in VPage,
           NEW flags \in Rights,
           Len(m.free) >= 1 + Missing(m, r, v),
           NEW m1, m1 = memory_alloc_and_map_page(m, r, v, flags)
    PROVE  /\ Grown(m, m1, R, r, {v})
           /\ ~m.pte[r][v].v => Grown(m, m1, R, r, {})
           /\ Placed(m, m1, r, v)
  <1> DEFINE p == Head(m.free)
             a == alloc_page(m)
             b == walk_pt(a, r, v)
             g == v \div PER_TABLE
  <1>1. Missing(m, r, v) \in 0..2 /\ Len(m.free) \in Nat /\ m.free # <<>> /\ r \in Root
        /\ m \in Memories /\ FreeOnce(m, R)
    <2>1. Missing(m, r, v) \in 0..2
      BY Zenon, MissingRange
    <2>2. m \in Memories /\ Len(m.free) \in Nat /\ r \in Root /\ FreeOnce(m, R)
      BY DEF Sound, Memories
    <2>3. m.free # <<>>
      BY <2>1, <2>2
    <2> QED BY Zenon, <2>1, <2>2, <2>3
  <1>2. /\ Sound(a, R) /\ p \in Range(m.free) /\ p \in Page /\ Unheld(a, R, p)
        /\ Range(a.free) = Range(m.free) \ {p} /\ Len(a.free) = Len(m.free) - 1
    BY Zenon, <1>1, TakeFacts
  <1>3. /\ a \in Memories
        /\ a.top = m.top /\ a.low = m.low /\ a.pte = m.pte
        /\ \A q \in Page : q # p => a.word[q] = m.word[q]
    BY Zenon, <1>1, AllocFacts
  <1> HIDE DEF a, p, b
  <1>4. Missing(a, r, v) = Missing(m, r, v)
    BY Zenon, <1>3 DEF Missing
  <1>5. /\ Grown(a, b, R, r, {}) /\ b.pte = a.pte /\ b.top[r] # NULL /\ b.low[r][g] # NULL
        /\ \A h \in Group \ {g} : b.low[r][h] = a.low[r][h]
        /\ Len(b.free) = Len(a.free) - Missing(a, r, v)
    <2>1. b = walk_pt(a, r, v) /\ Len(a.free) >= Missing(a, r, v)
      BY <1>1, <1>2, <1>4 DEF b
    <2> QED BY ONLY <1>2, <2>1, r \in R, v \in VPage, WalkFacts
  <1>6. p \notin Range(b.free) /\ Unheld(b, R, p)
    <2>1. p \notin Range(a.free)
      BY Zenon, <1>2
    <2> QED BY ONLY Zenon, <1>2, <1>5, <2>1, GrownKeeps
  <1>7. Sound(b, R) /\ b \in Memories
    BY Zenon, <1>5 DEF Grown, Sound
  <1>8. /\ m1 \in Memories /\ m1.free = b.free /\ m1.top = b.top /\ m1.low = b.low
        /\ m1.word = b.word /\ m1.pte[r][v].v
        /\ m1.pte[r][v].ppn = p /\ m1.pte[r][v].flags = flags
        /\ \A w \in VPage \ {v} : m1.pte[r][w] = b.pte[r][w]
        /\ \A x \in Root \ {r} : m1.pte[x] = b.pte[x]
    <2> DEFINE e == leaf_pte(p, flags)
    <2>1. e \in Entry /\ e.v /\ e.ppn = p /\ e.flags = flags
      BY Zenon, <1>2 DEF leaf_pte, Entry, Rights
    <2> HIDE DEF e
    <2>2. m1 = [b EXCEPT !.pte[r][v] = e]
      BY Zenon DEF memory_alloc_and_map_page, a, b, p, e
    <2> QED BY ONLY ZenonT(60), <1>1, <1>7, <2>1, <2>2, v \in VPage DEF Memories
  <1>9. Sound(m1, R)
    <2>1. m1.pte[r][v].flags \cap Access # {}
      BY Zenon, <1>8 DEF Rights
    <2> QED BY ONLY <1>2, <1>6, <1>7, <1>8, <2>1, r \in R, v \in VPage, PlacePte
  <1>10. \A q \in Page \ Range(m.free) : m1.word[q] = m.word[q]
    BY <1>2, <1>3, <1>5, <1>8 DEF Grown
  <1>11. \A k \in Kind, j \in VPage, q \in Page :
           Holds(m1, R, k, r, j, q) => Holds(m, R, k, r, j, q) \/ q \in Range(m.free)
    <2> SUFFICES ASSUME NEW k \in Kind, NEW j \in VPage, NEW q \in Page,
                        Holds(m1, R, k, r, j, q), q \notin Range(m.free)
                 PROVE  Holds(m, R, k, r, j, q)
      BY Zenon
    <2>1. Holds(b, R, k, r, j, q)
      BY ZenonT(60), <1>2, <1>8 DEF Holds
    <2>2. Holds(a, R, k, r, j, q)
      BY Zenon, <2>1, <1>2, <1>5 DEF Grown
    <2> QED BY Zenon, <2>2, <1>3, HoldsSame
  <1>12. ASSUME NEW q \in Range(m.free) \ Range(m1.free)
         PROVE  \E k \in Kind, j \in VPage : Holds(m1, R, k, r, j, q)
    <2>1. CASE q = p
      <3>1. Holds(m1, R, "pte", r, v, p) /\ "pte" \in Kind
        BY Zenon, <1>8 DEF Holds, Kind
      <3> QED BY Zenon, <2>1, <3>1
    <2>2. CASE q # p
      <3>1. q \in Range(a.free) \ Range(b.free)
        BY Zenon, <2>2, <1>12, <1>2, <1>8
      <3>2. PICK k \in Kind, j \in VPage : Holds(b, R, k, r, j, q)
        BY Zenon, <3>1, <1>5 DEF Grown
      <3>3. ~Holds(m, R, k, r, j, q)
        BY Zenon, <1>12, <1>1 DEF FreeOnce, Unheld
      <3>4. ~(k = "pte" /\ j = v)
        BY Zenon, <3>2, <3>3, <1>3, <1>5 DEF Holds
      <3>5. Holds(m1, R, k, r, j, q)
        BY ZenonT(60), <3>2, <3>4, <1>8 DEF Holds
      <3> QED BY Zenon, <3>5
    <2> QED BY Zenon, <2>1, <2>2
  <1>13. /\ Range(m1.free) \subseteq Range(m.free)
         /\ \A x \in Root \ {r} :
              m1.top[x] = m.top[x] /\ m1.low[x] = m.low[x] /\ m1.pte[x] = m.pte[x]
         /\ m.top[r] # NULL => m1.top[r] = m.top[r]
         /\ \A h \in Group : m.low[r][h] # NULL => m1.low[r][h] = m.low[r][h]
         /\ \A w \in VPage \ {v} : m1.pte[r][w] = m.pte[r][w]
    <2>1. /\ Range(b.free) \subseteq Range(a.free)
          /\ \A x \in Root \ {r} :
               b.top[x] = a.top[x] /\ b.low[x] = a.low[x] /\ b.pte[x] = a.pte[x]
          /\ a.top[r] # NULL => b.top[r] = a.top[r]
          /\ \A h \in Group : a.low[r][h] # NULL => b.low[r][h] = a.low[r][h]
      BY Zenon, <1>5 DEF Grown
    <2> QED BY ONLY <1>2, <1>3, <1>5, <1>8, <2>1
  <1>14. Len(m1.free) = Len(m.free) - (1 + Missing(m, r, v))
    BY <1>1, <1>2, <1>4, <1>5, <1>8
  <1>15. Grown(m, m1, R, r, {v})
    BY Zenon, <1>9, <1>10, <1>11, <1>12, <1>13 DEF Grown
  <1>16. ASSUME ~m.pte[r][v].v PROVE Grown(m, m1, R, r, {})
    BY ZenonT(60), <1>9, <1>10, <1>11, <1>12, <1>13, <1>16 DEF Grown
  <1>17. Placed(m, m1, r, v)
    BY <1>3, <1>5, <1>8, <1>13, <1>14 DEF Placed
  <1> QED BY Zenon, <1>15, <1>16, <1>17

-----------------------------------------------------------------------------
(* Copying a page *)

\* Page v of one space has the rights and the contents of page v of another.
Copied(m, m1, parent, child, v) ==
  IF m.pte[parent][v].v
  THEN /\ m1.pte[child][v].v
       /\ m1.pte[child][v].flags = m.pte[parent][v].flags
       /\ m1.word[m1.pte[child][v].ppn] = m.word[m.pte[parent][v].ppn]
  ELSE ~m1.pte[child][v].v

\* A round of memory_space_clone maps a free page at v of the child, with the
\* rights and the contents of the parent's.
LEMMA ClonePageFacts ==
    ASSUME NEW m, NEW R, Sound(m, R), NEW parent \in Root, NEW r \in R, parent # r,
           NEW v \in VPage, m.pte[parent][v].v, ~m.pte[r][v].v,
           Len(m.free) >= 1 + Missing(m, r, v),
           NEW m1, m1 = clone_page(m, parent, r, v)
    PROVE  /\ Grown(m, m1, R, r, {})
           /\ Placed(m, m1, r, v) /\ Copied(m, m1, parent, r, v)
  <1> DEFINE b == walk_pt(m, r, v)
             p == Head(b.free)
             a == alloc_page(b)
             d == m.word[m.pte[parent][v].ppn]
             e == [m.pte[parent][v] EXCEPT !.ppn = p]
             g == v \div PER_TABLE
  <1>1. Missing(m, r, v) \in 0..2 /\ Len(m.free) \in Nat /\ r \in Root
        /\ m \in Memories /\ FreeOnce(m, R) /\ Filled(m, R)
    <2>1. Missing(m, r, v) \in 0..2
      BY Zenon, MissingRange
    <2>2. m \in Memories /\ Len(m.free) \in Nat /\ r \in Root /\ FreeOnce(m, R) /\ Filled(m, R)
      BY DEF Sound, Memories
    <2> QED BY Zenon, <2>1, <2>2
  <1> HIDE DEF b
  <1>2. /\ Grown(m, b, R, r, {}) /\ b.pte = m.pte /\ b.top[r] # NULL /\ b.low[r][g] # NULL
        /\ \A h \in Group \ {g} : b.low[r][h] = m.low[r][h]
        /\ Len(b.free) = Len(m.free) - Missing(m, r, v)
    <2>1. b = walk_pt(m, r, v) /\ Len(m.free) >= Missing(m, r, v)
      BY <1>1 DEF b
    <2> QED BY ONLY <2>1, Sound(m, R), r \in R, v \in VPage, WalkFacts
  <1>3. Sound(b, R) /\ b \in Memories /\ b.free \in Seq(Page) /\ b.free # <<>>
    <2>1. Sound(b, R) /\ b \in Memories /\ b.free \in Seq(Page)
      BY ZenonT(60), <1>2 DEF Grown, Sound, Memories
    <2>2. Len(b.free) >= 1
      BY <1>1, <1>2
    <2> QED BY <2>1, <2>2
  <1>4. /\ Sound(a, R) /\ p \in Range(b.free) /\ p \in Page /\ Unheld(a, R, p)
        /\ Range(a.free) = Range(b.free) \ {p} /\ Len(a.free) = Len(b.free) - 1
    BY Zenon, <1>3, TakeFacts
  <1>5. /\ a \in Memories
        /\ a.top = b.top /\ a.low = b.low /\ a.pte = b.pte
        /\ \A q \in Page : q # p => a.word[q] = b.word[q]
    BY Zenon, <1>3, AllocFacts
  <1> HIDE DEF a, p
  <1>6. /\ e \in Entry /\ e.v /\ e.ppn = p /\ e.flags = m.pte[parent][v].flags
        /\ e.flags \cap Access # {} /\ d \in Word
    <2>1. m.pte[parent][v] \in Entry /\ m.pte[parent][v].flags \cap Access # {}
          /\ m.pte[parent][v].ppn \in Page /\ m.word \in [Page -> Word]
      BY <1>1 DEF Filled, Memories
    <2> QED BY Zenon, <2>1, <1>4 DEF Entry
  <1> HIDE DEF d, e
  <1>7. /\ m1 \in Memories /\ m1.free = a.free /\ m1.top = a.top /\ m1.low = a.low
        /\ m1.word[p] = d /\ \A q \in Page : q # p => m1.word[q] = a.word[q]
        /\ m1.pte[r][v] = e
        /\ \A w \in VPage \ {v} : m1.pte[r][w] = a.pte[r][w]
        /\ \A x \in Root \ {r} : m1.pte[x] = a.pte[x]
    <2>1. m1 = [a EXCEPT !.pte[r][v] = e, !.word[p] = d]
      BY Zenon DEF clone_page, a, b, p, d, e
    <2> QED BY ONLY ZenonT(60), <1>1, <1>4, <1>5, <1>6, <2>1, v \in VPage DEF Memories
  <1>8. Sound(m1, R)
    <2>1. m1.pte[r][v].ppn = p /\ m1.pte[r][v].flags \cap Access # {} /\ p \notin Range(a.free)
      BY Zenon, <1>4, <1>6, <1>7
    <2> QED BY ONLY <1>4, <1>7, <2>1, r \in R, v \in VPage, PlacePte
  <1>9. p \in Range(m.free) /\ Range(m1.free) \subseteq Range(m.free)
    BY Zenon, <1>2, <1>4, <1>7 DEF Grown
  <1>10. \A q \in Page \ Range(m.free) : m1.word[q] = m.word[q]
    BY ZenonT(60), <1>2, <1>5, <1>7, <1>9 DEF Grown
  <1>11. \A k \in Kind, j \in VPage, q \in Page :
           Holds(m1, R, k, r, j, q) => Holds(m, R, k, r, j, q) \/ q \in Range(m.free)
    <2> SUFFICES ASSUME NEW k \in Kind, NEW j \in VPage, NEW q \in Page,
                        Holds(m1, R, k, r, j, q), q \notin Range(m.free)
                 PROVE  Holds(m, R, k, r, j, q)
      BY Zenon
    <2>1. Holds(a, R, k, r, j, q)
      BY ZenonT(60), <1>6, <1>7, <1>9 DEF Holds
    <2>2. Holds(b, R, k, r, j, q)
      BY Zenon, <2>1, <1>5, HoldsSame
    <2> QED BY Zenon, <2>2, <1>2 DEF Grown
  <1>12. ASSUME NEW q \in Range(m.free) \ Range(m1.free)
         PROVE  \E k \in Kind, j \in VPage : Holds(m1, R, k, r, j, q)
    <2>1. CASE q = p
      <3>1. Holds(m1, R, "pte", r, v, p) /\ "pte" \in Kind
        BY Zenon, <1>6, <1>7 DEF Holds, Kind
      <3> QED BY Zenon, <2>1, <3>1
    <2>2. CASE q # p
      <3>1. q \in Range(m.free) \ Range(b.free)
        BY Zenon, <2>2, <1>12, <1>4, <1>7
      <3>2. PICK k \in Kind, j \in VPage : Holds(b, R, k, r, j, q)
        BY Zenon, <3>1, <1>2 DEF Grown
      <3>3. ~(k = "pte" /\ j = v)
        BY Zenon, <3>2, <1>2 DEF Holds
      <3>4. Holds(m1, R, k, r, j, q)
        <4>1. Holds(a, R, k, r, j, q)
          BY Zenon, <3>2, <1>5, HoldsSame
        <4> QED BY ZenonT(60), <3>3, <4>1, <1>7 DEF Holds
      <3> QED BY Zenon, <3>4
    <2> QED BY Zenon, <2>1, <2>2
  <1>13. /\ \A x \in Root \ {r} :
              m1.top[x] = m.top[x] /\ m1.low[x] = m.low[x] /\ m1.pte[x] = m.pte[x]
         /\ m.top[r] # NULL => m1.top[r] = m.top[r]
         /\ \A h \in Group : m.low[r][h] # NULL => m1.low[r][h] = m.low[r][h]
         /\ \A w \in VPage \ {v} : m1.pte[r][w] = m.pte[r][w]
    <2>1. /\ \A x \in Root \ {r} :
               b.top[x] = m.top[x] /\ b.low[x] = m.low[x] /\ b.pte[x] = m.pte[x]
          /\ m.top[r] # NULL => b.top[r] = m.top[r]
          /\ \A h \in Group : m.low[r][h] # NULL => b.low[r][h] = m.low[r][h]
      BY Zenon, <1>2 DEF Grown
    <2> QED BY ONLY <1>2, <1>5, <1>7, <2>1
  <1>14. Len(m1.free) = Len(m.free) - (1 + Missing(m, r, v))
    BY <1>1, <1>2, <1>4, <1>7
  <1>15. Grown(m, m1, R, r, {})
    BY ZenonT(60), <1>8, <1>9, <1>10, <1>11, <1>12, <1>13 DEF Grown
  <1>16. Placed(m, m1, r, v)
    BY <1>2, <1>5, <1>6, <1>7, <1>13, <1>14 DEF Placed
  <1> QED BY Zenon, <1>6, <1>7, <1>15, <1>16 DEF d, Copied

-----------------------------------------------------------------------------
(* Induction and counting *)

\* A set of numbers that is not empty has a least member.
LEMMA LeastNat ==
    ASSUME NEW T, T \subseteq Nat, T # {}
    PROVE  \E n \in T : \A i \in T : n <= i
  <1> DEFINE Rel == {ss \in Nat \X Nat : ss[1] < ss[2]}
  <1>1. IsWellFoundedOn(Rel, Nat)
    BY Zenon, NatLessThanWellFounded DEF OpToRel
  <1>2. PICK n \in T : \A i \in T : ~(<<i, n>> \in Rel)
    <2> HIDE DEF Rel
    <2> QED BY Zenon, <1>1, WFMin
  <1>3. ASSUME NEW i \in T, i < n PROVE FALSE
    <2>1. <<i, n>> \in Rel
      BY Zenon, <1>3
    <2> QED BY Zenon, <1>2, <2>1
  <1>4. n \in Nat /\ T \subseteq Nat
    BY Zenon
  <1> QED BY <1>3, <1>4

\* Induction over the rounds of a loop, for the set of rounds that are right.
LEMMA LoopInduction ==
    ASSUME NEW n \in Nat, NEW Q, 0 \in Q,
           \A i \in 0..(n - 1) : i \in Q => i + 1 \in Q
    PROVE  \A i \in 0..n : i \in Q
  <1> SUFFICES ASSUME {i \in 0..n : i \notin Q} # {} PROVE FALSE
    BY Zenon
  <1>1. PICK i \in {i \in 0..n : i \notin Q} : \A j \in {j \in 0..n : j \notin Q} : i <= j
    <2> DEFINE T == {i \in 0..n : i \notin Q}
    <2>1. T \subseteq Nat /\ T # {}
      OBVIOUS
    <2> HIDE DEF T
    <2>2. \E i \in T : \A j \in T : i <= j
      BY Zenon, <2>1, LeastNat
    <2> QED BY Zenon, <2>2 DEF T
  <1>2. i # 0 /\ i - 1 \in 0..(n - 1) /\ i - 1 \in Q
    BY <1>1
  <1> QED BY <1>1, <1>2

\* The pages of V that the rounds from i + 1 on are for.
Rest(V, i) == {v \in V : v >= i}

\* The pages that round i and later ones visit.
LEMMA RestFacts ==
    ASSUME NEW V \in SUBSET VPage, NEW i \in Nat
    PROVE  /\ Rest(V, 0) = V /\ Rest(V, i) \in SUBSET VPage
           /\ i \in V => i \in Rest(V, i) /\ Rest(V, i + 1) = Rest(V, i) \ {i}
           /\ i \notin V => Rest(V, i + 1) = Rest(V, i)
  <1>1. \A v \in V : v \in Nat
    BY Zenon, ConstantFacts
  <1>2. \A v \in Nat : v >= i + 1 <=> v >= i /\ v # i
    OBVIOUS
  <1>3. \A v \in Nat : v >= 0
    OBVIOUS
  <1>4. Rest(V, 0) = V
    BY Zenon, <1>1, <1>3 DEF Rest
  <1>5. i \in V => i \in Rest(V, i)
    BY DEF Rest
  <1>6. i \in V => Rest(V, i + 1) = Rest(V, i) \ {i}
    BY Zenon, <1>1, <1>2 DEF Rest
  <1>7. i \notin V => Rest(V, i + 1) = Rest(V, i)
    BY Zenon, <1>1, <1>2 DEF Rest
  <1> QED BY Zenon, <1>4, <1>5, <1>6, <1>7 DEF Rest

Groups(V) == {v \div PER_TABLE : v \in V}
NoTable(m, r, V) == {g \in Groups(V) : m.low[r][g] = NULL}

\* The pages that a loop takes to map the pages of V in r.
Need(m, r, V) ==
  Cardinality(V) + Cardinality(NoTable(m, r, V))
    + (IF V = {} \/ m.top[r] # NULL THEN 0 ELSE 1)

\* Sets of virtual pages, and of their tables, are finite.
LEMMA PagesFinite ==
    ASSUME NEW V \in SUBSET VPage
    PROVE  /\ IsFiniteSet(V) /\ Cardinality(V) \in Nat
           /\ IsFiniteSet(Groups(V)) /\ Cardinality(Groups(V)) \in Nat
           /\ Cardinality(Groups(V)) <= Cardinality(V)
  <1>1. IsFiniteSet(VPage)
    BY MemoryAssumption, FS_Interval DEF VPage
  <1>2. IsFiniteSet(V) /\ Cardinality(V) \in Nat
    BY Zenon, <1>1, FS_Subset, FS_CardinalityType
  <1>3. [v \in V |-> v \div PER_TABLE] \in Surjection(V, Groups(V))
    BY Zenon DEF Surjection, Groups
  <1>4. IsFiniteSet(Groups(V)) /\ Cardinality(Groups(V)) <= Cardinality(V)
    BY Zenon, <1>2, <1>3, FS_Surjection
  <1> QED BY Zenon, <1>2, <1>4, FS_CardinalityType

\* There are no more tables to add than groups of pages.
LEMMA NoTableFinite ==
    ASSUME NEW m, NEW r, NEW V \in SUBSET VPage
    PROVE  /\ IsFiniteSet(NoTable(m, r, V))
           /\ Cardinality(NoTable(m, r, V)) \in Nat
           /\ Cardinality(NoTable(m, r, V)) <= Cardinality(Groups(V))
  <1>1. NoTable(m, r, V) \in SUBSET Groups(V)
    BY Zenon DEF NoTable
  <1> QED BY Zenon, <1>1, PagesFinite, FS_Subset, FS_CardinalityType

\* What a loop needs is there when a round begins.
LEMMA NeedNow ==
    ASSUME NEW m, NEW r, NEW V \in SUBSET VPage, NEW v \in V,
           Len(m.free) \in Nat, Len(m.free) >= Need(m, r, V)
    PROVE  Len(m.free) >= 1 + Missing(m, r, v)
  <1> DEFINE g == v \div PER_TABLE
             N == NoTable(m, r, V)
  <1>1. /\ IsFiniteSet(V) /\ Cardinality(V) \in Nat
        /\ IsFiniteSet(N) /\ Cardinality(N) \in Nat
    BY Zenon, PagesFinite, NoTableFinite
  <1>2. Cardinality(V) >= 1
    BY <1>1, FS_EmptySet
  <1>3. m.low[r][g] = NULL => g \in N
    BY Zenon DEF NoTable, Groups
  <1>4. m.low[r][g] = NULL => Cardinality(N) >= 1
    BY <1>1, <1>3, FS_EmptySet
  <1>5. Len(m.free) >= Cardinality(V) + Cardinality(N) + (IF m.top[r] # NULL THEN 0 ELSE 1)
    BY Zenon DEF Need
  <1> HIDE DEF N
  <1> QED BY <1>1, <1>2, <1>4, <1>5 DEF Missing

\* What the rest of a loop needs is there when a round has taken its pages.
LEMMA NeedRest ==
    ASSUME NEW m, NEW r, NEW V \in SUBSET VPage, NEW v \in V,
           Len(m.free) \in Nat, Len(m.free) >= Need(m, r, V),
           NEW m1, Placed(m, m1, r, v)
    PROVE  Len(m1.free) >= Need(m1, r, V \ {v})
  <1> DEFINE g == v \div PER_TABLE
             N == NoTable(m, r, V)
             W == V \ {v}
             M == NoTable(m1, r, W)
  <1>1. /\ IsFiniteSet(V) /\ Cardinality(V) \in Nat
        /\ IsFiniteSet(N) /\ Cardinality(N) \in Nat
    BY Zenon, PagesFinite, NoTableFinite
  <1>2. /\ W \in SUBSET VPage /\ Cardinality(W) = Cardinality(V) - 1
    BY Zenon, <1>1, FS_RemoveElement
  <1>3. m.low[r][g] = NULL => g \in N
    BY Zenon DEF NoTable, Groups
  <1>4. Len(m.free) >= Cardinality(V) + Cardinality(N) + (IF m.top[r] # NULL THEN 0 ELSE 1)
    BY Zenon DEF Need
  <1>5. IsFiniteSet(M) /\ Cardinality(M) \in Nat
    BY Zenon, <1>2, NoTableFinite
  <1>6. M \subseteq N \ {g}
    BY ZenonT(60), GroupFacts DEF NoTable, Groups, Group, Placed
  <1>7. IsFiniteSet(N \ {g})
        /\ Cardinality(N \ {g}) = IF g \in N THEN Cardinality(N) - 1 ELSE Cardinality(N)
    <2> HIDE DEF N, g
    <2> QED BY Zenon, <1>1, FS_RemoveElement
  <1>8. Cardinality(M) <= Cardinality(N \ {g})
    <2> HIDE DEF N, g, M
    <2> QED BY Zenon, <1>6, <1>7, FS_Subset
  <1>9. Cardinality(M) <= Cardinality(N) - (IF m.low[r][g] = NULL THEN 1 ELSE 0)
    <2> HIDE DEF N, g, M
    <2> QED BY <1>1, <1>3, <1>5, <1>7, <1>8
  <1>10. Need(m1, r, W) = Cardinality(W) + Cardinality(M)
    <2>1. Need(m1, r, W) = Cardinality(W) + Cardinality(M) + 0
      BY Zenon DEF Need, Placed
    <2> HIDE DEF W, M
    <2> QED BY <2>1, <1>1, <1>2, <1>5
  <1>11. Missing(m, r, v) = (IF m.top[r] = NULL THEN 1 ELSE 0)
                             + (IF m.low[r][g] = NULL THEN 1 ELSE 0)
    BY Zenon DEF Missing
  <1> HIDE DEF N, M, W, g
  <1>12. Len(m1.free) = Len(m.free) - (1 + Missing(m, r, v))
    BY Zenon DEF Placed
  <1> DEFINE a == IF m.top[r] = NULL THEN 1 ELSE 0
             b == IF m.low[r][g] = NULL THEN 1 ELSE 0
  <1>13. /\ a \in 0..1 /\ b \in 0..1 /\ Missing(m, r, v) = a + b
         /\ Len(m.free) >= Cardinality(V) + Cardinality(N) + a
         /\ Cardinality(M) <= Cardinality(N) - b
    BY <1>4, <1>9, <1>11
  <1> HIDE DEF a, b
  <1>14. Len(m1.free) >= Need(m1, r, W)
    BY ONLY SMTT(30), <1>1, <1>2, <1>5, <1>10, <1>12, <1>13, Len(m.free) \in Nat
  <1> QED BY Zenon, <1>14 DEF W

-----------------------------------------------------------------------------
(* The loop of memory_alloc_and_map_range *)

\* The loop's function exists, so that each round works on what the one before
\* left behind.
LEMMA MapLoopRounds ==
    ASSUME NEW m, NEW r, NEW S, NEW flags,
           NEW at, at = map_loop(m, r, S, flags)
    PROVE  /\ at[0] = m
           /\ \A i \in 0..(VPAGES - 1) :
                at[i + 1] = IF i \in S THEN memory_alloc_and_map_page(at[i], r, i, flags)
                            ELSE at[i]
  <1> DEFINE Step(x, i) == IF i \in S THEN memory_alloc_and_map_page(x, r, i, flags) ELSE x
             Is(f, n) == f = [i \in 0..n |-> IF i = 0 THEN m ELSE Step(f[i - 1], i - 1)]
             Q == {n \in Nat : \E f : Is(f, n)}
  <1>1. VPAGES \in Nat
    BY Zenon, MemoryAssumption
  <1> HIDE DEF Step
  <1>2. 0 \in Q
    <2> DEFINE f == [i \in 0..0 |-> m]
    <2>1. Is(f, 0)
      OBVIOUS
    <2> QED BY Zenon, <2>1
  <1>3. ASSUME NEW n \in Nat, n \in Q PROVE n + 1 \in Q
    <2>1. PICK f : Is(f, n)
      BY Zenon, <1>3
    <2> DEFINE h == [i \in 0..(n + 1) |-> IF i = n + 1 THEN Step(f[n], n) ELSE f[i]]
    <2>2. Is(h, n + 1)
      BY <2>1
    <2> HIDE DEF h
    <2> QED BY <2>2
  <1>4. VPAGES \in Q
    <2> HIDE DEF Q
    <2> QED BY <1>1, <1>2, <1>3, LoopInduction
  <1>5. at = CHOOSE f : Is(f, VPAGES)
    BY Zenon DEF map_loop, Step
  <1>6. Is(at, VPAGES)
    <2> HIDE DEF Is
    <2> QED BY Zenon, <1>4, <1>5
  <1>7. at[0] = m /\ \A i \in 0..(VPAGES - 1) : at[i + 1] = Step(at[i], i)
    BY ONLY <1>1, <1>6
  <1> QED BY Zenon, <1>7 DEF Step

\* Mapping the unmapped pages S takes every page it needs from the free list.
LEMMA MapRangeFacts ==
    ASSUME NEW m, NEW R, Sound(m, R), NEW r \in R, NEW S \in SUBSET VPage,
           \A v \in S : ~m.pte[r][v].v,
           NEW flags \in Rights,
           Len(m.free) >= MapNeeds(S)
    PROVE  Grown(m, memory_alloc_and_map_range(m, r, S, flags), R, r, {})
  <1> DEFINE at == map_loop(m, r, S, flags)
             Good(i) == /\ Grown(m, at[i], R, r, {})
                        /\ \A v \in VPage : v >= i => at[i].pte[r][v] = m.pte[r][v]
                        /\ Len(at[i].free) >= Need(at[i], r, Rest(S, i))
             Q == {i \in 0..VPAGES : Good(i)}
  <1>1. /\ at[0] = m
        /\ \A i \in 0..(VPAGES - 1) :
             at[i + 1] = IF i \in S THEN memory_alloc_and_map_page(at[i], r, i, flags)
                         ELSE at[i]
    BY MapLoopRounds
  <1> HIDE DEF at
  <1>2. VPAGES \in Nat /\ VPage = 0..(VPAGES - 1)
    BY Zenon, MemoryAssumption DEF VPage
  <1>3. 0 \in Q
    <2>1. Rest(S, 0) = S
      BY Zenon, RestFacts
    <2>2. Len(m.free) >= Need(m, r, S)
      <3>1. /\ Cardinality(S) \in Nat /\ Cardinality(NoTable(m, r, S)) \in Nat
            /\ Cardinality(Groups(S)) \in Nat
            /\ Cardinality(NoTable(m, r, S)) <= Cardinality(Groups(S))
            /\ Cardinality(Groups(S)) <= Cardinality(S)
            /\ Len(m.free) \in Nat
        <4>1. Len(m.free) \in Nat
          BY DEF Sound, Memories
        <4>2. /\ Cardinality(S) \in Nat /\ Cardinality(Groups(S)) \in Nat
              /\ Cardinality(Groups(S)) <= Cardinality(S)
          BY Zenon, PagesFinite
        <4>3. /\ Cardinality(NoTable(m, r, S)) \in Nat
              /\ Cardinality(NoTable(m, r, S)) <= Cardinality(Groups(S))
          BY Zenon, NoTableFinite
        <4> QED BY Zenon, <4>1, <4>2, <4>3
      <3>2. Need(m, r, S) <= Cardinality(S) + Cardinality(NoTable(m, r, S)) + 1
        BY <3>1 DEF Need
      <3>3. Need(m, r, S) \in Nat
        BY <3>1 DEF Need
      <3> QED BY <3>1, <3>2, <3>3 DEF MapNeeds
    <2>3. Good(0)
      <3> QED BY Zenon, <1>1, <2>1, <2>2, GrownRefl
    <2> QED BY <2>3, <1>2
  <1>4. ASSUME NEW i \in 0..(VPAGES - 1), i \in Q PROVE i + 1 \in Q
    <2> DEFINE a == at[i]
               b == at[i + 1]
    <2>1. /\ Grown(m, a, R, r, {})
          /\ \A v \in VPage : v >= i => a.pte[r][v] = m.pte[r][v]
          /\ Len(a.free) >= Need(a, r, Rest(S, i))
      BY ZenonT(60), <1>4
    <2>2. b = IF i \in S THEN memory_alloc_and_map_page(a, r, i, flags) ELSE a
      BY Zenon, <1>1, <1>4
    <2>3. i \in VPage /\ i + 1 \in 0..VPAGES /\ Sound(a, R) /\ Len(a.free) \in Nat
      <3>1. Sound(a, R)
        BY Zenon, <2>1 DEF Grown
      <3>2. a.free \in Seq(Page) /\ R \subseteq Root
        BY Zenon, <3>1 DEF Sound, Memories
      <3>3. Len(a.free) \in Nat
        BY ONLY <3>2
      <3>4. i \in VPage /\ i + 1 \in 0..VPAGES
        BY ONLY <1>2, <1>4
      <3> QED BY Zenon, <3>1, <3>2, <3>3, <3>4
    <2> HIDE DEF a, b
    <2>4. CASE i \in S
      <3>1. Rest(S, i) \in SUBSET VPage /\ i \in Rest(S, i) /\ Rest(S, i + 1) = Rest(S, i) \ {i}
        <4>1. i \in Nat
          BY ONLY <1>4, <1>2
        <4> QED BY Zenon, <2>4, <4>1, RestFacts
      <3>2. Len(a.free) >= 1 + Missing(a, r, i)
        BY ONLY ZenonT(60), <2>1, <2>3, <3>1, NeedNow
      <3>3. ~a.pte[r][i].v
        BY <2>1, <2>3, <2>4
      <3>4. b = memory_alloc_and_map_page(a, r, i, flags)
        BY Zenon, <2>2, <2>4
      <3>5. /\ Grown(a, b, R, r, {i})
            /\ ~a.pte[r][i].v => Grown(a, b, R, r, {})
            /\ Placed(a, b, r, i)
        BY ONLY Zenon, <2>3, <3>2, <3>3, <3>4, r \in R, flags \in Rights, MapPageFacts
      <3>6. Len(b.free) >= Need(b, r, Rest(S, i + 1))
        <4>1. Len(b.free) >= Need(b, r, Rest(S, i) \ {i})
          BY ONLY Zenon, <2>1, <2>3, <3>1, <3>5, NeedRest
        <4> QED BY ZenonT(60), <4>1, <3>1
      <3>7. Grown(m, b, R, r, {})
        BY ONLY Zenon, <2>1, <3>3, <3>5, Sound(m, R), GrownTrans
      <3>8. \A v \in VPage : v >= i + 1 => b.pte[r][v] = m.pte[r][v]
        BY <1>2, <2>1, <2>3, <3>5 DEF Placed
      <3> QED BY Zenon, <2>3, <3>6, <3>7, <3>8 DEF b
    <2>5. CASE i \notin S
      <3>1. Rest(S, i + 1) = Rest(S, i)
        BY <2>5, <1>4, RestFacts
      <3>0. b = a
        BY Zenon, <2>2, <2>5
      <3>2. \A v \in VPage : v >= i + 1 => b.pte[r][v] = m.pte[r][v]
        BY <1>2, <2>1, <2>3, <3>0
      <3> QED BY ZenonT(60), <2>1, <2>3, <3>0, <3>1, <3>2 DEF b
    <2> QED BY Zenon, <2>4, <2>5
  <1>5. VPAGES \in Q
    <2> HIDE DEF Q
    <2> QED BY ONLY <1>2, <1>3, <1>4, LoopInduction
  <1> QED BY Zenon, <1>5 DEF memory_alloc_and_map_range, at

-----------------------------------------------------------------------------
(* The loop of memory_space_clone *)

\* The same of the loop of memory_space_clone.
LEMMA CloneLoopRounds ==
    ASSUME NEW m, NEW parent, NEW child,
           NEW at, at = clone_loop(m, parent, child)
    PROVE  /\ at[0] = m
           /\ \A i \in 0..(VPAGES - 1) :
                at[i + 1] = IF m.pte[parent][i].v THEN clone_page(at[i], parent, child, i)
                            ELSE at[i]
  <1> DEFINE Step(x, i) == IF m.pte[parent][i].v THEN clone_page(x, parent, child, i) ELSE x
             Is(f, n) == f = [i \in 0..n |-> IF i = 0 THEN m ELSE Step(f[i - 1], i - 1)]
             Q == {n \in Nat : \E f : Is(f, n)}
  <1>1. VPAGES \in Nat
    BY Zenon, MemoryAssumption
  <1> HIDE DEF Step
  <1>2. 0 \in Q
    <2> DEFINE f == [i \in 0..0 |-> m]
    <2>1. Is(f, 0)
      OBVIOUS
    <2> QED BY Zenon, <2>1
  <1>3. ASSUME NEW n \in Nat, n \in Q PROVE n + 1 \in Q
    <2>1. PICK f : Is(f, n)
      BY Zenon, <1>3
    <2> DEFINE h == [i \in 0..(n + 1) |-> IF i = n + 1 THEN Step(f[n], n) ELSE f[i]]
    <2>2. Is(h, n + 1)
      BY <2>1
    <2> HIDE DEF h
    <2> QED BY <2>2
  <1>4. VPAGES \in Q
    <2> HIDE DEF Q
    <2> QED BY <1>1, <1>2, <1>3, LoopInduction
  <1>5. at = CHOOSE f : Is(f, VPAGES)
    BY Zenon DEF clone_loop, Step
  <1>6. Is(at, VPAGES)
    <2> HIDE DEF Is
    <2> QED BY Zenon, <1>4, <1>5
  <1>7. at[0] = m /\ \A i \in 0..(VPAGES - 1) : at[i + 1] = Step(at[i], i)
    BY ONLY <1>1, <1>6
  <1> QED BY Zenon, <1>7 DEF Step

-----------------------------------------------------------------------------
(* The loop of memory_space_reclaim *)

\* The same of the loops that unmap a space.
LEMMA UnmapLoopRounds ==
    ASSUME NEW m, NEW r,
           NEW at, at = unmap_loop(m, r)
    PROVE  /\ at[0] = m
           /\ \A i \in 0..(VPAGES - 1) :
                at[i + 1] = unmap_page(at[i], r, i)
  <1> DEFINE Step(x, i) == unmap_page(x, r, i)
             Is(f, n) == f = [i \in 0..n |-> IF i = 0 THEN m ELSE Step(f[i - 1], i - 1)]
             Q == {n \in Nat : \E f : Is(f, n)}
  <1>1. VPAGES \in Nat
    BY Zenon, MemoryAssumption
  <1> HIDE DEF Step
  <1>2. 0 \in Q
    <2> DEFINE f == [i \in 0..0 |-> m]
    <2>1. Is(f, 0)
      OBVIOUS
    <2> QED BY Zenon, <2>1
  <1>3. ASSUME NEW n \in Nat, n \in Q PROVE n + 1 \in Q
    <2>1. PICK f : Is(f, n)
      BY Zenon, <1>3
    <2> DEFINE h == [i \in 0..(n + 1) |-> IF i = n + 1 THEN Step(f[n], n) ELSE f[i]]
    <2>2. Is(h, n + 1)
      BY <2>1
    <2> HIDE DEF h
    <2> QED BY <2>2
  <1>4. VPAGES \in Q
    <2> HIDE DEF Q
    <2> QED BY <1>1, <1>2, <1>3, LoopInduction
  <1>5. at = CHOOSE f : Is(f, VPAGES)
    BY Zenon DEF unmap_loop, Step
  <1>6. Is(at, VPAGES)
    <2> HIDE DEF Is
    <2> QED BY Zenon, <1>4, <1>5
  <1>7. at[0] = m /\ \A i \in 0..(VPAGES - 1) : at[i + 1] = Step(at[i], i)
    BY ONLY <1>1, <1>6
  <1> QED BY Zenon, <1>7 DEF Step

\* A mapped page is not free.
LEMMA MappedNotFree ==
    ASSUME NEW m, NEW R, Sound(m, R), NEW r \in Root, NEW v \in VPage, m.pte[r][v].v
    PROVE  /\ r \in R /\ m.pte[r][v].ppn \in Page
           /\ m.pte[r][v].ppn \notin Range(m.free)
           /\ Holds(m, R, "pte", r, v, m.pte[r][v].ppn)
  <1>1. r \in R /\ m.pte[r][v].ppn \in Page
    BY Zenon DEF Sound, Filled
  <1>2. Holds(m, R, "pte", r, v, m.pte[r][v].ppn) /\ "pte" \in Kind
    BY Zenon, <1>1 DEF Holds, Kind
  <1> QED BY Zenon, <1>1, <1>2 DEF Sound, FreeOnce, Unheld

\* A page that was taken becomes the root of a space, which is empty.
LEMMA NewRoot ==
    ASSUME NEW m, NEW R, Sound(m, R),
           NEW p \in Page, p \notin Range(m.free), Unheld(m, R, p)
    PROVE  p \notin R /\ Sound(m, R \cup {p})
  <1>1. p \notin R
    <2>1. "root" \in Kind /\ 0 \in VPage /\ p \in Root
      BY Zenon, ConstantFacts DEF Kind
    <2>2. ~Holds(m, R, "root", p, 0, p)
      BY Zenon, <2>1 DEF Unheld
    <2> QED BY Zenon, <2>2 DEF Holds
  <1>2. R \cup {p} \in SUBSET Root /\ m \in Memories /\ Filled(m, R \cup {p})
    BY Zenon, ConstantFacts DEF Sound, Filled
  <1>3. OnlyNew(m, R, m, R \cup {p}, "root", p, 0, p)
    <2> SUFFICES ASSUME NEW k1 \in Kind, NEW r1 \in Root, NEW j1 \in VPage, NEW q \in Page,
                        Holds(m, R \cup {p}, k1, r1, j1, q)
                 PROVE  \/ Holds(m, R, k1, r1, j1, q)
                        \/ q = p /\ k1 = "root" /\ r1 = p /\ j1 = 0
      BY Zenon DEF OnlyNew
    <2>1. CASE r1 = p
      <3>1. /\ m.top[r1] = NULL /\ \A g \in Group : m.low[r1][g] = NULL
            /\ \A v \in VPage : ~m.pte[r1][v].v
        BY Zenon, <1>1, <2>1 DEF Sound, Filled
      <3>2. q # NULL
        BY Zenon, ConstantFacts
      <3> QED BY Zenon, <2>1, <3>1, <3>2 DEF Holds
    <2>2. CASE r1 # p
      BY Zenon, <2>2 DEF Holds
    <2> QED BY Zenon, <2>1, <2>2
  <1>4. Sound(m, R \cup {p})
    BY ONLY Zenon, <1>2, <1>3, Sound(m, R), p \in Page, p \notin Range(m.free), Unheld(m, R, p),
            PlaceFacts
  <1> QED BY Zenon, <1>1, <1>4

\* The loop of memory_space_clone copies the parent's pages into an empty space.
LEMMA CloneLoopFacts ==
    ASSUME NEW m, NEW R, Sound(m, R), NEW parent \in R, NEW r \in R, parent # r,
           \A v \in VPage : ~m.pte[r][v].v,
           Len(m.free) >= Need(m, r, Mapped(m, parent)),
           NEW m1, m1 = clone_loop(m, parent, r)[VPAGES]
    PROVE  /\ Grown(m, m1, R, r, {})
           /\ \A v \in VPage : Copied(m, m1, parent, r, v)
  <1> DEFINE at == clone_loop(m, parent, r)
             V == Mapped(m, parent)
             Good(i) == /\ Grown(m, at[i], R, r, {})
                        /\ \A v \in VPage : v < i => Copied(m, at[i], parent, r, v)
                        /\ \A v \in VPage : v >= i => ~at[i].pte[r][v].v
                        /\ Len(at[i].free) >= Need(at[i], r, Rest(V, i))
             Q == {i \in 0..VPAGES : Good(i)}
  <1>1. /\ at[0] = m
        /\ \A i \in 0..(VPAGES - 1) :
             at[i + 1] = IF m.pte[parent][i].v THEN clone_page(at[i], parent, r, i)
                         ELSE at[i]
    BY CloneLoopRounds
  <1> HIDE DEF at
  <1>2. VPAGES \in Nat /\ VPage = 0..(VPAGES - 1)
    BY Zenon, MemoryAssumption DEF VPage
  <1>3. V \in SUBSET VPage /\ \A v \in VPage : v \in V <=> m.pte[parent][v].v
    BY Zenon DEF Mapped
  <1> HIDE DEF V
  <1>4. 0 \in Q
    <2>1. Rest(V, 0) = V
      BY Zenon, <1>3, RestFacts
    <2>2. \A v \in VPage : ~(v < 0)
      BY <1>2
    <2>3. Good(0)
      BY ZenonT(60), <1>1, <2>1, <2>2, GrownRefl DEF V
    <2> QED BY <2>3, <1>2
  <1>5. ASSUME NEW i \in 0..(VPAGES - 1), i \in Q PROVE i + 1 \in Q
    <2> DEFINE a == at[i]
               b == at[i + 1]
    <2>1. /\ Grown(m, a, R, r, {})
          /\ \A v \in VPage : v < i => Copied(m, a, parent, r, v)
          /\ \A v \in VPage : v >= i => ~a.pte[r][v].v
          /\ Len(a.free) >= Need(a, r, Rest(V, i))
      BY ZenonT(60), <1>5
    <2>2. b = IF m.pte[parent][i].v THEN clone_page(a, parent, r, i) ELSE a
      BY ZenonT(60), <1>1, <1>5
    <2>3. i \in VPage /\ i + 1 \in 0..VPAGES /\ Sound(a, R) /\ Len(a.free) \in Nat
          /\ parent \in Root /\ r \in Root
      <3>1. Sound(a, R)
        BY Zenon, <2>1 DEF Grown
      <3>2. a.free \in Seq(Page) /\ R \subseteq Root
        BY Zenon, <3>1 DEF Sound, Memories
      <3>3. Len(a.free) \in Nat
        BY ONLY <3>2
      <3>4. i \in VPage /\ i + 1 \in 0..VPAGES
        BY ONLY <1>2, <1>5
      <3> QED BY Zenon, <3>1, <3>2, <3>3, <3>4
    <2>4. \A v \in VPage : v < i + 1 <=> v < i \/ v = i
      BY <1>2
    <2>5. \A v \in VPage : v >= i + 1 => v >= i /\ v # i
      BY <1>2
    <2> HIDE DEF a, b
    <2>6. CASE m.pte[parent][i].v
      <3>1. i \in V /\ Rest(V, i) \in SUBSET VPage /\ i \in Rest(V, i) /\ Rest(V, i + 1) = Rest(V, i) \ {i}
        <4>1. i \in V
          BY Zenon, <2>6, <2>3, <1>3
        <4>2. i \in Nat /\ V \in SUBSET VPage
          BY <1>3, <1>5
        <4> QED BY ONLY Zenon, <4>1, <4>2, RestFacts
      <3>2. Len(a.free) >= 1 + Missing(a, r, i)
        BY ONLY ZenonT(60), <2>1, <2>3, <3>1, NeedNow
      <3>3. a.pte[parent] = m.pte[parent] /\ a.pte[parent][i].v /\ ~a.pte[r][i].v
        BY <2>1, <2>3, <2>6 DEF Grown
      <3>4. b = clone_page(a, parent, r, i)
        BY Zenon, <2>2, <2>6
      <3>5. /\ Grown(a, b, R, r, {})
            /\ Placed(a, b, r, i) /\ Copied(a, b, parent, r, i)
        BY ONLY ZenonT(60), <2>3, <3>2, <3>3, <3>4, r \in R, parent # r, ClonePageFacts
      <3>6. Len(b.free) >= Need(b, r, Rest(V, i + 1))
        <4>1. Len(b.free) >= Need(b, r, Rest(V, i) \ {i})
          BY ONLY Zenon, <2>1, <2>3, <3>1, <3>5, NeedRest
        <4> QED BY ZenonT(60), <4>1, <3>1
      <3>7. Grown(m, b, R, r, {})
        BY ONLY ZenonT(60), <2>1, <3>5, Sound(m, R), GrownTrans
      <3>8. \A v \in VPage : v >= i + 1 => ~b.pte[r][v].v
        BY ZenonT(60), <2>1, <2>5, <3>5 DEF Placed
      <3>9. Copied(m, b, parent, r, i)
        <4>1. m.pte[parent][i].ppn \in Page /\ m.pte[parent][i].ppn \notin Range(m.free)
          BY Zenon, <2>3, <2>6, MappedNotFree
        <4>2. a.word[m.pte[parent][i].ppn] = m.word[m.pte[parent][i].ppn]
          BY ZenonT(60), <2>1, <4>1 DEF Grown
        <4> QED BY ZenonT(60), <2>6, <3>3, <3>5, <4>2 DEF Copied, Placed
      <3>10. ASSUME NEW v \in VPage, v < i PROVE Copied(m, b, parent, r, v)
        <4>1. Copied(m, a, parent, r, v) /\ v # i
          BY <2>1, <3>10, <1>2
        <4>2. b.pte[r][v] = a.pte[r][v]
          BY ZenonT(60), <4>1, <3>5 DEF Placed
        <4>3. CASE a.pte[r][v].v
          <5>1. a.pte[r][v].ppn \in Page /\ a.pte[r][v].ppn \notin Range(a.free)
            BY ZenonT(60), <2>3, <4>3, MappedNotFree
          <5>2. b.word[a.pte[r][v].ppn] = a.word[a.pte[r][v].ppn]
            BY ZenonT(60), <3>5, <5>1 DEF Grown
          <5> QED BY ZenonT(60), <4>1, <4>2, <5>2 DEF Copied
        <4>4. CASE ~a.pte[r][v].v
          BY ZenonT(60), <4>1, <4>2, <4>4 DEF Copied
        <4> QED BY Zenon, <4>3, <4>4
      <3>11. \A v \in VPage : v < i + 1 => Copied(m, b, parent, r, v)
        BY Zenon, <2>4, <3>9, <3>10
      <3> QED BY ZenonT(60), <2>3, <3>6, <3>7, <3>8, <3>11 DEF b
    <2>7. CASE ~m.pte[parent][i].v
      <3>1. Rest(V, i + 1) = Rest(V, i)
        <4>1. i \notin V
          BY Zenon, <2>7, <2>3, <1>3
        <4>2. i \in Nat /\ V \in SUBSET VPage
          BY <1>3, <1>5
        <4> QED BY ONLY Zenon, <4>1, <4>2, RestFacts
      <3>2. b = a
        BY ZenonT(60), <2>2, <2>7
      <3>3. Copied(m, b, parent, r, i)
        BY <2>1, <2>3, <2>7, <3>2 DEF Copied
      <3> QED BY ZenonT(60), <2>1, <2>3, <2>4, <2>5, <3>1, <3>2, <3>3 DEF b
    <2> QED BY ZenonT(60), <2>6, <2>7
  <1>6. VPAGES \in Q
    <2> HIDE DEF Q
    <2> QED BY ONLY <1>2, <1>4, <1>5, LoopInduction
  <1>7. Good(VPAGES) /\ m1 = at[VPAGES]
    BY ZenonT(60), <1>6 DEF at
  <1> QED BY <1>2, <1>7

\* memory_space_clone makes a space of its own: the child's root and all its
\* pages were free, and it has what the parent has.
\* A new space has root r and what space parent holds.
Cloned(m, m1, R, parent, r) ==
  /\ r \in Range(m.free) /\ r \in Page /\ r \notin R
  /\ Range(alloc_page(m).free) = Range(m.free) \ {r}
  /\ Grown(alloc_page(m), m1, R \cup {r}, r, {})
  /\ \A v \in VPage : Copied(m, m1, parent, r, v)

\* memory_space_clone makes a copy of the parent under a new root.
LEMMA CloneFacts ==
    ASSUME NEW m, NEW R, Sound(m, R), NEW parent \in R,
           Len(m.free) >= CloneNeeds(m, parent),
           NEW m1, m1 = memory_space_clone(m, parent),
           NEW r, r = Head(m.free)
    PROVE  Cloned(m, m1, R, parent, r)
  <1> DEFINE V  == Mapped(m, parent)
             a  == alloc_page(m)
             R1 == R \cup {r}
  <1>1. V \in SUBSET VPage /\ m \in Memories /\ m.free \in Seq(Page) /\ Len(m.free) \in Nat
        /\ parent \in Root
    BY DEF Mapped, Sound, Memories
  <1>2. /\ Cardinality(V) \in Nat /\ Cardinality(Groups(V)) \in Nat
        /\ Len(m.free) >= 1 + Cardinality(V) + Cardinality(Groups(V))
                            + (IF V = {} THEN 0 ELSE 1)
    <2>1. Cardinality(V) \in Nat /\ Cardinality(Groups(V)) \in Nat
      <3> HIDE DEF V
      <3> QED BY Zenon, <1>1, PagesFinite
    <2> QED BY Zenon, <2>1 DEF CloneNeeds, Groups
  <1> HIDE DEF V
  <1>3. m.free # <<>>
    <2>1. Len(m.free) >= 1
      BY <1>1, <1>2
    <2> QED BY <2>1, <1>1
  <1>4. /\ Sound(a, R) /\ r \in Range(m.free) /\ r \in Page /\ Unheld(a, R, r)
        /\ Range(a.free) = Range(m.free) \ {r} /\ Len(a.free) = Len(m.free) - 1
    BY ZenonT(60), <1>3, TakeFacts
  <1>5. /\ a.top = m.top /\ a.low = m.low /\ a.pte = m.pte
        /\ \A q \in Page : q # r => a.word[q] = m.word[q]
    BY Zenon, <1>1, <1>3, AllocFacts
  <1> HIDE DEF a
  <1>6. r \notin R /\ Sound(a, R1)
    <2>1. r \notin Range(a.free)
      BY Zenon, <1>4
    <2> QED BY Zenon, <1>4, <2>1, NewRoot
  <1>7. \A v \in VPage : ~a.pte[r][v].v
    <2>1. r \in Root
      BY Zenon, <1>4, ConstantFacts
    <2> QED BY ZenonT(60), <1>4, <1>6, <2>1 DEF Sound, Filled
  <1>8. V = Mapped(a, parent)
    BY Zenon, <1>5 DEF V, Mapped
  <1>9. Len(a.free) >= Need(a, r, V)
    <2>1. /\ Cardinality(NoTable(a, r, V)) \in Nat
          /\ Cardinality(NoTable(a, r, V)) <= Cardinality(Groups(V))
      BY Zenon, <1>1, NoTableFinite
    <2>2. CASE V = {}
      <3>1. Need(a, r, V) = Cardinality(V) + Cardinality(NoTable(a, r, V)) + 0
        BY Zenon, <2>2 DEF Need
      <3>2. Len(m.free) >= 1 + Cardinality(V) + Cardinality(Groups(V)) + 0
        BY Zenon, <2>2, <1>2
      <3> QED BY ONLY <1>1, <1>2, <1>4, <2>1, <3>1, <3>2
    <2>3. CASE V # {}
      <3>1. \/ Need(a, r, V) = Cardinality(V) + Cardinality(NoTable(a, r, V)) + 0
            \/ Need(a, r, V) = Cardinality(V) + Cardinality(NoTable(a, r, V)) + 1
        BY Zenon, <2>3 DEF Need
      <3>2. Len(m.free) >= 1 + Cardinality(V) + Cardinality(Groups(V)) + 1
        BY Zenon, <2>3, <1>2
      <3> QED BY ONLY SMTT(30), <1>1, <1>2, <1>4, <2>1, <3>1, <3>2
    <2> QED BY Zenon, <2>2, <2>3
  <1>10. m1 = clone_loop(a, parent, r)[VPAGES]
    BY Zenon DEF memory_space_clone, a
  <1>11. parent \in R1 /\ r \in R1 /\ parent # r
    BY Zenon, <1>6
  <1> HIDE DEF R1
  <1>12. Grown(a, m1, R1, r, {}) /\ \A v \in VPage : Copied(a, m1, parent, r, v)
    BY ONLY Zenon, <1>6, <1>7, <1>8, <1>9, <1>10, <1>11, CloneLoopFacts
  <1>13. ASSUME NEW v \in VPage PROVE Copied(m, m1, parent, r, v)
    <2>1. Copied(a, m1, parent, r, v)
      BY Zenon, <1>12
    <2>2. CASE m.pte[parent][v].v
      <3>1. m.pte[parent][v].ppn \in Page /\ m.pte[parent][v].ppn # r
        BY <1>1, <1>4, <2>2, MappedNotFree
      <3> QED BY ZenonT(60), <1>5, <2>1, <2>2, <3>1 DEF Copied
    <2>3. CASE ~m.pte[parent][v].v
      BY ZenonT(60), <1>5, <2>1, <2>3 DEF Copied
    <2> QED BY Zenon, <2>2, <2>3
  <1>14. Grown(alloc_page(m), m1, R \cup {r}, r, {})
    BY Zenon, <1>12 DEF a, R1
  <1> QED BY ZenonT(60), <1>4, <1>6, <1>13, <1>14 DEF a, Cloned

-----------------------------------------------------------------------------
(* Unmapping a space *)

\* Page v of space r has gone back to the free list.
Vacated(m, m1, R, r, v) ==
  /\ Sound(m1, R) /\ m1.top = m.top /\ m1.low = m.low
  /\ \A x \in Root \ {r} : m1.pte[x] = m.pte[x]
  /\ ~m1.pte[r][v].v /\ \A w \in VPage \ {v} : m1.pte[r][w] = m.pte[r][w]
  /\ Range(m1.free) = Range(m.free) \cup {m.pte[r][v].ppn}
  /\ \A q \in Page : q # m.pte[r][v].ppn => m1.word[q] = m.word[q]

\* unmap_page gives the page back and empties the entry.
LEMMA UnmapPageFacts ==
    ASSUME NEW m, NEW R, Sound(m, R), NEW r \in R, NEW v \in VPage, m.pte[r][v].v,
           NEW m1, m1 = unmap_page(m, r, v)
    PROVE  Vacated(m, m1, R, r, v)
  <1> DEFINE p == m.pte[r][v].ppn
  <1>1. /\ m \in Memories /\ m.free \in Seq(Page) /\ r \in Root
        /\ Apart(m, R) /\ FreeOnce(m, R) /\ Filled(m, R) /\ R \subseteq Root
    BY ZenonT(60) DEF Sound, Memories
  <1>2. p \in Page /\ p \notin Range(m.free) /\ Holds(m, R, "pte", r, v, p)
    BY Zenon, <1>1, MappedNotFree
  <1>3. m.pte[r][v].flags \cap Access # {}
    BY ZenonT(60), <1>1 DEF Filled
  <1> HIDE DEF p
  <1>4. /\ <<p>> \o m.free \in Seq(Page)
        /\ Range(<<p>> \o m.free) = Range(m.free) \cup {p}
        /\ \A i, j \in 1..Len(<<p>> \o m.free) :
             (<<p>> \o m.free)[i] = (<<p>> \o m.free)[j] => i = j
    <2>1. \A i, j \in 1..Len(m.free) : m.free[i] = m.free[j] => i = j
      BY Zenon, <1>1 DEF FreeOnce
    <2> QED BY ONLY Zenon, <1>1, <1>2, <2>1, PushFacts
  <1>5. null_pte \in Entry /\ ~null_pte.v /\ 0 \in Word
    BY Zenon DEF null_pte, Entry, NULL, Word
  <1>6. /\ m1 \in Memories /\ m1.free = <<p>> \o m.free /\ m1.top = m.top /\ m1.low = m.low
        /\ m1.pte[r][v] = null_pte
        /\ \A w \in VPage \ {v} : m1.pte[r][w] = m.pte[r][w]
        /\ \A x \in Root \ {r} : m1.pte[x] = m.pte[x]
        /\ \A q \in Page : q # p => m1.word[q] = m.word[q]
    <2> DEFINE s == <<p>> \o m.free
               e == null_pte
    <2>1. m1 = [m EXCEPT !.free = s, !.word[p] = 0, !.pte[r][v] = e]
      BY Zenon, <1>1, <1>2, <1>3 DEF unmap_page, free_page, p, Memories
    <2>2. s \in Seq(Page) /\ e \in Entry
      BY Zenon, <1>4, <1>5
    <2> HIDE DEF s, e
    <2>3. /\ m1 \in Memories /\ m1.free = s /\ m1.top = m.top /\ m1.low = m.low
          /\ m1.pte[r][v] = e
          /\ \A w \in VPage \ {v} : m1.pte[r][w] = m.pte[r][w]
          /\ \A x \in Root \ {r} : m1.pte[x] = m.pte[x]
          /\ \A q \in Page : q # p => m1.word[q] = m.word[q]
      BY ONLY ZenonT(60), <1>1, <1>2, <1>5, <2>1, <2>2, v \in VPage DEF Memories
    <2> QED BY Zenon, <2>3 DEF s, e
  <1>7. ASSUME NEW k \in Kind, NEW x \in Root, NEW j \in VPage, NEW q \in Page,
               Holds(m1, R, k, x, j, q)
        PROVE  Holds(m, R, k, x, j, q) /\ q # p
    <2>1. ~(k = "pte" /\ x = r /\ j = v)
      BY ZenonT(60), <1>5, <1>6, <1>7 DEF Holds
    <2>2. Holds(m, R, k, x, j, q)
      BY ZenonT(60), <1>6, <1>7, <2>1 DEF Holds
    <2>3. "pte" \in Kind
      BY Zenon DEF Kind
    <2> QED BY <1>1, <1>2, <2>1, <2>2, <2>3 DEF Apart
  <1>8. Apart(m1, R)
    BY <1>1, <1>7 DEF Apart
  <1>9. FreeOnce(m1, R)
    <2>1. Range(m.free) \subseteq Page
      BY <1>1 DEF Range
    <2>2. \A q \in Range(m1.free) : Unheld(m1, R, q)
      <3> SUFFICES ASSUME NEW q \in Range(m1.free), NEW k \in Kind, NEW x \in Root,
                          NEW j \in VPage, Holds(m1, R, k, x, j, q)
                   PROVE  FALSE
        BY Zenon DEF Unheld
      <3>1. q \in Page /\ (q = p \/ q \in Range(m.free))
        BY ZenonT(60), <1>2, <1>4, <1>6, <2>1
      <3>2. Holds(m, R, k, x, j, q) /\ q # p
        BY Zenon, <1>7, <3>1
      <3> QED BY Zenon, <1>1, <3>1, <3>2 DEF FreeOnce, Unheld
    <2> QED BY <1>4, <1>6, <2>2 DEF FreeOnce
  <1>10. Filled(m1, R)
    BY <1>1, <1>5, <1>6 DEF Filled
  <1> QED BY ZenonT(60), <1>1, <1>4, <1>5, <1>6, <1>8, <1>9, <1>10 DEF Vacated, Sound, p

\* The pages mapped at the virtual pages of r below i.
Below(m, r, i) == {m.pte[r][v].ppn : v \in {w \in VPage : w < i /\ m.pte[r][w].v}}

\* What the rounds before i unmap, and what round i adds.
LEMMA BelowFacts ==
    ASSUME NEW m, NEW r, NEW i \in VPage
    PROVE  /\ Below(m, r, 0) = {}
           /\ m.pte[r][i].v => Below(m, r, i + 1) = Below(m, r, i) \cup {m.pte[r][i].ppn}
           /\ ~m.pte[r][i].v => Below(m, r, i + 1) = Below(m, r, i)
  <1>1. VPage \subseteq Nat
    BY Zenon, ConstantFacts
  <1>2. \A v \in VPage : ~(v < 0) /\ (v < i + 1 <=> v < i \/ v = i)
    BY <1>1
  <1>3. Below(m, r, 0) = {}
    BY Zenon, <1>2 DEF Below
  <1>4. m.pte[r][i].v => Below(m, r, i + 1) = Below(m, r, i) \cup {m.pte[r][i].ppn}
    BY Zenon, <1>2 DEF Below
  <1>5. ~m.pte[r][i].v => Below(m, r, i + 1) = Below(m, r, i)
    BY Zenon, <1>2 DEF Below
  <1> QED BY Zenon, <1>3, <1>4, <1>5

\* Space r maps nothing any more, and what it mapped is free.
Vacant(m, m1, R, r) ==
  /\ Sound(m1, R) /\ m1.top = m.top /\ m1.low = m.low
  /\ \A x \in Root \ {r} : m1.pte[x] = m.pte[x]
  /\ \A v \in VPage : ~m1.pte[r][v].v
  /\ Range(m1.free) = Range(m.free) \cup Below(m, r, VPAGES)
  /\ \A q \in Page : q \notin Below(m, r, VPAGES) => m1.word[q] = m.word[q]

\* memory_unmap_and_free_user and memory_space_reclaim give every page that the
\* space maps back to the free list, and touch no other space.
LEMMA UnmapAllFacts ==
    ASSUME NEW m, NEW R, Sound(m, R), NEW r \in R,
           NEW m1, m1 = unmap_all(m, r)
    PROVE  Vacant(m, m1, R, r)
  <1> DEFINE at == unmap_loop(m, r)
             Good(i) == /\ Sound(at[i], R) /\ at[i].top = m.top /\ at[i].low = m.low
                        /\ \A x \in Root \ {r} : at[i].pte[x] = m.pte[x]
                        /\ \A v \in VPage : v < i => ~at[i].pte[r][v].v
                        /\ \A v \in VPage : v >= i => at[i].pte[r][v] = m.pte[r][v]
                        /\ Range(at[i].free) = Range(m.free) \cup Below(m, r, i)
                        /\ \A q \in Page : q \notin Below(m, r, i) => at[i].word[q] = m.word[q]
             Q == {i \in 0..VPAGES : Good(i)}
  <1>1. /\ at[0] = m
        /\ \A i \in 0..(VPAGES - 1) : at[i + 1] = unmap_page(at[i], r, i)
    BY UnmapLoopRounds
  <1> HIDE DEF at
  <1>2. VPAGES \in Nat /\ VPage = 0..(VPAGES - 1)
    BY Zenon, MemoryAssumption DEF VPage
  <1>3. 0 \in Q
    <2>1. Below(m, r, 0) = {}
      BY Zenon, BelowFacts, ConstantFacts
    <2>2. \A v \in VPage : ~(v < 0)
      BY <1>2
    <2>3. Good(0)
      BY Zenon, <1>1, <2>1, <2>2
    <2> QED BY <2>3, <1>2
  <1>4. ASSUME NEW i \in 0..(VPAGES - 1), i \in Q PROVE i + 1 \in Q
    <2> DEFINE a == at[i]
               b == at[i + 1]
    <2>1. /\ Sound(a, R) /\ a.top = m.top /\ a.low = m.low
          /\ \A x \in Root \ {r} : a.pte[x] = m.pte[x]
          /\ \A v \in VPage : v < i => ~a.pte[r][v].v
          /\ \A v \in VPage : v >= i => a.pte[r][v] = m.pte[r][v]
          /\ Range(a.free) = Range(m.free) \cup Below(m, r, i)
          /\ \A q \in Page : q \notin Below(m, r, i) => a.word[q] = m.word[q]
      BY ZenonT(60), <1>4
    <2>2. b = unmap_page(a, r, i)
      BY ZenonT(60), <1>1, <1>4
    <2>3. i \in VPage /\ i + 1 \in 0..VPAGES /\ i >= i
      BY SMTT(30), <1>2, <1>4
    <2>4. \A v \in VPage : (v < i + 1 <=> v < i \/ v = i) /\ (v >= i + 1 => v >= i /\ v # i)
      BY <1>2, <1>4
    <2>5. a.pte[r][i] = m.pte[r][i]
      BY Zenon, <2>1, <2>3
    <2> HIDE DEF a, b
    <2>6. CASE a.pte[r][i].v
      <3>1. Vacated(a, b, R, r, i)
        BY ONLY ZenonT(60), <2>1, <2>2, <2>3, <2>6, r \in R, UnmapPageFacts
      <3>2. Below(m, r, i + 1) = Below(m, r, i) \cup {a.pte[r][i].ppn}
        BY <2>3, <2>5, <2>6, BelowFacts
      <3>3. \A v \in VPage : v < i + 1 => ~b.pte[r][v].v
        BY Zenon, <2>1, <2>4, <3>1 DEF Vacated
      <3>4. \A v \in VPage : v >= i + 1 => b.pte[r][v] = m.pte[r][v]
        BY ZenonT(60), <2>1, <2>4, <3>1 DEF Vacated
      <3>5. /\ Range(b.free) = Range(m.free) \cup Below(m, r, i + 1)
            /\ \A q \in Page : q \notin Below(m, r, i + 1) => b.word[q] = m.word[q]
        BY ZenonT(60), <2>1, <3>1, <3>2 DEF Vacated
      <3>6. /\ Sound(b, R) /\ b.top = m.top /\ b.low = m.low
            /\ \A x \in Root \ {r} : b.pte[x] = m.pte[x]
        BY ZenonT(60), <2>1, <3>1 DEF Vacated
      <3> QED BY ZenonT(60), <2>3, <3>3, <3>4, <3>5, <3>6 DEF b
    <2>7. CASE ~a.pte[r][i].v
      <3>1. b = a
        BY Zenon, <2>2, <2>7 DEF unmap_page
      <3>2. Below(m, r, i + 1) = Below(m, r, i)
        BY <2>3, <2>5, <2>7, BelowFacts
      <3>3. /\ \A v \in VPage : v < i + 1 => ~b.pte[r][v].v
            /\ \A v \in VPage : v >= i + 1 => b.pte[r][v] = m.pte[r][v]
        BY Zenon, <2>1, <2>4, <2>7, <3>1
      <3> QED BY ZenonT(60), <2>1, <2>3, <3>1, <3>2, <3>3 DEF b
    <2> QED BY ZenonT(60), <2>6, <2>7
  <1>5. VPAGES \in Q
    <2> HIDE DEF Q
    <2> QED BY ONLY <1>2, <1>3, <1>4, LoopInduction
  <1>6. Good(VPAGES) /\ m1 = at[VPAGES]
    BY Zenon, <1>5 DEF at, unmap_all
  <1> QED BY <1>2, <1>6 DEF Vacant

-----------------------------------------------------------------------------
(* What a step does to memory *)

\* The pages mapped by space r.
PagesOf(m, r) == Below(m, r, VPAGES)

\* The pages of a space, entry by entry.
LEMMA PagesOfFacts ==
    ASSUME NEW m, NEW r, NEW q
    PROVE  q \in PagesOf(m, r) <=> \E v \in VPage : m.pte[r][v].v /\ m.pte[r][v].ppn = q
  <1>1. \A v \in VPage : v < VPAGES
    BY MemoryAssumption DEF VPage
  <1> QED BY Zenon, <1>1 DEF PagesOf, Below

\* Only the entries of r, the pages it maps and free pages change.
Confined(m, m1, r) ==
  /\ \A x \in Root \ {r} : m1.pte[x] = m.pte[x]
  /\ \A q \in Page : q \notin Range(m.free) /\ q \notin PagesOf(m, r) =>
       m1.word[q] = m.word[q]

\* Every page that was free or held is still one or the other, unless another
\* page has taken its place in an entry of r.
Conserved(m, R, m1, R1, r) ==
  /\ \A q \in Range(m.free) :
       q \in Range(m1.free) \/ \E k \in Kind, j \in VPage : Holds(m1, R1, k, r, j, q)
  /\ \A k \in Kind, x \in Root, j \in VPage, q \in Page :
       Holds(m, R, k, x, j, q) =>
         \/ Holds(m1, R1, k, x, j, q)
         \/ k = "pte" /\ x = r /\ q \in Range(m1.free)
         \/ k = "pte" /\ x = r /\ m1.pte[r][j].v /\ m1.pte[r][j].ppn # q

Effect(m, R, m1, R1, r) ==
  Sound(m1, R1) /\ Confined(m, m1, r) /\ Conserved(m, R, m1, R1, r)

\* A space that only grows is confined to itself and loses no page.
LEMMA GrownEffect ==
    ASSUME NEW m, NEW R, Sound(m, R), NEW r \in R, NEW W, NEW m1, Grown(m, m1, R, r, W),
           \A v \in W : m1.pte[r][v].v
    PROVE  Effect(m, R, m1, R, r)
  <1>1. Sound(m1, R) /\ Confined(m, m1, r)
    BY ZenonT(60) DEF Grown, Confined
  <1>2. ASSUME NEW q \in Range(m.free)
        PROVE  q \in Range(m1.free) \/ \E k \in Kind, j \in VPage : Holds(m1, R, k, r, j, q)
    BY ZenonT(60), <1>2 DEF Grown
  <1>3. ASSUME NEW k \in Kind, NEW x \in Root, NEW j \in VPage, NEW q \in Page,
               Holds(m, R, k, x, j, q)
        PROVE  \/ Holds(m1, R, k, x, j, q)
               \/ k = "pte" /\ x = r /\ m1.pte[r][j].v /\ m1.pte[r][j].ppn # q
    <2>1. q # NULL
      BY Zenon, ConstantFacts
    <2>2. CASE x # r
      BY ZenonT(60), <1>3, <2>2 DEF Grown, Holds
    <2>3. CASE x = r /\ k # "pte"
      BY ZenonT(60), <1>3, <2>1, <2>3 DEF Grown, Holds
    <2>4. CASE x = r /\ k = "pte" /\ j \notin W
      BY ZenonT(60), <1>3, <2>4 DEF Grown, Holds
    <2>5. CASE x = r /\ k = "pte" /\ j \in W
      BY ZenonT(60), <1>3, <2>5 DEF Holds
    <2> QED BY Zenon, <2>2, <2>3, <2>4, <2>5
  <1>4. Conserved(m, R, m1, R, r)
    BY Zenon, <1>2, <1>3 DEF Conserved
  <1> QED BY Zenon, <1>1, <1>4 DEF Effect

\* So is one that is unmapped.
LEMMA VacantEffect ==
    ASSUME NEW m, NEW R, Sound(m, R), NEW r \in R, NEW m1, Vacant(m, m1, R, r)
    PROVE  Effect(m, R, m1, R, r)
  <1>1. Sound(m1, R) /\ Confined(m, m1, r)
    BY Zenon DEF Vacant, Confined, PagesOf
  <1>2. ASSUME NEW k \in Kind, NEW x \in Root, NEW j \in VPage, NEW q \in Page,
               Holds(m, R, k, x, j, q)
        PROVE  \/ Holds(m1, R, k, x, j, q)
               \/ k = "pte" /\ x = r /\ q \in Range(m1.free)
    <2>1. CASE k = "pte" /\ x = r
      <3>1. q \in PagesOf(m, r)
        BY Zenon, <1>2, <2>1, PagesOfFacts DEF Holds
      <3> QED BY Zenon, <2>1, <3>1 DEF Vacant, PagesOf
    <2>2. CASE ~(k = "pte" /\ x = r)
      BY ZenonT(60), <1>2, <2>2 DEF Vacant, Holds
    <2> QED BY Zenon, <2>1, <2>2
  <1>3. Conserved(m, R, m1, R, r)
    BY ZenonT(60), <1>2 DEF Conserved, Vacant
  <1> QED BY Zenon, <1>1, <1>3 DEF Effect

\* Space r keeps its pages, with other rights or contents.
LEMMA RewriteEffect ==
    ASSUME NEW m, NEW R, Sound(m, R), NEW r \in R,
           NEW m1 \in Memories, m1.free = m.free, m1.top = m.top, m1.low = m.low,
           \A x \in Root \ {r} : m1.pte[x] = m.pte[x],
           \A v \in VPage : /\ m1.pte[r][v].v = m.pte[r][v].v
                            /\ m1.pte[r][v].ppn = m.pte[r][v].ppn
                            /\ m1.pte[r][v].v => m1.pte[r][v].flags \cap Access # {},
           \A q \in Page : q \notin PagesOf(m, r) => m1.word[q] = m.word[q]
    PROVE  Effect(m, R, m1, R, r)
  <1>1. ASSUME NEW k, NEW x, NEW j, NEW q
        PROVE  Holds(m1, R, k, x, j, q) <=> Holds(m, R, k, x, j, q)
    <2>1. R \subseteq Root
      BY Zenon DEF Sound
    <2>2. CASE x = r
      BY ZenonT(60), <2>1, <2>2 DEF Holds
    <2>3. CASE x # r
      BY ZenonT(60), <2>1, <2>3 DEF Holds
    <2> QED BY ZenonT(60), <2>2, <2>3
  <1>2. Apart(m1, R) /\ FreeOnce(m1, R)
    BY SMTT(30), <1>1 DEF Sound, Apart, FreeOnce, Unheld
  <1>3. Filled(m1, R)
    BY DEF Sound, Filled
  <1>4. Sound(m1, R)
    BY Zenon, <1>2, <1>3 DEF Sound
  <1>5. Conserved(m, R, m1, R, r)
    BY ZenonT(60), <1>1 DEF Conserved
  <1>6. Confined(m, m1, r)
    BY ZenonT(60) DEF Confined
  <1> QED BY Zenon, <1>4, <1>5, <1>6 DEF Effect

\* memory_space_clone is confined to the new space.
LEMMA CloneEffect ==
    ASSUME NEW m, NEW R, Sound(m, R), NEW parent, NEW r, NEW m1,
           Cloned(m, m1, R, parent, r), r = Head(m.free)
    PROVE  Effect(m, R, m1, R \cup {r}, r)
  <1> DEFINE a  == alloc_page(m)
             R1 == R \cup {r}
  <1>1. /\ r \in Range(m.free) /\ r \in Page /\ r \notin R
        /\ Range(a.free) = Range(m.free) \ {r}
        /\ Grown(a, m1, R1, r, {})
    BY ZenonT(60) DEF Cloned
  <1>2. m.free # <<>> /\ m \in Memories
    BY <1>1 DEF Range, Sound
  <1>3. /\ a.top = m.top /\ a.low = m.low /\ a.pte = m.pte
        /\ \A q \in Page : q # r => a.word[q] = m.word[q]
    BY Zenon, <1>2, AllocFacts
  <1> HIDE DEF a
  <1>4. Sound(m1, R1)
    BY ZenonT(60), <1>1 DEF Grown
  <1>5. Confined(m, m1, r)
    BY ZenonT(60), <1>1, <1>3 DEF Grown, Confined
  <1>6. ASSUME NEW q \in Range(m.free)
        PROVE  q \in Range(m1.free) \/ \E k \in Kind, j \in VPage : Holds(m1, R1, k, r, j, q)
    <2>1. CASE q = r
      <3>1. Holds(m1, R1, "root", r, 0, r) /\ "root" \in Kind /\ 0 \in VPage
        BY Zenon, ConstantFacts DEF Holds, Kind
      <3> QED BY Zenon, <2>1, <3>1
    <2>2. CASE q # r
      BY ZenonT(60), <1>1, <1>6, <2>2 DEF Grown
    <2> QED BY Zenon, <2>1, <2>2
  <1>7. ASSUME NEW k \in Kind, NEW x \in Root, NEW j \in VPage, NEW q \in Page,
               Holds(m, R, k, x, j, q)
        PROVE  Holds(m1, R1, k, x, j, q)
    <2>1. x \in R /\ x # r
      BY ZenonT(60), <1>1, <1>7 DEF Holds
    <2>2. m1.top[x] = m.top[x] /\ m1.low[x] = m.low[x] /\ m1.pte[x] = m.pte[x]
      BY ZenonT(60), <1>1, <1>3, <2>1 DEF Grown
    <2> QED BY ZenonT(60), <1>7, <2>1, <2>2 DEF Holds
  <1>8. Conserved(m, R, m1, R1, r)
    BY Zenon, <1>6, <1>7 DEF Conserved
  <1> QED BY Zenon, <1>4, <1>5, <1>8 DEF Effect

\* A store to a page that is mapped.
LEMMA WriteEffect ==
    ASSUME NEW m, NEW R, Sound(m, R), NEW r \in R, NEW v \in VPage, m.pte[r][v].v,
           NEW d \in Word, NEW m1, m1 = [m EXCEPT !.word[m.pte[r][v].ppn] = d]
    PROVE  Effect(m, R, m1, R, r)
  <1>1. m \in Memories /\ r \in Root /\ Filled(m, R)
    BY Zenon DEF Sound
  <1>2. m.pte[r][v].ppn \in Page
    BY Zenon, <1>1 DEF Filled
  <1>3. /\ m1 \in Memories /\ m1.free = m.free /\ m1.top = m.top /\ m1.low = m.low
        /\ m1.pte = m.pte
        /\ \A q \in Page : q # m.pte[r][v].ppn => m1.word[q] = m.word[q]
    BY Zenon, <1>1, <1>2 DEF Memories
  <1>4. \A q \in Page : q \notin PagesOf(m, r) => m1.word[q] = m.word[q]
    BY Zenon, <1>3, PagesOfFacts
  <1>5. \A w \in VPage : /\ m1.pte[r][w].v = m.pte[r][w].v
                         /\ m1.pte[r][w].ppn = m.pte[r][w].ppn
                         /\ m1.pte[r][w].v => m1.pte[r][w].flags \cap Access # {}
    BY <1>1, <1>3 DEF Filled
  <1>6. \A x \in Root \ {r} : m1.pte[x] = m.pte[x]
    BY Zenon, <1>3
  <1> HIDE DEF Sound
  <1> QED BY ONLY ZenonT(60), Sound(m, R), r \in R, <1>3, <1>4, <1>5, <1>6, RewriteEffect

\* elf_load fills the pages of a segment and sets their rights.
LEMMA LoadEffect ==
    ASSUME NEW m, NEW R, Sound(m, R), NEW r \in R, NEW S \in SUBSET VPage,
           \A v \in S : m.pte[r][v].v, NEW d \in Word, NEW flags \in Rights,
           NEW ppns, ppns = {m.pte[r][v].ppn : v \in S},
           NEW m0, m0 = [m EXCEPT !.word = [p \in DOMAIN @ |-> IF p \in ppns THEN d ELSE @[p]]],
           NEW m1, m1 = memory_set_range_flags(m0, r, S, flags)
    PROVE  Effect(m, R, m1, R, r)
  <1>1. m \in Memories /\ r \in Root /\ Filled(m, R) /\ m.word \in [Page -> Word]
        /\ m.pte[r] \in [VPage -> Entry] /\ m.pte \in [Root -> [VPage -> Entry]]
    BY Zenon DEF Sound, Memories
  <1>2. /\ m0 \in Memories /\ m0.free = m.free /\ m0.top = m.top /\ m0.low = m.low
        /\ m0.pte = m.pte
        /\ \A q \in Page : q \notin ppns => m0.word[q] = m.word[q]
    BY ZenonT(60), <1>1 DEF Memories
  <1> DEFINE new == [v \in VPage |-> IF v \in S THEN memory_set_page_flags(m.pte[r][v], flags)
                                     ELSE m.pte[r][v]]
  <1>3. m1 = [m0 EXCEPT !.pte[r] = new]
    BY Zenon, <1>2 DEF memory_set_range_flags
  <1>4. flags \in SUBSET Flag /\ flags \cap Access # {}
    BY Zenon DEF Rights
  <1>5. ASSUME NEW v \in VPage
        PROVE  /\ new[v] \in Entry /\ new[v].v = m.pte[r][v].v /\ new[v].ppn = m.pte[r][v].ppn
               /\ new[v].v => new[v].flags \cap Access # {}
    <2>1. m.pte[r][v] \in Entry /\ (m.pte[r][v].v => m.pte[r][v].flags \cap Access # {})
      BY Zenon, <1>1 DEF Filled
    <2>2. CASE v \in S
      <3>1. new[v] = [m.pte[r][v] EXCEPT !.flags = flags]
        BY Zenon, <2>2 DEF memory_set_page_flags
      <3> HIDE DEF new
      <3> QED BY Zenon, <1>4, <2>1, <3>1 DEF Entry
    <2>3. CASE v \notin S
      BY Zenon, <2>1, <2>3
    <2> QED BY Zenon, <2>2, <2>3
  <1>6. new \in [VPage -> Entry]
    BY Zenon, <1>5
  <1> HIDE DEF new
  <1>7. /\ m1 \in Memories /\ m1.free = m.free /\ m1.top = m.top /\ m1.low = m.low
        /\ m1.pte[r] = new /\ m1.word = m0.word
        /\ \A x \in Root \ {r} : m1.pte[x] = m.pte[x]
    <2>1. /\ m1.free = m0.free /\ m1.top = m0.top /\ m1.low = m0.low /\ m1.word = m0.word
          /\ m1.pte = [m0.pte EXCEPT ![r] = new]
      BY ZenonT(60), <1>2, <1>3 DEF Memories
    <2>2. /\ m1.pte \in [Root -> [VPage -> Entry]] /\ m1.pte[r] = new
          /\ \A x \in Root \ {r} : m1.pte[x] = m.pte[x]
      BY ONLY ZenonT(60), <1>1, <1>2, <1>6, <2>1
    <2>3. m1 \in Memories
      BY ZenonT(60), <1>2, <1>3, <2>1, <2>2 DEF Memories
    <2> QED BY ZenonT(60), <1>2, <2>1, <2>2, <2>3
  <1>8. \A q \in Page : q \notin PagesOf(m, r) => m1.word[q] = m.word[q]
    <2>1. ppns \subseteq PagesOf(m, r)
      BY ZenonT(60), PagesOfFacts
    <2> QED BY Zenon, <1>2, <1>7, <2>1
  <1>9. \A w \in VPage : /\ m1.pte[r][w].v = m.pte[r][w].v
                         /\ m1.pte[r][w].ppn = m.pte[r][w].ppn
                         /\ m1.pte[r][w].v => m1.pte[r][w].flags \cap Access # {}
    BY ZenonT(60), <1>5, <1>7
  <1> QED BY ONLY ZenonT(60), Sound(m, R), r \in R, <1>7, <1>8, <1>9, RewriteEffect

\* A page fault walks to the entry, then maps a page there.
LEMMA FaultEffect ==
    ASSUME NEW m, NEW R, Sound(m, R), NEW r \in R, NEW v \in VPage,
           Len(m.free) >= MapNeeds({v}), NEW flags \in Rights,
           NEW m1, m1 = memory_alloc_and_map_page(walk_pt(m, r, v), r, v, flags)
    PROVE  Effect(m, R, m1, R, r)
  <1> DEFINE w == walk_pt(m, r, v)
  <1>1. Cardinality({v}) = 1
    BY Zenon, FS_Singleton
  <1>2. Len(m.free) >= 3 /\ Len(m.free) \in Nat
    BY <1>1 DEF MapNeeds, Sound, Memories
  <1>3. Missing(m, r, v) \in 0..2
    BY ZenonT(60), MissingRange
  <1>4. /\ Grown(m, w, R, r, {}) /\ w.pte = m.pte
        /\ w.top[r] # NULL /\ w.low[r][v \div PER_TABLE] # NULL
        /\ Len(w.free) = Len(m.free) - Missing(m, r, v)
    <2>1. Len(m.free) >= Missing(m, r, v)
      BY <1>2, <1>3
    <2> QED BY <2>1, WalkFacts
  <1> HIDE DEF w
  <1>5. Sound(w, R)
    BY Zenon, <1>4 DEF Grown
  <1>6. Len(w.free) >= 1 + Missing(w, r, v)
    <2>1. Missing(w, r, v) = 0
      BY <1>4 DEF Missing
    <2>2. Len(w.free) = Len(m.free) - Missing(m, r, v)
      BY Zenon, <1>4
    <2> QED BY ONLY SMTT(30), <1>2, <1>3, <2>1, <2>2
  <1>7. Grown(w, m1, R, r, {v}) /\ Placed(w, m1, r, v)
    <2>1. m1 = memory_alloc_and_map_page(w, r, v, flags)
      BY Zenon DEF w
    <2> QED BY Zenon, <1>5, <1>6, <2>1, MapPageFacts
  <1>8. Grown(m, m1, R, r, {v})
    BY ZenonT(60), <1>4, <1>7, GrownTrans
  <1>9. \A x \in {v} : m1.pte[r][x].v
    BY Zenon, <1>7 DEF Placed
  <1> QED BY <1>8, <1>9, GrownEffect

-----------------------------------------------------------------------------
(* The inductive invariant *)

Segs == UNION {Range(g) : g \in Program}

StateTypes ==
  /\ mtag \in [Proc -> Root \cup {NULL}]
  /\ phase \in [Proc -> {"unborn", "boot", "user", "exec", "closing", "dead"}]
  /\ todo \in [Proc -> Seq(Segs)]
  /\ cur \in Proc \cup {None} /\ panicked \in BOOLEAN /\ ops \in 0..OPS

(* A process has a space of its own from fork on. *)
Owners ==
  /\ mtag[MAIN] = main_pt2
  /\ \A q \in Proc : mtag[q] = NULL <=> phase[q] = "unborn"
  /\ \A q1, q2 \in Proc : mtag[q1] = mtag[q2] /\ mtag[q1] # NULL => q1 = q2

(* The active space is that of a process, and a process that has not begun *)
(* or is over does not run.                                                *)
Active ==
  /\ satp \in RootsInUse
  /\ cur # None => phase[cur] \notin {"unborn", "dead"}
  /\ RunsInOwnSpace

IInv == StateTypes /\ Owners /\ Active /\ Sound(mem, RootsInUse)

\* elf_load's segments lie in the user region and have a right.
LEMMA SegFacts ==
    ASSUME NEW s \in Segs
    PROVE  /\ SegPages(s) \in SUBSET VPage /\ s.data \in Word
           /\ s.flags \cup {"U"} \in Rights /\ s.flags \cup {"U", "W"} \in Rights
  <1>1. PICK g \in Program : s \in Range(g)
    BY Zenon DEF Segs
  <1>2. s \in Segment /\ s.last < VPAGES
    <2>1. g \in Seq(Segment)
      BY Zenon, MemoryAssumption
    <2>2. s \in Segment
      BY <1>1, <2>1 DEF Range
    <2> QED BY Zenon, <1>1, <2>2, MemoryAssumption
  <1>3. s.first \in Nat /\ s.last \in Nat /\ s.flags \subseteq Access /\ s.flags # {}
    BY Zenon, <1>2 DEF Segment
  <1>4. SegPages(s) \in SUBSET VPage
    BY SMTT(30), <1>2, <1>3, MemoryAssumption DEF SegPages, VPage
  <1>5. s.data \in Word
    BY <1>1 DEF Word
  <1>6. /\ s.flags \cup {"U"} \in Rights /\ s.flags \cup {"U", "W"} \in Rights
    BY Zenon, <1>3 DEF Rights, Flag, Access
  <1> QED BY Zenon, <1>4, <1>5, <1>6

\* The process that runs a program or loads one is in its own space.
LEMMA SpaceOfCur ==
    ASSUME IInv, NEW ph \in {"boot", "user", "exec"}, Runs(ph)
    PROVE  /\ cur \in Proc /\ phase[cur] = ph /\ ~panicked
           /\ satp = mtag[cur] /\ satp \in RootsInUse /\ satp \in Root
  <1>1. cur \in Proc /\ phase[cur] = ph /\ ~panicked
    BY Zenon DEF IInv, StateTypes, Runs
  <1>2. satp = mtag[cur] /\ satp \in RootsInUse
    BY Zenon, <1>1 DEF IInv, Active, RunsInOwnSpace, Runs
  <1>3. RootsInUse \subseteq Root
    BY Zenon DEF IInv, Sound
  <1> QED BY Zenon, <1>1, <1>2, <1>3

\* An executable is a sequence of segments.
LEMMA ProgramSegs ==
    ASSUME NEW g \in Program
    PROVE  g \in Seq(Segs)
  <1>1. g \in Seq(Segment)
    BY Zenon, MemoryAssumption
  <1>2. \A i \in 1..Len(g) : g[i] \in Segs
    BY <1>1 DEF Segs, Range
  <1> QED BY <1>1, <1>2

\* The kernel starts with every page free and the main process in main_pt2.
LEMMA InitIInv ==
    ASSUME Init
    PROVE  IInv
  <1>1. StateTypes
    <2>1. \A g \in Program : g \in Seq(Segs)
      BY Zenon, ProgramSegs
    <2>2. todo \in [Proc -> Seq(Segs)]
      <3>1. todo \in [Proc -> {<<>>} \cup Program] /\ <<>> \in Seq(Segs)
        BY DEF Init
      <3> QED BY ONLY ZenonT(60), <2>1, <3>1
    <2>3. mtag \in [Proc -> Root \cup {NULL}]
      BY Zenon, ConstantFacts DEF Init
    <2>4. phase \in [Proc -> {"unborn", "boot", "user", "exec", "closing", "dead"}]
      BY Zenon DEF Init
    <2>5. cur \in Proc \cup {None} /\ ops \in 0..OPS
      BY MemoryAssumption DEF Init
    <2>6. panicked \in BOOLEAN
      BY ZenonT(60) DEF Init
    <2> QED BY Zenon, <2>2, <2>3, <2>4, <2>5, <2>6 DEF StateTypes
  <1>2. RootsInUse = {main_pt2}
    BY Zenon, ConstantFacts DEF Init, RootsInUse
  <1>3. Owners
    BY Zenon, ConstantFacts DEF Init, Owners
  <1>4. Active
    BY Zenon, <1>2, ConstantFacts DEF Init, Active, RunsInOwnSpace
  <1>5. mem \in Memories /\ RootsInUse \subseteq Root
    <2>1. mem.free \in Seq(Page)
      <3>1. \A i \in 1..PAGE_CNT : PAGE_CNT + 1 - i \in Page
        BY MemoryAssumption DEF Page
      <3> QED BY <3>1, MemoryAssumption DEF Init
    <2>2. null_pte \in Entry /\ 0 \in Word
      BY ZenonT(60) DEF null_pte, Entry, Word
    <2> QED BY ZenonT(60), <1>2, <2>1, <2>2, ConstantFacts DEF Init, Memories
  <1>6. ASSUME NEW k \in Kind, NEW x \in Root, NEW j \in VPage, NEW p \in Page
        PROVE  ~Holds(mem, RootsInUse, k, x, j, p)
    BY Zenon, <1>2, ConstantFacts DEF Init, Holds, null_pte
  <1>7. Apart(mem, RootsInUse)
    BY ZenonT(60), <1>6 DEF Apart
  <1>8. FreeOnce(mem, RootsInUse)
    <2>1. \A i, j \in 1..Len(mem.free) : mem.free[i] = mem.free[j] => i = j
      BY MemoryAssumption DEF Init
    <2>2. Range(mem.free) \subseteq Page
      BY <1>5 DEF Range, Memories
    <2> QED BY ZenonT(60), <1>6, <2>1, <2>2 DEF FreeOnce, Unheld
  <1>9. Filled(mem, RootsInUse)
    BY Zenon DEF Init, Filled, null_pte
  <1> QED BY Zenon, <1>1, <1>3, <1>4, <1>5, <1>7, <1>8, <1>9 DEF IInv, Sound

-----------------------------------------------------------------------------
(* The actions *)

MemoryStep(r) == Effect(mem, RootsInUse, mem', RootsInUse', r)

\* A step of the running process in its own space.
OwnStep ==
  /\ cur \in Proc /\ satp = mtag[cur] /\ satp \in RootsInUse
  /\ mtag' = mtag /\ MemoryStep(satp)

\* The roots in use are those of the processes.
LEMMA SameRoots ==
    ASSUME mtag' = mtag
    PROVE  RootsInUse' = RootsInUse
  BY Zenon DEF RootsInUse

\* A store of a user program goes to its own space.
LEMMA UserWriteStep ==
    ASSUME IInv, NEW v \in VPage, NEW d \in Data, UserWrite(v, d)
    PROVE  OwnStep
  <1>1. cur \in Proc /\ satp = mtag[cur] /\ satp \in RootsInUse
    BY Zenon, SpaceOfCur DEF UserWrite
  <1>2. d \in Word
    BY Zenon DEF Word
  <1>3. /\ mem.pte[satp][v].v /\ mtag' = mtag
        /\ mem' = [mem EXCEPT !.word[mem.pte[satp][v].ppn] = d]
    BY Zenon DEF UserWrite
  <1>4. Sound(mem, RootsInUse)
    BY Zenon DEF IInv
  <1>5. Effect(mem, RootsInUse, mem', RootsInUse, satp)
    BY ONLY Zenon, <1>1, <1>2, <1>3, <1>4, v \in VPage, WriteEffect
  <1>6. RootsInUse' = RootsInUse
    BY Zenon, <1>3, SameRoots
  <1> QED BY Zenon, <1>1, <1>3, <1>5, <1>6 DEF OwnStep, MemoryStep

\* memory_handle_page_fault maps in the space of the process that faulted.
LEMMA FaultStep ==
    ASSUME IInv, NEW v \in VPage, memory_handle_page_fault(v)
    PROVE  OwnStep
  <1>1. cur \in Proc /\ satp = mtag[cur] /\ satp \in RootsInUse
    BY Zenon, SpaceOfCur DEF memory_handle_page_fault
  <1>2. {"R", "W", "U"} \in Rights
    BY Zenon DEF Rights, Flag, Access
  <1>3. /\ Len(mem.free) >= MapNeeds({v}) /\ mtag' = mtag
        /\ mem' = memory_alloc_and_map_page(walk_pt(mem, satp, v), satp, v, {"R", "W", "U"})
    BY Zenon DEF memory_handle_page_fault
  <1>4. Sound(mem, RootsInUse)
    BY Zenon DEF IInv
  <1>5. Effect(mem, RootsInUse, mem', RootsInUse, satp)
    BY ONLY Zenon, <1>1, <1>2, <1>3, <1>4, v \in VPage, FaultEffect
  <1>6. RootsInUse' = RootsInUse
    BY Zenon, <1>3, SameRoots
  <1> QED BY Zenon, <1>1, <1>3, <1>5, <1>6 DEF OwnStep, MemoryStep

\* elf_load maps a segment in the space of the process that loads it.
LEMMA MapStep ==
    ASSUME IInv, map_segment
    PROVE  OwnStep
  <1>1. cur \in Proc /\ satp = mtag[cur] /\ satp \in RootsInUse
    BY Zenon, SpaceOfCur DEF map_segment, Loading
  <1> DEFINE S == SegPages(seg)
             flags == seg.flags \cup {"U", "W"}
  <1>2. seg \in Segs
    <2>1. todo[cur] \in Seq(Segs) /\ todo[cur] # <<>>
      BY Zenon, <1>1 DEF IInv, StateTypes, map_segment
    <2> QED BY <2>1 DEF seg
  <1>3. S \in SUBSET VPage /\ flags \in Rights
    BY ZenonT(60), <1>2, SegFacts
  <1>4. /\ \A v \in S : ~mem.pte[satp][v].v
        /\ Len(mem.free) >= MapNeeds(S) /\ mtag' = mtag
        /\ mem' = memory_alloc_and_map_range(mem, satp, S, flags)
    BY Zenon DEF map_segment
  <1>5. Sound(mem, RootsInUse)
    BY Zenon DEF IInv
  <1> HIDE DEF S, flags
  <1>6. Grown(mem, mem', RootsInUse, satp, {})
    BY ONLY Zenon, <1>1, <1>3, <1>4, <1>5, MapRangeFacts
  <1>7. Effect(mem, RootsInUse, mem', RootsInUse, satp)
    BY ONLY <1>1, <1>5, <1>6, GrownEffect
  <1>8. RootsInUse' = RootsInUse
    BY ZenonT(60), <1>4, SameRoots
  <1> QED BY Zenon, <1>1, <1>4, <1>7, <1>8 DEF OwnStep, MemoryStep

\* elf_load fills the pages it mapped there.
LEMMA LoadStep ==
    ASSUME IInv, load_segment
    PROVE  OwnStep
  <1>1. cur \in Proc /\ satp = mtag[cur] /\ satp \in RootsInUse
    BY Zenon, SpaceOfCur DEF load_segment, Loading
  <1> DEFINE S == SegPages(seg)
             flags == seg.flags \cup {"U"}
             d == seg.data
             ppns == {mem.pte[satp][v].ppn : v \in S}
             m0 == [mem EXCEPT !.word =
                      [p \in DOMAIN @ |-> IF p \in ppns THEN d ELSE @[p]]]
  <1>2. seg \in Segs
    <2>1. todo[cur] \in Seq(Segs) /\ todo[cur] # <<>>
      BY Zenon, <1>1 DEF IInv, StateTypes, load_segment
    <2> QED BY <2>1 DEF seg
  <1>3. S \in SUBSET VPage /\ flags \in Rights /\ d \in Word
    BY Zenon, <1>2, SegFacts
  <1>4. /\ \A v \in S : mem.pte[satp][v].v
        /\ mtag' = mtag
        /\ mem' = memory_set_range_flags(m0, satp, S, flags)
    BY Zenon DEF load_segment
  <1>5. Sound(mem, RootsInUse)
    BY Zenon DEF IInv
  <1>6. Effect(mem, RootsInUse, mem', RootsInUse, satp)
    <2> HIDE DEF S, flags, d
    <2> QED BY ONLY ZenonT(60), <1>1, <1>3, <1>4, <1>5, LoadEffect
  <1>7. RootsInUse' = RootsInUse
    BY Zenon, <1>4, SameRoots
  <1> QED BY Zenon, <1>1, <1>4, <1>6, <1>7 DEF OwnStep, MemoryStep

\* exec and exit unmap the space of the process that calls them.
LEMMA UnmapStep ==
    ASSUME IInv, Runs("user"), mem' = unmap_all(mem, satp), mtag' = mtag
    PROVE  OwnStep /\ Vacant(mem, mem', RootsInUse, satp)
  <1>1. cur \in Proc /\ satp = mtag[cur] /\ satp \in RootsInUse
    BY Zenon, SpaceOfCur
  <1>2. Sound(mem, RootsInUse)
    BY Zenon DEF IInv
  <1>3. Vacant(mem, mem', RootsInUse, satp)
    BY ONLY Zenon, <1>1, <1>2, mem' = unmap_all(mem, satp), UnmapAllFacts
  <1>4. Effect(mem, RootsInUse, mem', RootsInUse, satp)
    BY ONLY Zenon, <1>1, <1>2, <1>3, VacantEffect
  <1>5. RootsInUse' = RootsInUse
    BY Zenon, SameRoots
  <1> QED BY Zenon, <1>1, <1>3, <1>4, <1>5 DEF OwnStep, MemoryStep

\* fork adds a root, taken from the free list.
LEMMA ForkStep ==
    ASSUME IInv, NEW child \in Proc, fork(child)
    PROVE  /\ Cloned(mem, mem', RootsInUse, mtag[cur], Head(mem.free))
           /\ RootsInUse' = RootsInUse \cup {Head(mem.free)}
           /\ MemoryStep(Head(mem.free))
  <1> DEFINE r == Head(mem.free)
  <1>1. cur \in Proc /\ mtag[cur] \in RootsInUse
    BY Zenon, SpaceOfCur DEF fork
  <1>2. Sound(mem, RootsInUse)
    BY Zenon DEF IInv
  <1>3. /\ Len(mem.free) >= CloneNeeds(mem, mtag[cur])
        /\ mem' = memory_space_clone(mem, mtag[cur])
    BY Zenon DEF fork
  <1>4. Cloned(mem, mem', RootsInUse, mtag[cur], r)
    BY ONLY Zenon, <1>1, <1>2, <1>3, CloneFacts
  <1>5. r \in Page /\ r # NULL
    BY Zenon, <1>4, ConstantFacts DEF Cloned
  <1>6. RootsInUse' = RootsInUse \cup {r}
    <2>1. mtag \in [Proc -> Root \cup {NULL}] /\ mtag' = [mtag EXCEPT ![child] = r]
      BY Zenon DEF fork, IInv, StateTypes
    <2>2. mtag[child] = NULL
      BY Zenon DEF fork, IInv, Owners
    <2>3. /\ mtag' \in [Proc -> Root \cup {NULL, r}]
          /\ \A q \in Proc : mtag'[q] = IF q = child THEN r ELSE mtag[q]
      BY Zenon, <2>1
    <2> HIDE DEF r
    <2> QED BY Zenon, <1>5, <2>2, <2>3 DEF RootsInUse
  <1>7. Effect(mem, RootsInUse, mem', RootsInUse \cup {r}, r)
    BY ONLY Zenon, <1>2, <1>4, CloneEffect
  <1> QED BY Zenon, <1>4, <1>6, <1>7 DEF MemoryStep

\* The process that runs stays where it is.
LEMMA QuietStep ==
    ASSUME IInv, UNCHANGED <<satp, mtag, phase, cur>>, todo' \in [Proc -> Seq(Segs)],
           panicked' \in BOOLEAN, ops' \in 0..OPS, Sound(mem', RootsInUse')
    PROVE  IInv'
  <1>1. StateTypes' /\ Owners'
    BY Zenon DEF IInv, StateTypes, Owners
  <1>2. Active'
    BY Zenon DEF IInv, Active, RunsInOwnSpace, RootsInUse
  <1> QED BY Zenon, <1>1, <1>2 DEF IInv

\* After a step in its own space the memory is sound.
LEMMA OwnSound ==
    ASSUME OwnStep
    PROVE  Sound(mem', RootsInUse')
  BY Zenon DEF OwnStep, MemoryStep, Effect

\* So is it after a step that leaves it alone.
LEMMA SameSound ==
    ASSUME IInv, mem' = mem, mtag' = mtag
    PROVE  Sound(mem', RootsInUse')
  BY Zenon, SameRoots DEF IInv

\* The count of programs and faults stays below its bound.
LEMMA OpsNext ==
    ASSUME IInv, ops < OPS, ops' = ops + 1
    PROVE  ops' \in 0..OPS
  BY MemoryAssumption DEF IInv, StateTypes

\* fork preserves the invariant.
LEMMA ForkIInv ==
    ASSUME IInv, NEW child \in Proc, fork(child)
    PROVE  IInv'
  <1> DEFINE r == Head(mem.free)
  <1>1. /\ r \in Page /\ r \notin RootsInUse /\ RootsInUse' = RootsInUse \cup {r}
        /\ Sound(mem', RootsInUse')
    BY ZenonT(60), ForkStep DEF Cloned, MemoryStep, Effect
  <1> HIDE DEF r
  <1>2. /\ mtag' = [mtag EXCEPT ![child] = r] /\ satp' = r /\ cur' = child
        /\ phase' = [phase EXCEPT ![child] = "user"] /\ UNCHANGED <<todo, panicked, ops>>
        /\ phase[child] = "unborn"
    BY Zenon DEF fork, r
  <1>3. r \in Root /\ r # NULL /\ child # None
    BY Zenon, <1>1, ConstantFacts
  <1>4. StateTypes'
    BY Zenon, <1>2, <1>3 DEF IInv, StateTypes
  <1>5. /\ \A q \in Proc : mtag'[q] = IF q = child THEN r ELSE mtag[q]
        /\ \A q \in Proc : phase'[q] = IF q = child THEN "user" ELSE phase[q]
    BY Zenon, <1>2 DEF IInv, StateTypes
  <1>6. Owners'
    <2>1. MAIN # child
      <3>1. main_pt2 # NULL
        BY Zenon, ConstantFacts
      <3> QED BY Zenon, <1>2, <3>1, MemoryAssumption DEF IInv, Owners
    <2>2. mtag'[MAIN] = main_pt2
      BY Zenon, <1>5, <2>1, MemoryAssumption DEF IInv, Owners
    <2>3. \A q \in Proc : mtag'[q] = NULL <=> phase'[q] = "unborn"
      BY ZenonT(60), <1>3, <1>5 DEF IInv, Owners
    <2>4. \A q \in Proc : q # child => mtag[q] # r
      BY Zenon, <1>1, <1>3 DEF RootsInUse
    <2>5. \A q1, q2 \in Proc : mtag'[q1] = mtag'[q2] /\ mtag'[q1] # NULL => q1 = q2
      BY Zenon, <1>5, <2>4 DEF IInv, Owners
    <2> QED BY Zenon, <2>2, <2>3, <2>5 DEF Owners
  <1>7. Active'
    BY <1>1, <1>2, <1>5 DEF Active, RunsInOwnSpace
  <1> QED BY Zenon, <1>1, <1>4, <1>6, <1>7 DEF IInv

\* The start of process_exec preserves the invariant.
LEMMA ExecUnmapIInv ==
    ASSUME IInv, NEW g \in Program, exec_unmap(g)
    PROVE  IInv'
  <1>1. cur \in Proc /\ phase[cur] = "user" /\ satp = mtag[cur]
    BY Zenon, SpaceOfCur DEF exec_unmap
  <1>2. Sound(mem', RootsInUse')
    BY Zenon, UnmapStep, OwnSound DEF exec_unmap
  <1>3. /\ phase' = [phase EXCEPT ![cur] = "exec"] /\ todo' = [todo EXCEPT ![cur] = g]
        /\ UNCHANGED <<satp, mtag, cur, panicked>> /\ ops < OPS /\ ops' = ops + 1
    BY Zenon DEF exec_unmap
  <1>4. g \in Seq(Segs)
    BY Zenon, ProgramSegs
  <1>5. StateTypes'
    BY ZenonT(60), <1>3, <1>4, OpsNext DEF IInv, StateTypes
  <1>6. \A q \in Proc : phase'[q] = IF q = cur THEN "exec" ELSE phase[q]
    BY Zenon, <1>3 DEF IInv, StateTypes
  <1>7. Owners'
    BY SMTT(30), <1>1, <1>3, <1>6 DEF IInv, Owners
  <1>8. Active'
    BY <1>1, <1>3, <1>6 DEF IInv, Active, RunsInOwnSpace, RootsInUse
  <1> QED BY Zenon, <1>2, <1>5, <1>7, <1>8 DEF IInv

\* memory_space_reclaim, which makes main_pt2 active, preserves the invariant.
LEMMA ReclaimIInv ==
    ASSUME IInv, memory_space_reclaim
    PROVE  IInv'
  <1>1. cur \in Proc /\ phase[cur] = "user" /\ satp = mtag[cur]
    BY Zenon, SpaceOfCur DEF memory_space_reclaim
  <1>2. Sound(mem', RootsInUse')
    BY Zenon, UnmapStep, OwnSound DEF memory_space_reclaim
  <1>3. /\ phase' = [phase EXCEPT ![cur] = "closing"] /\ satp' = main_pt2
        /\ UNCHANGED <<mtag, todo, cur, panicked, ops>>
    BY Zenon DEF memory_space_reclaim
  <1>4. StateTypes'
    BY ZenonT(60), <1>3 DEF IInv, StateTypes
  <1>5. \A q \in Proc : phase'[q] = IF q = cur THEN "closing" ELSE phase[q]
    BY Zenon, <1>3 DEF IInv, StateTypes
  <1>6. Owners'
    BY <1>1, <1>3, <1>5 DEF IInv, Owners
  <1>7. main_pt2 \in RootsInUse'
    BY Zenon, <1>3, ConstantFacts DEF IInv, Owners, RootsInUse
  <1>8. Active'
    BY SMTT(30), <1>1, <1>3, <1>5, <1>7 DEF Active, RunsInOwnSpace
  <1> QED BY Zenon, <1>2, <1>4, <1>6, <1>8 DEF IInv

\* The return to user mode preserves the invariant.
LEMMA ReturnIInv ==
    ASSUME IInv, exec_return
    PROVE  IInv'
  <1>1. cur \in Proc /\ phase[cur] \in {"boot", "exec"} /\ satp = mtag[cur]
    BY Zenon, SpaceOfCur DEF exec_return, Loading
  <1>2. /\ phase' = [phase EXCEPT ![cur] = "user"] /\ todo' = [todo EXCEPT ![cur] = <<>>]
        /\ UNCHANGED <<mem, satp, mtag, cur, panicked, ops>>
    BY Zenon DEF exec_return
  <1>3. Sound(mem', RootsInUse')
    BY Zenon, <1>2, SameSound
  <1>4. StateTypes'
    <2>1. todo' \in [Proc -> Seq(Segs)]
      <3>1. <<>> \in Seq(Segs) /\ todo \in [Proc -> Seq(Segs)]
        BY DEF IInv, StateTypes
      <3> QED BY ONLY Zenon, <1>2, <3>1
    <2>2. phase' \in [Proc -> {"unborn", "boot", "user", "exec", "closing", "dead"}]
      BY ZenonT(60), <1>2 DEF IInv, StateTypes
    <2> QED BY Zenon, <1>2, <2>1, <2>2 DEF IInv, StateTypes
  <1>5. \A q \in Proc : phase'[q] = IF q = cur THEN "user" ELSE phase[q]
    BY Zenon, <1>2 DEF IInv, StateTypes
  <1>6. Owners'
    BY SMTT(30), <1>1, <1>2, <1>5 DEF IInv, Owners
  <1>7. Active'
    BY <1>1, <1>2, <1>5 DEF IInv, Active, RunsInOwnSpace, RootsInUse
  <1> QED BY Zenon, <1>3, <1>4, <1>6, <1>7 DEF IInv

\* The thread that runs next finds its space active.
LEMMA ResumeActive ==
    ASSUME IInv, mtag' = mtag, NEW q \in Proc \cup {None}, Ready(q), Resume(q),
           q # None => phase'[q] = phase[q]
    PROVE  Active' /\ cur' \in Proc \cup {None}
  <1>1. CASE q = None
    BY ZenonT(60), <1>1 DEF IInv, Active, RunsInOwnSpace, RootsInUse, Resume
  <1>2. CASE q # None
    <2>1. q \in Proc /\ phase'[q] \in {"boot", "user", "exec", "closing"} /\ cur' = q
          /\ satp' = mtag[q]
      BY Zenon, <1>2 DEF Ready, Resume
    <2>2. mtag[q] # NULL
      BY Zenon, <1>2, <2>1 DEF IInv, Owners
    <2>3. satp' \in RootsInUse'
      BY Zenon, <2>1, <2>2 DEF RootsInUse
    <2> QED BY ZenonT(60), <2>1, <2>3 DEF Active, RunsInOwnSpace
  <1> QED BY Zenon, <1>1, <1>2

\* suspend_self preserves the invariant.
LEMMA SuspendIInv ==
    ASSUME IInv, NEW q \in Proc \cup {None}, suspend_self(q)
    PROVE  IInv'
  <1>1. /\ Ready(q) /\ Resume(q) /\ UNCHANGED <<mem, mtag, phase, todo, panicked, ops>>
    BY Zenon DEF suspend_self
  <1>2. Active' /\ cur' \in Proc \cup {None}
    BY Zenon, <1>1, ResumeActive
  <1>3. StateTypes' /\ Owners'
    BY Zenon, <1>1, <1>2 DEF IInv, StateTypes, Owners
  <1>4. Sound(mem', RootsInUse')
    BY Zenon, <1>1, SameSound
  <1> QED BY Zenon, <1>2, <1>3, <1>4 DEF IInv

\* thread_exit preserves the invariant.
LEMMA ExitIInv ==
    ASSUME IInv, NEW q \in Proc \cup {None}, thread_exit(q)
    PROVE  IInv'
  <1>1. /\ Ready(q) /\ Resume(q) /\ UNCHANGED <<mem, mtag, todo, panicked, ops>> /\ q # cur
        /\ phase' = [phase EXCEPT ![cur] = "dead"] /\ phase[cur] = "closing" /\ cur \in Proc
    BY Zenon DEF thread_exit, Runs, IInv, StateTypes
  <1>2. \A x \in Proc : phase'[x] = IF x = cur THEN "dead" ELSE phase[x]
    BY Zenon, <1>1 DEF IInv, StateTypes
  <1>3. Active' /\ cur' \in Proc \cup {None}
    BY Zenon, <1>1, <1>2, ResumeActive
  <1>4. StateTypes'
    BY Zenon, <1>1, <1>3 DEF IInv, StateTypes
  <1>5. Owners'
    BY <1>1, <1>2 DEF IInv, Owners
  <1>6. Sound(mem', RootsInUse')
    BY Zenon, <1>1, SameSound
  <1> QED BY Zenon, <1>3, <1>4, <1>5, <1>6 DEF IInv

\* Every step preserves the invariant.
LEMMA NextIInv ==
    ASSUME IInv, [Next]_vars
    PROVE  IInv'
  <1>0. todo \in [Proc -> Seq(Segs)] /\ panicked \in BOOLEAN /\ ops \in 0..OPS
    BY Zenon DEF IInv, StateTypes
  <1>1. ASSUME NEW v \in VPage, NEW d \in Data, UserWrite(v, d) PROVE IInv'
    <2>1. Sound(mem', RootsInUse')
      BY Zenon, <1>1, UserWriteStep, OwnSound
    <2>2. UNCHANGED <<satp, mtag, phase, todo, cur, panicked, ops>>
      BY Zenon, <1>1 DEF UserWrite
    <2> QED BY Zenon, <1>0, <2>1, <2>2, QuietStep
  <1>2. ASSUME NEW v \in VPage, memory_handle_page_fault(v) PROVE IInv'
    <2>1. Sound(mem', RootsInUse')
      BY Zenon, <1>2, FaultStep, OwnSound
    <2>2. UNCHANGED <<satp, mtag, phase, todo, cur, panicked>> /\ ops < OPS /\ ops' = ops + 1
      BY Zenon, <1>2 DEF memory_handle_page_fault
    <2>3. ops' \in 0..OPS
      BY Zenon, <2>2, OpsNext
    <2> QED BY Zenon, <1>0, <2>1, <2>2, <2>3, QuietStep
  <1>3. CASE fault_outside_user
    <2>1. UNCHANGED <<mem, satp, mtag, phase, todo, cur, ops>> /\ panicked' = TRUE
      BY Zenon, <1>3 DEF fault_outside_user
    <2>2. Sound(mem', RootsInUse')
      BY Zenon, <2>1, SameSound
    <2> QED BY Zenon, <1>0, <2>1, <2>2, QuietStep
  <1>4. ASSUME NEW q \in Proc, fork(q) PROVE IInv'
    BY Zenon, <1>4, ForkIInv
  <1>5. ASSUME NEW g \in Program, exec_unmap(g) PROVE IInv'
    BY Zenon, <1>5, ExecUnmapIInv
  <1>6. CASE map_segment
    <2>1. Sound(mem', RootsInUse')
      BY Zenon, <1>6, MapStep, OwnSound
    <2>2. UNCHANGED <<satp, mtag, phase, todo, cur, panicked, ops>>
      BY Zenon, <1>6 DEF map_segment
    <2> QED BY Zenon, <1>0, <2>1, <2>2, QuietStep
  <1>7. CASE load_segment
    <2>1. Sound(mem', RootsInUse')
      BY Zenon, <1>7, LoadStep, OwnSound
    <2>2. /\ UNCHANGED <<satp, mtag, phase, cur, panicked, ops>>
          /\ todo' = [todo EXCEPT ![cur] = Tail(@)] /\ todo[cur] # <<>>
      BY Zenon, <1>7 DEF load_segment
    <2>3. todo' \in [Proc -> Seq(Segs)]
      <3>1. cur \in Proc
        BY Zenon, <1>7, SpaceOfCur DEF load_segment, Loading
      <3>2. Tail(todo[cur]) \in Seq(Segs)
        BY <1>0, <2>2, <3>1
      <3> QED BY ONLY Zenon, <1>0, <2>2, <3>2
    <2> QED BY Zenon, <1>0, <2>1, <2>2, <2>3, QuietStep
  <1>8. CASE exec_return
    BY Zenon, <1>8, ReturnIInv
  <1>9. CASE memory_space_reclaim
    BY Zenon, <1>9, ReclaimIInv
  <1>10. ASSUME NEW q \in Proc \cup {None}, suspend_self(q) PROVE IInv'
    BY Zenon, <1>10, SuspendIInv
  <1>11. ASSUME NEW q \in Proc \cup {None}, thread_exit(q) PROVE IInv'
    BY Zenon, <1>11, ExitIInv
  <1>12. CASE UNCHANGED vars
    <2>1. UNCHANGED <<mem, satp, mtag, phase, todo, cur, panicked, ops>>
      BY Zenon, <1>12 DEF vars
    <2>2. Sound(mem', RootsInUse')
      BY Zenon, <2>1, SameSound
    <2> QED BY Zenon, <1>0, <2>1, <2>2, QuietStep
  <1> QED BY Zenon, <1>1, <1>2, <1>3, <1>4, <1>5, <1>6, <1>7, <1>8, <1>9, <1>10, <1>11, <1>12
          DEF Next

\* The memory is sound, spaces have one owner each and the right one is active,
\* whatever the processes do.
THEOREM Invariance == Spec => []IInv
  <1>1. Init => IInv
    BY Zenon, InitIInv
  <1>2. IInv /\ [Next]_vars => IInv'
    BY Zenon, NextIInv
  <1> QED BY <1>1, <1>2, PTL DEF Spec

-----------------------------------------------------------------------------
(* The places that hold a page *)

UsesOf(m, R, p) ==
  {<<"free", i>> : i \in {j \in 1..Len(m.free) : m.free[j] = p}}
    \cup {<<"root", r>> : r \in R \cap {p}}
    \cup {<<"top", r>> : r \in {x \in R : m.top[x] = p}}
    \cup {<<"low", s>> : s \in {x \in R \X Group : m.low[x[1]][x[2]] = p}}
    \cup {<<"pte", s>> : s \in {x \in R \X VPage :
               m.pte[x[1]][x[2]].v /\ m.pte[x[1]][x[2]].ppn = p}}

\* The uses of a page, as a function of the memory and of the roots.
LEMMA UsesAre ==
    \A p : Uses(p) = UsesOf(mem, RootsInUse, p) /\ Uses(p)' = UsesOf(mem', RootsInUse', p)
  BY ZenonT(60) DEF Uses, UsesOf

Place(k, x, j) == IF k \in {"root", "top"} THEN <<k, x>> ELSE <<k, <<x, j>>>>

\* A page is used where the free list or a space holds it.
LEMMA UseIsPlace ==
    ASSUME NEW m, NEW R, NEW p, NEW u
    PROVE  u \in UsesOf(m, R, p) <=>
             \/ \E i \in 1..Len(m.free) : m.free[i] = p /\ u = <<"free", i>>
             \/ \E k \in Kind, x \in R, j \in VPage :
                  Holds(m, R, k, x, j, p) /\ u = Place(k, x, j)
  <1>0. 0 \in VPage /\ Group \subseteq VPage
    BY Zenon, ConstantFacts, GroupFacts
  <1> DEFINE F == \E i \in 1..Len(m.free) : m.free[i] = p /\ u = <<"free", i>>
             A == p \in R /\ u = <<"root", p>>
             B == \E x \in R : m.top[x] = p /\ u = <<"top", x>>
             C == \E x \in R, j \in Group : m.low[x][j] = p /\ u = <<"low", <<x, j>>>>
             D == \E x \in R, j \in VPage : m.pte[x][j].v /\ m.pte[x][j].ppn = p
                                            /\ u = <<"pte", <<x, j>>>>
             H == \E k \in Kind, x \in R, j \in VPage :
                    Holds(m, R, k, x, j, p) /\ u = Place(k, x, j)
  <1>1. u \in UsesOf(m, R, p) <=> F \/ A \/ B \/ C \/ D
    <2>1. u \in {<<"free", i>> : i \in {j \in 1..Len(m.free) : m.free[j] = p}} <=> F
      BY Zenon
    <2>2. u \in {<<"root", r>> : r \in R \cap {p}} <=> A
      BY Zenon
    <2>3. u \in {<<"top", r>> : r \in {x \in R : m.top[x] = p}} <=> B
      BY Zenon
    <2>4. u \in {<<"low", s>> : s \in {x \in R \X Group : m.low[x[1]][x[2]] = p}} <=> C
      OBVIOUS
    <2>5. u \in {<<"pte", s>> : s \in {x \in R \X VPage :
               m.pte[x[1]][x[2]].v /\ m.pte[x[1]][x[2]].ppn = p}} <=> D
      OBVIOUS
    <2> HIDE DEF F, A, B, C, D
    <2> QED BY ZenonT(60), <2>1, <2>2, <2>3, <2>4, <2>5 DEF UsesOf
  <1>2. A => H
    <2> SUFFICES ASSUME A PROVE H
      BY Zenon
    <2>1. Holds(m, R, "root", p, 0, p) /\ u = Place("root", p, 0) /\ "root" \in Kind
      BY Zenon DEF Holds, Place, Kind
    <2> QED BY Zenon, <1>0, <2>1
  <1>3. B => H
    <2> SUFFICES ASSUME NEW x \in R, m.top[x] = p, u = <<"top", x>> PROVE H
      BY Zenon
    <2>1. Holds(m, R, "top", x, 0, p) /\ u = Place("top", x, 0) /\ "top" \in Kind
      BY Zenon DEF Holds, Place, Kind
    <2> QED BY Zenon, <1>0, <2>1
  <1>4. C => H
    <2> SUFFICES ASSUME NEW x \in R, NEW j \in Group, m.low[x][j] = p, u = <<"low", <<x, j>>>>
                 PROVE  H
      BY Zenon
    <2>1. Holds(m, R, "low", x, j, p) /\ u = Place("low", x, j) /\ "low" \in Kind /\ j \in VPage
      BY Zenon, <1>0 DEF Holds, Place, Kind
    <2> QED BY Zenon, <2>1
  <1>5. D => H
    <2> SUFFICES ASSUME NEW x \in R, NEW j \in VPage, m.pte[x][j].v, m.pte[x][j].ppn = p,
                        u = <<"pte", <<x, j>>>>
                 PROVE  H
      BY Zenon
    <2>1. Holds(m, R, "pte", x, j, p) /\ u = Place("pte", x, j) /\ "pte" \in Kind
      BY Zenon DEF Holds, Place, Kind
    <2> QED BY Zenon, <2>1
  <1>6. H => A \/ B \/ C \/ D
    <2> SUFFICES ASSUME NEW k \in Kind, NEW x \in R, NEW j \in VPage,
                        Holds(m, R, k, x, j, p), u = Place(k, x, j)
                 PROVE  A \/ B \/ C \/ D
      BY ZenonT(60)
    <2> QED BY Zenon DEF Holds, Place, Kind
  <1> HIDE DEF A, B, C, D
  <1>7. u \in UsesOf(m, R, p) <=> F \/ H
    BY ZenonT(60), <1>1, <1>2, <1>3, <1>4, <1>5, <1>6
  <1> QED BY ZenonT(60), <1>7

\* In a sound memory a page has at most one use.
LEMMA SoundOneUse ==
    ASSUME NEW m, NEW R, Sound(m, R), NEW p \in Page
    PROVE  Cardinality(UsesOf(m, R, p)) <= 1
  <1>1. Apart(m, R) /\ FreeOnce(m, R) /\ R \subseteq Root
    BY Zenon DEF Sound
  <1>2. ASSUME NEW u \in UsesOf(m, R, p), NEW w \in UsesOf(m, R, p) PROVE u = w
    <2> DEFINE F(z) == \E i \in 1..Len(m.free) : m.free[i] = p /\ z = <<"free", i>>
               H(z) == \E k \in Kind, x \in R, j \in VPage :
                         Holds(m, R, k, x, j, p) /\ z = Place(k, x, j)
    <2>1. (F(u) \/ H(u)) /\ (F(w) \/ H(w))
      BY UseIsPlace
    <2>2. F(u) /\ F(w) => u = w
      BY Zenon, <1>1 DEF FreeOnce
    <2>3. H(u) /\ H(w) => u = w
      BY ZenonT(60), <1>1 DEF Apart
    <2>4. ASSUME NEW y, NEW z, F(y), H(z) PROVE FALSE
      <3>1. p \in Range(m.free)
        BY <2>4 DEF Range
      <3> QED BY ZenonT(60), <1>1, <2>4, <3>1 DEF FreeOnce, Unheld
    <2> HIDE DEF F, H
    <2> QED BY ZenonT(60), <2>1, <2>2, <2>3, <2>4
  <1>3. CASE UsesOf(m, R, p) = {}
    BY <1>3, FS_EmptySet
  <1>4. CASE UsesOf(m, R, p) # {}
    <2>1. PICK u : u \in UsesOf(m, R, p)
      BY Zenon, <1>4
    <2>2. UsesOf(m, R, p) = {u}
      BY Zenon, <1>2, <2>1
    <2>3. Cardinality({u}) = 1
      BY ZenonT(60), FS_Singleton
    <2> QED BY <2>2, <2>3
  <1> QED BY Zenon, <1>3, <1>4

\* OneUse: no page is mapped twice, or mapped or used as a table while free,
\* whatever memory.c allocates, clones, maps and reclaims.
THEOREM PagesHaveOneUse == Spec => []OneUse
  <1>1. IInv => OneUse
    <2> SUFFICES ASSUME IInv PROVE OneUse
      BY Zenon
    <2>1. TypeOK
      <3>1. RootsInUse \subseteq Root /\ mem \in Memories
        BY Zenon DEF IInv, Sound
      <3> QED BY Zenon, <3>1 DEF IInv, StateTypes, Active, Memories, TypeOK
    <2>2. \A p \in Page : Cardinality(UsesOf(mem, RootsInUse, p)) <= 1
      BY Zenon, SoundOneUse DEF IInv
    <2> QED BY Zenon, <2>1, <2>2, UsesAre DEF OneUse
  <1> QED BY <1>1, Invariance, PTL

\* RunsInOwnSpace: suspend_self, fork and thread_exit make the space of the
\* process that runs the active one.
THEOREM OwnSpaceIsActive == Spec => []RunsInOwnSpace
  <1>1. IInv => RunsInOwnSpace
    BY Zenon DEF IInv, Active
  <1> QED BY <1>1, Invariance, PTL

-----------------------------------------------------------------------------
(* What a step does to other processes *)

\* A step confined to space r leaves what another space holds.
LEMMA ConfinedImage ==
    ASSUME NEW m, NEW R, Sound(m, R), NEW m1, NEW r \in Root, NEW x \in Root, x # r,
           Confined(m, m1, r), NEW v \in VPage
    PROVE  /\ m1.pte[x] = m.pte[x]
           /\ m.pte[x][v].v => m1.word[m.pte[x][v].ppn] = m.word[m.pte[x][v].ppn]
  <1>1. m1.pte[x] = m.pte[x]
    BY Zenon DEF Confined
  <1>2. ASSUME m.pte[x][v].v PROVE m1.word[m.pte[x][v].ppn] = m.word[m.pte[x][v].ppn]
    <2> DEFINE q == m.pte[x][v].ppn
    <2>1. q \in Page /\ q \notin Range(m.free) /\ Holds(m, R, "pte", x, v, q)
      BY Zenon, <1>2, MappedNotFree
    <2> HIDE DEF q
    <2>2. q \notin PagesOf(m, r)
      <3> SUFFICES ASSUME q \in PagesOf(m, r) PROVE FALSE
        BY Zenon
      <3>1. PICK w \in VPage : m.pte[r][w].v /\ m.pte[r][w].ppn = q
        BY PagesOfFacts
      <3>2. Holds(m, R, "pte", r, w, q)
        BY Zenon, <3>1, MappedNotFree
      <3>3. Apart(m, R) /\ "pte" \in Kind
        BY Zenon DEF Sound, Kind
      <3> QED BY Zenon, <2>1, <3>2, <3>3 DEF Apart
    <2>3. m1.word[q] = m.word[q]
      BY ZenonT(60), <2>1, <2>2 DEF Confined
    <2> QED BY Zenon, <2>3 DEF q
  <1> QED BY ZenonT(60), <1>1, <1>2

\* What a step is to the memory: nothing, a step of the running process in its
\* own space, or a fork.
LEMMA StepKinds ==
    ASSUME IInv, [Next]_vars
    PROVE  \/ mem' = mem /\ mtag' = mtag
           \/ OwnStep
           \/ \E q \in Proc : fork(q)
  <1>1. ASSUME NEW v \in VPage, NEW d \in Data, UserWrite(v, d) PROVE OwnStep
    BY Zenon, <1>1, UserWriteStep
  <1>2. ASSUME NEW v \in VPage, memory_handle_page_fault(v) PROVE OwnStep
    BY Zenon, <1>2, FaultStep
  <1>3. ASSUME NEW g \in Program, exec_unmap(g) PROVE OwnStep
    BY Zenon, <1>3, UnmapStep DEF exec_unmap
  <1>4. CASE map_segment
    BY Zenon, <1>4, MapStep
  <1>5. CASE load_segment
    BY Zenon, <1>5, LoadStep
  <1>6. CASE memory_space_reclaim
    BY Zenon, <1>6, UnmapStep DEF memory_space_reclaim
  <1>7. CASE fault_outside_user \/ exec_return
    BY Zenon, <1>7 DEF fault_outside_user, exec_return
  <1>8. ASSUME NEW q \in Proc \cup {None}, suspend_self(q) \/ thread_exit(q)
        PROVE  mem' = mem /\ mtag' = mtag
    BY Zenon, <1>8 DEF suspend_self, thread_exit
  <1>9. CASE UNCHANGED vars
    BY Zenon, <1>9 DEF vars
  <1> QED BY Zenon, <1>1, <1>2, <1>3, <1>4, <1>5, <1>6, <1>7, <1>8, <1>9 DEF Next

\* No step changes the memory of a process that does not run.
LEMMA OthersKeepImage ==
    ASSUME IInv, [Next]_vars, NEW q \in Proc, q # cur, phase[q] # "unborn"
    PROVE  Image(q)' = Image(q)
  <1>1. mtag[q] # NULL /\ mtag[q] \in Root /\ mtag[q] \in RootsInUse
    BY Zenon DEF IInv, StateTypes, Owners, RootsInUse
  <1>2. Sound(mem, RootsInUse) /\ RootsInUse \subseteq Root
    BY Zenon DEF IInv, Sound
  <1>3. CASE mem' = mem /\ mtag' = mtag
    BY Zenon, <1>3 DEF Image
  <1>4. ASSUME NEW r \in Root, r # mtag[q], Confined(mem, mem', r), mtag'[q] = mtag[q]
        PROVE  Image(q)' = Image(q)
    <2> DEFINE x == mtag[q]
    <2>1. \A v \in VPage :
             /\ mem'.pte[x] = mem.pte[x]
             /\ mem.pte[x][v].v => mem'.word[mem.pte[x][v].ppn] = mem.word[mem.pte[x][v].ppn]
      <3> HIDE DEF x
      <3>1. x \in Root /\ x # r
        BY ZenonT(60), <1>1, <1>4 DEF x
      <3> TAKE v \in VPage
      <3>2. Sound(mem, RootsInUse) /\ Confined(mem, mem', r)
        BY Zenon, <1>2, <1>4
      <3> QED BY ONLY SMTT(30), r \in Root, v \in VPage, <3>1, <3>2, ConfinedImage
    <2> QED BY ZenonT(60), <1>1, <1>4, <2>1 DEF Image
  <1>5. CASE OwnStep
    <2>1. satp \in Root /\ satp # mtag[q]
      BY Zenon, <1>1, <1>2, <1>5 DEF OwnStep, IInv, Owners
    <2>2. Confined(mem, mem', satp) /\ mtag'[q] = mtag[q]
      BY Zenon, <1>5 DEF OwnStep, MemoryStep, Effect
    <2> QED BY Zenon, <1>4, <2>1, <2>2
  <1>6. ASSUME NEW child \in Proc, fork(child) PROVE Image(q)' = Image(q)
    <2> DEFINE r == Head(mem.free)
    <2>1. r \in Page /\ r \notin RootsInUse /\ Confined(mem, mem', r)
      BY ZenonT(60), <1>6, ForkStep DEF Cloned, MemoryStep, Effect
    <2>2. r \in Root /\ r # mtag[q]
      BY ZenonT(60), <1>1, <2>1, ConstantFacts
    <2>3. q # child
      BY Zenon, <1>6 DEF fork
    <2>4. mtag'[q] = mtag[q]
      BY Zenon, <1>6, <2>3 DEF fork, IInv, StateTypes
    <2> HIDE DEF r
    <2> QED BY Zenon, <1>4, <2>1, <2>2, <2>4
  <1> QED BY Zenon, <1>3, <1>5, <1>6, StepKinds

\* Isolation: no step of a process changes what another finds in its memory.
THEOREM SpacesAreIsolated == Spec => Isolation
  <1>1. IInv /\ [Next]_vars =>
          [\A q \in Proc : q # cur /\ phase[q] # "unborn" => Image(q)' = Image(q)]_vars
    BY Zenon, OthersKeepImage
  <1> QED BY <1>1, Invariance, PTL DEF Spec, Isolation

\* A process begins by fork only.
LEMMA OnlyForkBegins ==
    ASSUME IInv, [Next]_vars, NEW q \in Proc, phase[q] = "unborn", phase'[q] # "unborn"
    PROVE  fork(q)
  <1>0. phase \in [Proc -> {"unborn", "boot", "user", "exec", "closing", "dead"}]
        /\ (cur # None => phase[cur] # "unborn")
    BY Zenon DEF IInv, StateTypes, Active
  <1>1. phase' # phase
    BY Zenon
  <1>2. ASSUME NEW c \in Proc, fork(c) PROVE fork(q)
    BY Zenon, <1>0, <1>2 DEF fork
  <1>3. ~ \E v \in VPage, d \in Data : UserWrite(v, d)
    BY Zenon, <1>1 DEF UserWrite
  <1>4. ~ \E v \in VPage : memory_handle_page_fault(v)
    BY Zenon, <1>1 DEF memory_handle_page_fault
  <1>5. ~fault_outside_user /\ ~map_segment /\ ~load_segment
    BY Zenon, <1>1 DEF fault_outside_user, map_segment, load_segment
  <1>6. ~ \E g \in Program : exec_unmap(g)
    BY Zenon, <1>0 DEF exec_unmap, Runs
  <1>7. ~exec_return /\ ~memory_space_reclaim
    BY Zenon, <1>0 DEF exec_return, memory_space_reclaim, Loading, Runs
  <1>8. ~ \E x \in Proc \cup {None} : suspend_self(x)
    BY Zenon, <1>1 DEF suspend_self
  <1>9. ~ \E x \in Proc \cup {None} : thread_exit(x)
    BY Zenon, <1>0 DEF thread_exit, Runs
  <1>10. ~UNCHANGED vars
    BY Zenon, <1>1 DEF vars
  <1> QED BY ZenonT(60), <1>2, <1>3, <1>4, <1>5, <1>6, <1>7, <1>8, <1>9, <1>10 DEF Next

\* The child of fork finds its parent's memory.
LEMMA ForkCopiesImage ==
    ASSUME IInv, NEW q \in Proc, fork(q)
    PROVE  Image(q)' = Image(cur)
  <1> DEFINE r == Head(mem.free)
             x == mtag[cur]
  <1>1. cur \in Proc /\ x \in RootsInUse
    BY Zenon, SpaceOfCur DEF fork
  <1>2. x # NULL
    BY Zenon, <1>1 DEF RootsInUse
  <1>3. r \in Page /\ \A v \in VPage : Copied(mem, mem', x, r, v)
    BY ZenonT(60), ForkStep DEF Cloned
  <1>4. r # NULL /\ mtag'[q] = r
    BY Zenon, <1>3, ConstantFacts DEF fork, IInv, StateTypes
  <1> HIDE DEF r
  <1>5. ASSUME NEW v \in VPage
        PROVE  (IF mtag'[q] # NULL /\ mem'.pte[mtag'[q]][v].v
                THEN <<mem'.pte[mtag'[q]][v].flags, mem'.word[mem'.pte[mtag'[q]][v].ppn]>>
                ELSE <<>>)
               = (IF x # NULL /\ mem.pte[x][v].v
                  THEN <<mem.pte[x][v].flags, mem.word[mem.pte[x][v].ppn]>>
                  ELSE <<>>)
    BY Zenon, <1>2, <1>3, <1>4 DEF Copied
  <1> QED BY ZenonT(60), <1>5 DEF Image

\* ForkCopies: a forked child starts with its parent's memory.
THEOREM ForkedChildrenAreCopies == Spec => ForkCopies
  <1>1. IInv /\ [Next]_vars =>
          [\A q \in Proc : phase[q] = "unborn" /\ phase'[q] # "unborn" =>
             Image(q)' = Image(cur)]_vars
    BY Zenon, OnlyForkBegins, ForkCopiesImage
  <1> QED BY <1>1, Invariance, PTL DEF Spec, ForkCopies

-----------------------------------------------------------------------------
(* Pages that are lost *)

Alive == {mtag[q] : q \in {x \in Proc : phase[x] \notin Gone}}

(* Page p is free, a table, or mapped by a space of A. *)
Useful(m, R, A, p) ==
  \/ p \in Range(m.free)
  \/ \E k \in Kind, x \in R, j \in VPage :
       Holds(m, R, k, x, j, p) /\ (k = "pte" => x \in A)

LostOf(m, R, A) == {p \in Page : ~Useful(m, R, A, p)}

\* A page is lost when none of its uses serves anything.
LEMMA IdleUses ==
    ASSUME NEW m, NEW R, NEW A, NEW p
    PROVE  (\A u \in UsesOf(m, R, p) : u[1] = "pte" /\ u[2][1] \notin A)
             <=> ~Useful(m, R, A, p)
  <1>1. ASSUME NEW u \in UsesOf(m, R, p), ~(u[1] = "pte" /\ u[2][1] \notin A)
        PROVE  Useful(m, R, A, p)
    <2>1. CASE \E i \in 1..Len(m.free) : m.free[i] = p /\ u = <<"free", i>>
      BY <2>1 DEF Useful, Range
    <2>2. ASSUME NEW k \in Kind, NEW x \in R, NEW j \in VPage,
                 Holds(m, R, k, x, j, p), u = Place(k, x, j)
          PROVE  Useful(m, R, A, p)
      <3>1. k = "pte" => x \in A
        BY Zenon, <1>1, <2>2 DEF Place
      <3> QED BY Zenon, <2>2, <3>1 DEF Useful
    <2> QED BY SMTT(30), <2>1, <2>2, UseIsPlace
  <1>2. ASSUME Useful(m, R, A, p)
        PROVE  \E u \in UsesOf(m, R, p) : ~(u[1] = "pte" /\ u[2][1] \notin A)
    <2>1. CASE p \in Range(m.free)
      <3>1. PICK i \in DOMAIN m.free : m.free[i] = p
        BY Zenon, <2>1 DEF Range
      <3>2. <<"free", i>> \in UsesOf(m, R, p)
        <4>1. i \in 1..Len(m.free)
          BY ONLY <3>1
        <4> QED BY Zenon, <3>1, <4>1, UseIsPlace
      <3> QED BY Zenon, <3>2
    <2>2. ASSUME NEW k \in Kind, NEW x \in R, NEW j \in VPage,
                 Holds(m, R, k, x, j, p), k = "pte" => x \in A
          PROVE  \E u \in UsesOf(m, R, p) : ~(u[1] = "pte" /\ u[2][1] \notin A)
      <3>1. Place(k, x, j) \in UsesOf(m, R, p)
        BY Zenon, <2>2, UseIsPlace
      <3>2. Place(k, x, j)[1] = k /\ (k = "pte" => Place(k, x, j)[2][1] = x)
        BY Zenon DEF Place, Kind
      <3> QED BY Zenon, <2>2, <3>1, <3>2
    <2> QED BY ZenonT(60), <1>2, <2>1, <2>2 DEF Useful
  <1> QED BY ZenonT(60), <1>1, <1>2

\* The lost pages, as a function of the memory, the roots and the live spaces.
LEMMA LostIs ==
    /\ Lost = LostOf(mem, RootsInUse, Alive)
    /\ Lost' = LostOf(mem', RootsInUse', Alive')
  <1>1. ASSUME NEW x PROVE /\ (\A q \in Proc : mtag[q] = x => phase[q] \in Gone) <=> x \notin Alive
                           /\ (\A q \in Proc : mtag'[q] = x => phase'[q] \in Gone) <=> x \notin Alive'
    BY Zenon DEF Alive
  <1>2. Lost = {p \in Page : \A u \in UsesOf(mem, RootsInUse, p) :
                                u[1] = "pte" /\ u[2][1] \notin Alive}
    BY Zenon, <1>1, UsesAre DEF Lost
  <1>3. Lost' = {p \in Page : \A u \in UsesOf(mem', RootsInUse', p) :
                                u[1] = "pte" /\ u[2][1] \notin Alive'}
    BY Zenon, <1>1, UsesAre DEF Lost
  <1>4. Lost = LostOf(mem, RootsInUse, Alive)
    BY Zenon, <1>2, IdleUses DEF LostOf
  <1>5. Lost' = LostOf(mem', RootsInUse', Alive')
    BY Zenon, <1>3, IdleUses DEF LostOf
  <1> QED BY Zenon, <1>4, <1>5

Replaced(m, m1, r, p) ==
  \E v \in VPage : /\ m.pte[r][v].v /\ m1.pte[r][v].v
                   /\ m.pte[r][v].ppn = p /\ m1.pte[r][v].ppn # p

\* A page that was useful still is, or was replaced by another.
LEMMA ConservedUseful ==
    ASSUME NEW m, NEW R, Sound(m, R), NEW m1, NEW R1, Sound(m1, R1), NEW r \in R1,
           R \subseteq R1, Conserved(m, R, m1, R1, r),
           NEW A, NEW A1, A \cap R \subseteq A1, r \in A1, NEW p \in Page, Useful(m, R, A, p)
    PROVE  Useful(m1, R1, A1, p) \/ (r \in R /\ Replaced(m, m1, r, p))
  <1>1. CASE p \in Range(m.free)
    BY Zenon, <1>1 DEF Conserved, Useful
  <1>2. ASSUME NEW k \in Kind, NEW x \in R, NEW j \in VPage,
               Holds(m, R, k, x, j, p), k = "pte" => x \in A
        PROVE  Useful(m1, R1, A1, p) \/ (r \in R /\ Replaced(m, m1, r, p))
    <2>1. x \in Root
      BY Zenon DEF Sound
    <2>2. CASE Holds(m1, R1, k, x, j, p)
      BY Zenon, <1>2, <2>2 DEF Useful
    <2>3. CASE p \in Range(m1.free)
      BY Zenon, <2>3 DEF Useful
    <2>4. CASE k = "pte" /\ x = r /\ m1.pte[r][j].v /\ m1.pte[r][j].ppn # p
      BY ZenonT(60), <1>2, <2>4 DEF Holds, Replaced
    <2> QED BY Zenon, <1>2, <2>1, <2>2, <2>3, <2>4 DEF Conserved
  <1> QED BY Zenon, <1>1, <1>2 DEF Useful

\* Unmapping a space frees its pages, so that none is lost with its process.
LEMMA VacantUseful ==
    ASSUME NEW m, NEW R, Sound(m, R), NEW m1, NEW r \in R, Vacant(m, m1, R, r),
           NEW A, NEW A1, A \ {r} \subseteq A1, NEW p \in Page, Useful(m, R, A, p)
    PROVE  Useful(m1, R, A1, p)
  <1>1. CASE p \in Range(m.free)
    BY Zenon, <1>1 DEF Vacant, Useful
  <1>2. ASSUME NEW k \in Kind, NEW x \in R, NEW j \in VPage,
               Holds(m, R, k, x, j, p), k = "pte" => x \in A
        PROVE  Useful(m1, R, A1, p)
    <2>1. x \in Root
      BY Zenon DEF Sound
    <2>2. CASE k = "pte" /\ x = r
      <3>1. p \in PagesOf(m, r)
        BY ZenonT(60), <1>2, <2>2, PagesOfFacts DEF Holds
      <3> QED BY Zenon, <3>1 DEF Vacant, PagesOf, Useful
    <2>3. CASE ~(k = "pte" /\ x = r)
      <3>1. Holds(m1, R, k, x, j, p)
        BY ZenonT(60), <1>2, <2>1, <2>3 DEF Vacant, Holds
      <3> QED BY Zenon, <1>2, <2>3, <3>1 DEF Useful
    <2> QED BY Zenon, <2>2, <2>3
  <1> QED BY Zenon, <1>1, <1>2 DEF Useful

\* A page stays useful as long as its space is live.
LEMMA SameUseful ==
    ASSUME NEW m, NEW R, NEW A, NEW A1, A \cap R \subseteq A1, NEW p, Useful(m, R, A, p)
    PROVE  Useful(m, R, A1, p)
  BY Zenon DEF Useful

\* A process that has a program keeps it and its space, other than by exiting.
LEMMA AliveStep ==
    ASSUME IInv, [Next]_vars, ~memory_space_reclaim
    PROVE  /\ Alive \cap RootsInUse \subseteq Alive'
           /\ OwnStep /\ phase[cur] \notin Gone => satp \in Alive'
  <1> DEFINE Keeps(q) == phase[q] \in Gone \cup {"unborn"}
                         \/ (mtag'[q] = mtag[q] /\ phase'[q] \notin Gone)
  <1>0. /\ phase \in [Proc -> {"unborn", "boot", "user", "exec", "closing", "dead"}]
        /\ mtag \in [Proc -> Root \cup {NULL}]
    BY Zenon DEF IInv, StateTypes
  <1>1. \A q \in Proc : Keeps(q)
    <2> SUFFICES ASSUME NEW q \in Proc, phase[q] \notin Gone, phase[q] # "unborn"
                 PROVE  mtag'[q] = mtag[q] /\ phase'[q] \notin Gone
      BY Zenon
    <2>1. ASSUME NEW c \in Proc, fork(c) PROVE mtag'[q] = mtag[q] /\ phase'[q] \notin Gone
      BY Zenon, <1>0, <2>1 DEF fork
    <2>2. CASE UNCHANGED <<mtag, phase>>
      BY Zenon, <2>2
    <2>3. ASSUME NEW g \in Program, exec_unmap(g)
          PROVE  mtag'[q] = mtag[q] /\ phase'[q] \notin Gone
      BY Zenon, <1>0, <2>3 DEF exec_unmap, Gone
    <2>4. CASE exec_return
      BY Zenon, <1>0, <2>4 DEF exec_return, Gone
    <2>5. ASSUME NEW x \in Proc \cup {None}, thread_exit(x)
          PROVE  mtag'[q] = mtag[q] /\ phase'[q] \notin Gone
      BY Zenon, <1>0, <2>5 DEF thread_exit, Runs, Gone
    <2>6. ASSUME NEW v \in VPage, NEW d \in Data, UserWrite(v, d)
          PROVE  UNCHANGED <<mtag, phase>>
      BY Zenon, <2>6 DEF UserWrite
    <2>7. ASSUME NEW v \in VPage, memory_handle_page_fault(v) PROVE UNCHANGED <<mtag, phase>>
      BY Zenon, <2>7 DEF memory_handle_page_fault
    <2>8. fault_outside_user \/ map_segment \/ load_segment => UNCHANGED <<mtag, phase>>
      BY Zenon DEF fault_outside_user, map_segment, load_segment
    <2>9. ASSUME NEW x \in Proc \cup {None}, suspend_self(x) PROVE UNCHANGED <<mtag, phase>>
      BY Zenon, <2>9 DEF suspend_self
    <2>10. UNCHANGED vars => UNCHANGED <<mtag, phase>>
      BY Zenon DEF vars
    <2> QED BY ZenonT(60), <2>1, <2>2, <2>3, <2>4, <2>5, <2>6, <2>7, <2>8, <2>9, <2>10 DEF Next
  <1>2. \A q \in Proc : phase[q] = "unborn" => mtag[q] \notin RootsInUse
    BY Zenon DEF IInv, Owners, RootsInUse
  <1>3. Alive \cap RootsInUse \subseteq Alive'
    <2> SUFFICES ASSUME NEW q \in Proc, phase[q] \notin Gone, mtag[q] \in RootsInUse
                 PROVE  mtag[q] \in Alive'
      BY Zenon DEF Alive
    <2>1. mtag'[q] = mtag[q] /\ phase'[q] \notin Gone
      BY Zenon, <1>1, <1>2
    <2> QED BY Zenon, <2>1 DEF Alive
  <1>4. OwnStep /\ phase[cur] \notin Gone => satp \in Alive'
    <2> SUFFICES ASSUME OwnStep, phase[cur] \notin Gone PROVE satp \in Alive'
      BY Zenon
    <2>1. cur \in Proc /\ satp = mtag[cur] /\ satp \in RootsInUse
      BY Zenon DEF OwnStep
    <2>2. mtag'[cur] = mtag[cur] /\ phase'[cur] \notin Gone
      BY Zenon, <1>1, <1>2, <2>1
    <2> QED BY Zenon, <2>1, <2>2 DEF Alive
  <1> QED BY Zenon, <1>3, <1>4

\* Only a process with a program acts in its space.
LEMMA ActorAlive ==
    ASSUME IInv, [Next]_vars
    PROVE  \/ mem' = mem /\ mtag' = mtag
           \/ phase[cur] \notin Gone
  <1>1. ASSUME NEW v \in VPage, NEW d \in Data, UserWrite(v, d) PROVE phase[cur] \notin Gone
    BY Zenon, <1>1 DEF UserWrite, Runs, Gone
  <1>2. ASSUME NEW v \in VPage, memory_handle_page_fault(v) PROVE phase[cur] \notin Gone
    BY Zenon, <1>2 DEF memory_handle_page_fault, Runs, Gone
  <1>3. ASSUME NEW g \in Program, exec_unmap(g) PROVE phase[cur] \notin Gone
    BY Zenon, <1>3 DEF exec_unmap, Runs, Gone
  <1>4. ASSUME NEW q \in Proc, fork(q) PROVE phase[cur] \notin Gone
    BY Zenon, <1>4 DEF fork, Runs, Gone
  <1>5. map_segment \/ load_segment \/ memory_space_reclaim => phase[cur] \notin Gone
    BY Zenon DEF map_segment, load_segment, memory_space_reclaim, Loading, Runs, Gone
  <1>6. fault_outside_user \/ exec_return => mem' = mem /\ mtag' = mtag
    BY Zenon DEF fault_outside_user, exec_return
  <1>7. ASSUME NEW q \in Proc \cup {None}, suspend_self(q) \/ thread_exit(q)
        PROVE  mem' = mem /\ mtag' = mtag
    BY Zenon, <1>7 DEF suspend_self, thread_exit
  <1>8. UNCHANGED vars => mem' = mem /\ mtag' = mtag
    BY Zenon DEF vars
  <1> QED BY ZenonT(60), <1>1, <1>2, <1>3, <1>4, <1>5, <1>6, <1>7, <1>8 DEF Next

\* A step loses no page but one that it replaced in the active space.
LEMMA UsefulStep ==
    ASSUME IInv, [Next]_vars, NEW p \in Page, Useful(mem, RootsInUse, Alive, p)
    PROVE  Useful(mem', RootsInUse', Alive', p) \/ Replaced(mem, mem', satp, p)
  <1>1. Sound(mem, RootsInUse) /\ Sound(mem', RootsInUse')
    BY Zenon, NextIInv DEF IInv
  <1>2. CASE memory_space_reclaim
    <2>1. OwnStep /\ Vacant(mem, mem', RootsInUse, satp) /\ mtag' = mtag
      BY Zenon, <1>2, UnmapStep DEF memory_space_reclaim
    <2>2. RootsInUse' = RootsInUse /\ satp \in RootsInUse
      BY Zenon, <2>1, SameRoots DEF OwnStep
    <2>3. Alive \ {satp} \subseteq Alive'
      <3> SUFFICES ASSUME NEW q \in Proc, phase[q] \notin Gone, mtag[q] # satp
                   PROVE  mtag[q] \in Alive'
        BY Zenon DEF Alive
      <3>1. q # cur /\ phase' = [phase EXCEPT ![cur] = "closing"]
        BY ZenonT(60), <1>2, <2>1 DEF memory_space_reclaim, OwnStep
      <3>2. phase'[q] = phase[q] /\ mtag'[q] = mtag[q]
        BY Zenon, <2>1, <3>1 DEF IInv, StateTypes
      <3> QED BY Zenon, <3>2 DEF Alive
    <2>4. Useful(mem', RootsInUse, Alive', p)
      BY ONLY Zenon, <1>1, <2>1, <2>2, <2>3, p \in Page, Useful(mem, RootsInUse, Alive, p), VacantUseful
    <2> QED BY Zenon, <2>2, <2>4
  <1>3. CASE mem' = mem /\ mtag' = mtag /\ ~memory_space_reclaim
    <2>1. RootsInUse' = RootsInUse
      BY Zenon, <1>3, SameRoots
    <2>2. Alive \cap RootsInUse \subseteq Alive'
      BY Zenon, <1>3, AliveStep
    <2> QED BY Zenon, <1>3, <2>1, <2>2, SameUseful
  <1>4. CASE OwnStep /\ phase[cur] \notin Gone /\ ~memory_space_reclaim
    <2>1. /\ satp \in RootsInUse /\ RootsInUse' = RootsInUse
          /\ Conserved(mem, RootsInUse, mem', RootsInUse', satp)
      BY ZenonT(60), <1>4, SameRoots DEF OwnStep, MemoryStep, Effect
    <2>2. Alive \cap RootsInUse \subseteq Alive' /\ satp \in Alive'
      BY Zenon, <1>4, AliveStep
    <2>3. satp \in RootsInUse' /\ RootsInUse \subseteq RootsInUse'
      BY Zenon, <2>1
    <2> QED BY ONLY Zenon, <1>1, <2>1, <2>2, <2>3, p \in Page, Useful(mem, RootsInUse, Alive, p),
                    ConservedUseful
  <1>5. ASSUME NEW q \in Proc, fork(q), ~memory_space_reclaim
        PROVE  Useful(mem', RootsInUse', Alive', p)
    <2> DEFINE r == Head(mem.free)
    <2>1. /\ r \in Page /\ r \notin RootsInUse /\ RootsInUse' = RootsInUse \cup {r}
          /\ Conserved(mem, RootsInUse, mem', RootsInUse', r)
      BY ZenonT(60), <1>5, ForkStep DEF Cloned, MemoryStep, Effect
    <2>2. Alive \cap RootsInUse \subseteq Alive'
      BY Zenon, <1>5, AliveStep
    <2>3. r \in Alive'
      <3>1. mtag'[q] = r /\ phase'[q] = "user"
        BY Zenon, <1>5 DEF fork, IInv, StateTypes
      <3>2. phase'[q] \notin Gone
        BY ZenonT(60), <3>1 DEF Gone
      <3> QED BY Zenon, <3>1, <3>2 DEF Alive
    <2>4. r \in RootsInUse' /\ RootsInUse \subseteq RootsInUse'
      BY Zenon, <2>1
    <2> HIDE DEF r
    <2> QED BY ONLY Zenon, <1>1, <2>1, <2>2, <2>3, <2>4, p \in Page,
                    Useful(mem, RootsInUse, Alive, p), ConservedUseful
  <1> QED BY Zenon, <1>2, <1>3, <1>4, <1>5, StepKinds, ActorAlive

\* LostOnlyByFault: exec and exit give back the pages of the program they end,
\* and no other step loses a page, but a fault that replaces it.
THEOREM PagesLostOnlyByFault == Spec => LostOnlyByFault
  <1> DEFINE D == {mem.pte[satp][v].ppn : v \in {w \in VPage :
                    /\ mem.pte[satp][w].v /\ mem'.pte[satp][w].v
                    /\ mem.pte[satp][w].ppn # mem'.pte[satp][w].ppn}}
  <1>1. ASSUME IInv, [Next]_vars PROVE Lost' \subseteq Lost \cup D
    <2> SUFFICES ASSUME NEW p \in Lost', p \notin Lost PROVE p \in D
      BY Zenon
    <2>1. p \in Page /\ ~Useful(mem', RootsInUse', Alive', p)
      BY Zenon, LostIs DEF LostOf
    <2>2. Useful(mem, RootsInUse, Alive, p)
      BY Zenon, <2>1, LostIs DEF LostOf
    <2>3. Replaced(mem, mem', satp, p)
      BY Zenon, <1>1, <2>1, <2>2, UsefulStep
    <2> QED BY Zenon, <2>3 DEF Replaced
  <1>2. IInv /\ [Next]_vars => [Lost' \subseteq Lost \cup D]_vars
    BY Zenon, <1>1
  <1> QED BY <1>2, Invariance, PTL DEF Spec, LostOnlyByFault

-----------------------------------------------------------------------------
(* The check of user addresses *)

\* Division with remainder.
LEMMA DivMod ==
    ASSUME NEW a \in Nat, NEW P \in Nat \ {0}
    PROVE  /\ a \div P \in Nat /\ a % P \in 0..(P - 1)
           /\ a = P * (a \div P) + (a % P)
  BY Z3

\* A quotient is known by its remainder.
LEMMA DivUnique ==
    ASSUME NEW a \in Nat, NEW q \in Nat, NEW P \in Nat \ {0}, NEW d \in 0..(P - 1),
           a = P * q + d
    PROVE  a \div P = q
  BY Z3

\* Every page of the range is looked at, and no other.
LEMMA RangePages ==
    ASSUME NEW P \in Nat \ {0}, NEW start \in Nat, NEW len \in 1..(2 * P),
           (start % P = 0) \/ (start % P) + len <= P
    PROVE  /\ \A k \in 0..len : k * P < len =>
                \E a \in start..(start + len - 1) : a \div P = (start + k * P) \div P
           /\ \A a \in start..(start + len - 1) :
                \E k \in 0..len : k * P < len /\ a \div P = (start + k * P) \div P
  <1> DEFINE s == start \div P
             d == start % P
  <1>1. s \in Nat /\ d \in 0..(P - 1) /\ start = P * s + d
    BY Zenon, DivMod
  <1>2. d = 0 \/ d + len <= P
    BY Zenon
  <1> HIDE DEF s, d
  <1>3. ASSUME NEW k \in 0..len, k * P < len
        PROVE  \E a \in start..(start + len - 1) : a \div P = (start + k * P) \div P
    <2>1. k * P \in Nat
      OBVIOUS
    <2>2. start + k * P \in start..(start + len - 1)
      BY SMTT(30), <1>3, <2>1
    <2> QED BY ZenonT(60), <2>2
  <1>4. ASSUME NEW a \in start..(start + len - 1)
        PROVE  \E k \in 0..len : k * P < len /\ a \div P = (start + k * P) \div P
    <2> DEFINE e == a - start
    <2>1. e \in Nat /\ e < len /\ a = start + e /\ a \in Nat /\ e < 2 * P
      OBVIOUS
    <2> HIDE DEF e
    <2>2. start \div P = s
      BY ONLY Zenon, <1>1, DivUnique, P \in Nat \ {0}, start \in Nat
    <2>3. CASE d + e < P
      <3>1. a = P * s + (d + e) /\ d + e \in 0..(P - 1)
        BY <1>1, <2>1, <2>3
      <3>2. a \div P = s
        BY Zenon, <1>1, <2>1, <3>1, DivUnique
      <3>3. 0 * P = 0 /\ start + 0 * P = start /\ 0 \in 0..len /\ 0 * P < len
        OBVIOUS
      <3> QED BY Zenon, <2>2, <3>2, <3>3
    <2>4. CASE d + e >= P
      <3>1. d = 0 /\ e >= P
        BY SMTT(30), <1>1, <1>2, <2>1, <2>4
      <3>2. a = P * (s + 1) + (e - P) /\ e - P \in 0..(P - 1)
        BY SMTT(30), <1>1, <2>1, <3>1
      <3>3. a \div P = s + 1
        BY SMTT(30), <1>1, <2>1, <3>2, DivUnique
      <3>4. start + 1 * P = P * (s + 1) + 0 /\ start + 1 * P \in Nat /\ 0 \in 0..(P - 1)
        BY <1>1, <3>1
      <3>5. (start + 1 * P) \div P = s + 1
        BY SMTT(30), <1>1, <3>4, DivUnique
      <3>6. 1 \in 0..len /\ 1 * P < len
        BY <2>1, <3>1
      <3> QED BY Zenon, <3>3, <3>5, <3>6
    <2> QED BY SMTT(30), <1>1, <2>1, <2>3, <2>4
  <1> QED BY Zenon, <1>3, <1>4

\* ValidatesFromBoundary: memory_validate_vptr_len looks at every page of a range
\* that starts on a page or lies in one, whatever is mapped.
THEOREM RangesAreValidated == Spec => []ValidatesFromBoundary
  <1>1. ValidatesFromBoundary
    <2> SUFFICES ASSUME NEW start \in 0..(VPAGES * PAGE_SIZE - 1),
                        NEW len \in 1..(2 * PAGE_SIZE),
                        (start % PAGE_SIZE = 0) \/ (start % PAGE_SIZE) + len <= PAGE_SIZE
                 PROVE  memory_validate_vptr_len(start, len, {"U", "R"}) <=>
                          \A a \in start..(start + len - 1) :
                            HasFlags(a \div PAGE_SIZE, {"U", "R"})
      BY Zenon DEF ValidatesFromBoundary
    <2> DEFINE H(n) == HasFlags(n, {"U", "R"})
               P == PAGE_SIZE
    <2>1. P \in Nat \ {0} /\ start \in Nat /\ len # 0
      BY MemoryAssumption
    <2>2. /\ \A k \in 0..len : k * P < len =>
               \E a \in start..(start + len - 1) : a \div P = (start + k * P) \div P
          /\ \A a \in start..(start + len - 1) :
               \E k \in 0..len : k * P < len /\ a \div P = (start + k * P) \div P
      BY Zenon, <2>1, RangePages
    <2>3. memory_validate_vptr_len(start, len, {"U", "R"}) <=>
            \A k \in 0..len : k * P < len => H((start + k * P) \div P)
      BY Zenon, <2>1 DEF memory_validate_vptr_len
    <2> HIDE DEF H, P
    <2>4. (\A k \in 0..len : k * P < len => H((start + k * P) \div P)) <=>
            \A a \in start..(start + len - 1) : H(a \div P)
      BY ONLY Zenon, <2>2
    <2> QED BY Zenon, <2>3, <2>4 DEF H, P
  <1> QED BY <1>1, PTL
=============================================================================
