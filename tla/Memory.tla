------------------------------- MODULE Memory -------------------------------
(***************************************************************************)
(* Address spaces and the processes that live in them: the page tables of  *)
(* memory.c, the mappings made by elf.c and by page faults, and how        *)
(* process.c, thread.c and syscall.c clone, switch and reclaim a space.    *)
(*                                                                         *)
(* A space is named by its root table: the static main_pt2 or a page.  A   *)
(* walk of the user region, one gigapage, passes the root's level-1 table  *)
(* and one level-0 table for each group of PER_TABLE virtual pages.  What  *)
(* a page holds is one value.  A process is preempted in user mode and     *)
(* blocks on I/O while it executes a program or closes files; no other     *)
(* kernel code here gives up the hart.                                     *)
(*                                                                         *)
(* Free pages are a stack: PageAlloc shows this of the linked list as long *)
(* as pages remain, and here steps that would exhaust them do not happen.  *)
(*                                                                         *)
(* An operator X_Y, defined before X, is X with the fault Y.               *)
(***************************************************************************)
EXTENDS Integers, FiniteSets, Sequences, Functions

CONSTANTS
  Proc, MAIN,           \* slots of proctab and the main process
  PAGE_CNT,             \* physical pages
  VPAGES, PER_TABLE,    \* virtual user pages, entries of a level-0 table
  PAGE_SIZE,            \* addresses in a page
  Program,              \* executables: sequences of segments
  Data,                 \* what a user program may write
  OPS                   \* bound: programs executed and faults taken

Access == {"R", "W", "X"}

(* A segment of an executable: pages, rights, of which it has one, and     *)
(* what the file holds for it.                                             *)
Segment ==
  [first : Nat, last : Nat, flags : (SUBSET Access) \ {{}}, data : Nat]

ASSUME MemoryAssumption ==
  /\ MAIN \in Proc /\ "none" \notin Proc
  /\ PAGE_CNT \in Nat /\ VPAGES \in Nat \ {0}
  /\ PER_TABLE \in Nat \ {0} /\ PAGE_SIZE \in Nat \ {0}
  /\ Program \subseteq Seq(Segment)
  /\ \A g \in Program : \A s \in Range(g) : s.last < VPAGES
  /\ OPS \in Nat

NULL == 0
Page == 1..PAGE_CNT
main_pt2 == PAGE_CNT + 1
Root == Page \cup {main_pt2}
VPage == 0..(VPAGES - 1)
Group == {v \div PER_TABLE : v \in VPage}
Flag == Access \cup {"U"}
None == "none"          \* no process runs: the idle thread

Entry == [v : BOOLEAN, flags : SUBSET Flag, ppn : Page \cup {NULL}]
null_pte == [v |-> FALSE, flags |-> {}, ppn |-> NULL]

VARIABLES
  mem,                  \* free pages, tables and page contents
  satp,                 \* root of the active space
  mtag,                 \* root of each process's space
  phase,                \* where each process is
  todo,                 \* segments each process has yet to load
  cur,                  \* the process whose thread runs
  panicked,             \* the kernel has stopped
  ops                   \* programs executed and faults taken so far

vars == <<mem, satp, mtag, phase, todo, cur, panicked, ops>>

Word == Data \cup {0} \cup UNION {{s.data : s \in Range(g)} : g \in Program}

TypeOK ==
  /\ mem.free \in Seq(Page)
  /\ mem.top \in [Root -> Page \cup {NULL}]
  /\ mem.low \in [Root -> [Group -> Page \cup {NULL}]]
  /\ mem.pte \in [Root -> [VPage -> Entry]]
  /\ mem.word \in [Page -> Word]
  /\ satp \in Root
  /\ mtag \in [Proc -> Root \cup {NULL}]
  /\ phase \in [Proc -> {"unborn", "boot", "user", "exec", "closing", "dead"}]
  /\ cur \in Proc \cup {None}
  /\ panicked \in BOOLEAN
  /\ ops \in 0..OPS

-----------------------------------------------------------------------------
(* The operations of memory.c, from a memory to a memory. *)

alloc_page_Keep(m) ==
  [m EXCEPT !.free = Append(Tail(@), Head(@))]

alloc_page(m) ==
  [m EXCEPT !.free = Tail(@), !.word[Head(m.free)] = 0]

free_page(m, p) ==
  [m EXCEPT !.free = <<p>> \o @, !.word[p] = 0]

(* walk_pt with create set: missing tables come from the free pages. *)
walk_pt(m, r, v) ==
  LET g  == v \div PER_TABLE
      m1 == IF m.top[r] # NULL THEN m
            ELSE [alloc_page(m) EXCEPT !.top[r] = Head(m.free)]
  IN  IF m1.low[r][g] # NULL THEN m1
      ELSE [alloc_page(m1) EXCEPT !.low[r][g] = Head(m1.free)]

leaf_pte(p, flags) == [v |-> TRUE, flags |-> flags, ppn |-> p]

memory_alloc_and_map_page(m, r, v, flags) ==
  [walk_pt(alloc_page(m), r, v)
     EXCEPT !.pte[r][v] = leaf_pte(Head(m.free), flags)]

(* A loop over virtual pages visits them in address order: its round i + 1 *)
(* is for page i, and the loop's value is the memory after each round.     *)
map_loop(m, r, S, flags) ==
  LET at[i \in 0..VPAGES] ==
        IF i = 0 THEN m
        ELSE IF i - 1 \in S
             THEN memory_alloc_and_map_page(at[i - 1], r, i - 1, flags)
             ELSE at[i - 1]
  IN  at

memory_alloc_and_map_range(m, r, S, flags) == map_loop(m, r, S, flags)[VPAGES]

memory_set_page_flags(pte, flags) ==
  IF pte.v THEN [pte EXCEPT !.flags = flags] ELSE pte

memory_set_range_flags(m, r, S, flags) ==
  [m EXCEPT !.pte[r] =
     [v \in VPage |-> IF v \in S THEN memory_set_page_flags(@[v], flags) ELSE @[v]]]

unmap_page_NoFree(m, r, v) ==
  IF m.pte[r][v].v THEN [m EXCEPT !.pte[r][v] = null_pte] ELSE m

unmap_page(m, r, v) ==
  IF m.pte[r][v].v /\ m.pte[r][v].flags \cap Access # {}
  THEN [free_page(m, m.pte[r][v].ppn) EXCEPT !.pte[r][v] = null_pte]
  ELSE m

(* memory_unmap_and_free_user and the loop of memory_space_reclaim, which  *)
(* skip entries without PTE_U and with PTE_G: the user region has none.    *)
unmap_loop(m, r) ==
  LET at[i \in 0..VPAGES] ==
        IF i = 0 THEN m ELSE unmap_page(at[i - 1], r, i - 1)
  IN  at

unmap_all(m, r) == unmap_loop(m, r)[VPAGES]

(* One round of the loop of memory_space_clone. *)
clone_page_NoCopy(m, parent, child, v) ==
  LET m1 == walk_pt(m, child, v)
      p  == Head(m1.free)
  IN  [alloc_page(m1)
         EXCEPT !.pte[child][v] = [m.pte[parent][v] EXCEPT !.ppn = p]]

clone_page(m, parent, child, v) ==
  LET m1 == walk_pt(m, child, v)
      p  == Head(m1.free)
  IN  [alloc_page(m1)
         EXCEPT !.pte[child][v] = [m.pte[parent][v] EXCEPT !.ppn = p],
                !.word[p] = m.word[m.pte[parent][v].ppn]]

Mapped(m, r) == {v \in VPage : m.pte[r][v].v}

clone_loop(m, parent, child) ==
  LET at[i \in 0..VPAGES] ==
        IF i = 0 THEN m
        ELSE IF m.pte[parent][i - 1].v
             THEN clone_page(at[i - 1], parent, child, i - 1)
             ELSE at[i - 1]
  IN  at

memory_space_clone(m, parent) ==
  clone_loop(alloc_page(m), parent, Head(m.free))[VPAGES]

(* Pages that a clone, or mapping S in r, takes from the free list. *)
CloneNeeds(m, r) ==
  LET V == Mapped(m, r)
  IN  1 + Cardinality(V) + Cardinality({v \div PER_TABLE : v \in V})
        + IF V = {} THEN 0 ELSE 1

MapNeeds(S) == 2 * Cardinality(S) + 1

-----------------------------------------------------------------------------
Init ==
  /\ mem = [free |-> [i \in 1..PAGE_CNT |-> PAGE_CNT + 1 - i],
            top  |-> [r \in Root |-> NULL],
            low  |-> [r \in Root |-> [g \in Group |-> NULL]],
            pte  |-> [r \in Root |-> [v \in VPage |-> null_pte]],
            word |-> [p \in Page |-> 0]]
  /\ satp = main_pt2
  /\ mtag = [q \in Proc |-> IF q = MAIN THEN main_pt2 ELSE NULL]
  /\ phase = [q \in Proc |-> IF q = MAIN THEN "boot" ELSE "unborn"]
  /\ todo \in [Proc -> {<<>>} \cup Program]
  /\ \A q \in Proc : IF q = MAIN THEN todo[q] \in Program ELSE todo[q] = <<>>
  /\ cur = MAIN
  /\ panicked = FALSE
  /\ ops = 0

Runs(ph) == ~panicked /\ cur # None /\ phase[cur] = ph

(* A user program writes a page it may write, or faults on an access that  *)
(* its tables do not allow.                                                *)
UserWrite(v, d) ==
  /\ Runs("user")
  /\ mem.pte[satp][v].v
  /\ {"U", "W"} \subseteq mem.pte[satp][v].flags
  /\ mem' = [mem EXCEPT !.word[mem.pte[satp][v].ppn] = d]
  /\ UNCHANGED <<satp, mtag, phase, todo, cur, panicked, ops>>

Denied(v, access) ==
  ~(mem.pte[satp][v].v /\ {"U", access} \subseteq mem.pte[satp][v].flags)

memory_handle_page_fault(v) ==
  /\ Runs("user")
  /\ \E access \in Access : Denied(v, access)
  /\ Len(mem.free) >= MapNeeds({v})
  /\ mem' = memory_alloc_and_map_page(walk_pt(mem, satp, v), satp, v,
                                      {"R", "W", "U"})
  /\ ops < OPS /\ ops' = ops + 1
  /\ UNCHANGED <<satp, mtag, phase, todo, cur, panicked>>

(* A fault outside the user region stops the kernel. *)
fault_outside_user ==
  /\ Runs("user")
  /\ panicked' = TRUE
  /\ UNCHANGED <<mem, satp, mtag, phase, todo, cur, ops>>

(* sysfork and thread_fork_to_user: the child runs at once. *)
fork_NoSwitch(child) ==
  /\ Runs("user")
  /\ phase[child] = "unborn"
  /\ Len(mem.free) >= CloneNeeds(mem, mtag[cur])
  /\ mem' = memory_space_clone(mem, mtag[cur])
  /\ mtag' = [mtag EXCEPT ![child] = Head(mem.free)]
  /\ phase' = [phase EXCEPT ![child] = "user"]
  /\ cur' = child
  /\ UNCHANGED <<satp, todo, panicked, ops>>

fork(child) ==
  /\ Runs("user")
  /\ phase[child] = "unborn"
  /\ Len(mem.free) >= CloneNeeds(mem, mtag[cur])
  /\ mem' = memory_space_clone(mem, mtag[cur])
  /\ mtag' = [mtag EXCEPT ![child] = Head(mem.free)]
  /\ satp' = Head(mem.free)
  /\ phase' = [phase EXCEPT ![child] = "user"]
  /\ cur' = child
  /\ UNCHANGED <<todo, panicked, ops>>

(* process_exec: drop the old program, then load the segments one by one.  *)
(* Reading a segment blocks, and may fail: sysexec then returns to the     *)
(* caller, whose program is gone.                                          *)
exec_unmap(prog) ==
  /\ Runs("user")
  /\ mem' = unmap_all(mem, satp)
  /\ phase' = [phase EXCEPT ![cur] = "exec"]
  /\ todo' = [todo EXCEPT ![cur] = prog]
  /\ ops < OPS /\ ops' = ops + 1
  /\ UNCHANGED <<satp, mtag, cur, panicked>>

Loading == Runs("boot") \/ Runs("exec")
seg == Head(todo[cur])
SegPages(s) == s.first..s.last

(* The segments of a program share no page: elf.c does not test it, user.ld *)
(* starts each of them on a page of its own.  So the pages of a segment are *)
(* not mapped until the segment is, and what is mapped is ready to be read. *)
map_segment ==
  /\ Loading /\ todo[cur] # <<>>
  /\ ~ \E v \in SegPages(seg) : mem.pte[satp][v].v
  /\ Len(mem.free) >= MapNeeds(SegPages(seg))
  /\ mem' = memory_alloc_and_map_range(mem, satp, SegPages(seg),
                                       seg.flags \cup {"U", "W"})
  /\ UNCHANGED <<satp, mtag, phase, todo, cur, panicked, ops>>

load_segment ==
  /\ Loading /\ todo[cur] # <<>>
  /\ \A v \in SegPages(seg) : mem.pte[satp][v].v
  /\ LET ppns   == {mem.pte[satp][v].ppn : v \in SegPages(seg)}
         loaded == [mem EXCEPT !.word =
                      [p \in DOMAIN @ |-> IF p \in ppns THEN seg.data ELSE @[p]]]
     IN  mem' = memory_set_range_flags(loaded, satp, SegPages(seg),
                                       seg.flags \cup {"U"})
  /\ todo' = [todo EXCEPT ![cur] = Tail(@)]
  /\ UNCHANGED <<satp, mtag, phase, cur, panicked, ops>>

(* The load is complete, or gave up: back to user mode either way.  The    *)
(* first program must load, or main.c stops the kernel.                    *)
exec_return ==
  /\ Loading
  /\ Runs("boot") => todo[cur] = <<>>
  /\ phase' = [phase EXCEPT ![cur] = "user"]
  /\ todo' = [todo EXCEPT ![cur] = <<>>]
  /\ UNCHANGED <<mem, satp, mtag, cur, panicked, ops>>

(* process_exit: reclaim the active space, close files, end the thread.    *)
memory_space_reclaim_Main ==
  /\ Runs("user")
  /\ mem' = unmap_all(mem, main_pt2)
  /\ satp' = main_pt2
  /\ phase' = [phase EXCEPT ![cur] = "closing"]
  /\ UNCHANGED <<mtag, todo, cur, panicked, ops>>

memory_space_reclaim ==
  /\ Runs("user")
  /\ mem' = unmap_all(mem, satp)
  /\ satp' = main_pt2
  /\ phase' = [phase EXCEPT ![cur] = "closing"]
  /\ UNCHANGED <<mtag, todo, cur, panicked, ops>>

(* suspend_self: the next thread's space becomes active if it has one.     *)
Resume(q) ==
  /\ cur' = q
  /\ satp' = IF q = None THEN satp ELSE mtag[q]

Ready(q) == q # None => phase[q] \in {"boot", "user", "exec", "closing"}

suspend_self(q) ==
  /\ ~panicked
  /\ q # cur /\ Ready(q)
  /\ Resume(q)
  /\ UNCHANGED <<mem, mtag, phase, todo, panicked, ops>>

(* The end of the main thread halts the system and is not modelled. *)
thread_exit(q) ==
  /\ Runs("closing") /\ cur # MAIN
  /\ phase' = [phase EXCEPT ![cur] = "dead"]
  /\ q # cur /\ Ready(q)
  /\ Resume(q)
  /\ UNCHANGED <<mem, mtag, todo, panicked, ops>>

Next ==
  \/ \E v \in VPage, d \in Data : UserWrite(v, d)
  \/ \E v \in VPage : memory_handle_page_fault(v)
  \/ fault_outside_user
  \/ \E q \in Proc : fork(q)
  \/ \E g \in Program : exec_unmap(g)
  \/ map_segment
  \/ load_segment
  \/ exec_return
  \/ memory_space_reclaim
  \/ \E q \in Proc \cup {None} : suspend_self(q)
  \/ \E q \in Proc \cup {None} : thread_exit(q)

Spec == Init /\ [][Next]_vars

-----------------------------------------------------------------------------
(* What a process finds in its memory. *)
Image(q) ==
  [v \in VPage |->
     IF mtag[q] # NULL /\ mem.pte[mtag[q]][v].v
     THEN <<mem.pte[mtag[q]][v].flags, mem.word[mem.pte[mtag[q]][v].ppn]>>
     ELSE <<>>]

(* Every place that holds a page: the free list, a root, a table, an entry *)
(* of the tables.  A root stays in use when its process is gone.           *)
RootsInUse == {mtag[q] : q \in Proc} \ {NULL}

Uses(p) ==
  {<<"free", i>> : i \in {j \in 1..Len(mem.free) : mem.free[j] = p}}
    \cup {<<"root", r>> : r \in RootsInUse \cap {p}}
    \cup {<<"top", r>> : r \in {x \in RootsInUse : mem.top[x] = p}}
    \cup {<<"low", s>> : s \in {x \in RootsInUse \X Group : mem.low[x[1]][x[2]] = p}}
    \cup {<<"pte", s>> : s \in {x \in RootsInUse \X VPage :
               mem.pte[x[1]][x[2]].v /\ mem.pte[x[1]][x[2]].ppn = p}}

(* No page serves two purposes: it is never mapped twice, in one space or  *)
(* two, and never mapped or used as a table while free, whatever is forked,*)
(* executed, faulted in and reclaimed.                                     *)
OneUse == TypeOK /\ \A p \in Page : Cardinality(Uses(p)) <= 1

(* While a process runs its program or loads one, its own space is active, *)
(* across forks, exits and every switch of suspend_self: user accesses and *)
(* elf_load's writes go to its own memory.                                 *)
RunsInOwnSpace ==
  cur # None /\ phase[cur] \in {"boot", "user", "exec"} => satp = mtag[cur]

(* No step of a process changes what another finds in its memory. *)
Isolation ==
  [][\A q \in Proc :
        q # cur /\ phase[q] # "unborn" => Image(q)' = Image(q)]_vars

(* A forked child starts with its parent's memory, contents and rights. *)
ForkCopies ==
  [][\A q \in Proc :
        phase[q] = "unborn" /\ phase'[q] # "unborn" =>
          Image(q)' = Image(cur)]_vars

(* Pages that serve nothing: not free, no table, and not mapped by a       *)
(* process that still has a program.                                       *)
Gone == {"closing", "dead"}
Lost ==
  {p \in Page :
     \A u \in Uses(p) : /\ u[1] = "pte"
                        /\ \A q \in Proc : mtag[q] = u[2][1] => phase[q] \in Gone}

(* Exec and exit give back every page of the program they end, as          *)
(* memory.h:90 promises; a page is lost only when a fault replaces a page  *)
(* that is mapped without the right the access needs.                      *)
LostOnlyByFault ==
  [][Lost' \subseteq Lost \cup
       {mem.pte[satp][v].ppn : v \in {w \in VPage :
           /\ mem.pte[satp][w].v /\ mem'.pte[satp][w].v
           /\ mem.pte[satp][w].ppn # mem'.pte[satp][w].ppn}}]_vars

-----------------------------------------------------------------------------
(* memory_validate_vptr_len steps a page at a time from the address it is  *)
(* given: the rounded addresses it computes are discarded.                 *)
HasFlags(v, flags) ==
  v \in VPage /\ mem.pte[satp][v].v /\ flags \subseteq mem.pte[satp][v].flags

memory_validate_vptr_len_First(start, len, flags) ==
  len # 0 /\ HasFlags(start \div PAGE_SIZE, flags)

memory_validate_vptr_len(start, len, flags) ==
  /\ len # 0
  /\ \A k \in 0..len :
       k * PAGE_SIZE < len => HasFlags((start + k * PAGE_SIZE) \div PAGE_SIZE, flags)

(* memory.h:163: a range is accepted "if and only if every virtual page    *)
(* containing the specified virtual address range is mapped with the at    *)
(* least the specified flags".  It is, when the range starts on a page or  *)
(* lies in one; a range that starts inside a page and ends in the first    *)
(* bytes of a later one is accepted without a look at its last page.       *)
ValidatesFromBoundary ==
  Runs("user") =>
    \A start \in 0..(VPAGES * PAGE_SIZE - 1), len \in 1..(2 * PAGE_SIZE) :
      (start % PAGE_SIZE = 0) \/ (start % PAGE_SIZE) + len <= PAGE_SIZE =>
        (memory_validate_vptr_len(start, len, {"U", "R"}) <=>
           \A a \in start..(start + len - 1) : HasFlags(a \div PAGE_SIZE, {"U", "R"}))
=============================================================================
