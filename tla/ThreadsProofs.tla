--------------------------- MODULE ThreadsProofs ---------------------------
(*****************************************************************************)
(* The inductive invariant IInv of the thread manager holds initially and    *)
(* every step keeps it, so that the safety properties of Threads follow, for *)
(* every NTHR and every set of conditions.  First facts about the constants, *)
(* the thread lists, broadcasts and the family tree; then the steps, from    *)
(* waiting and switching over waking and exiting to joining and recycling;   *)
(* then the theorems, and last the two about steps, of the order in which    *)
(* threads run and of the slots that are freed.                              *)
(*****************************************************************************)
EXTENDS Threads, SequenceTheorems, TLAPS

-----------------------------------------------------------------------------
(* Constants and sequences *)

\* main and idle are two different slots, and neither a thread nor a condition
\* is NULL, whatever the size of thrtab.
LEMMA ConstantFacts ==
    /\ MAIN_TID \in Tid /\ IDLE_TID \in Tid /\ MAIN_TID # IDLE_TID
    /\ NULL \notin Tid /\ NULL \notin Condition
    /\ \A c \in Conds : c \notin Tid
    /\ \A t \in Tid : t \in Condition
  BY ThreadsAssumption DEF Tid, MAIN_TID, IDLE_TID, NULL, Condition

\* tlinsert adds its thread, once, at the end of the list.
LEMMA InsertFacts ==
    ASSUME NEW s \in Seq(Tid), NEW x \in Tid
    PROVE  /\ tlinsert(s, x) \in Seq(Tid)
           /\ tlinsert(s, x) # <<>>
           /\ Range(tlinsert(s, x)) = Range(s) \cup {x}
           /\ IsInjective(s) /\ x \notin Range(s) => IsInjective(tlinsert(s, x))
           /\ s # <<>> => Head(tlinsert(s, x)) = Head(s)
           /\ s = <<>> => Head(tlinsert(s, x)) = x
  <1> DEFINE a == tlinsert(s, x)
  <1>1. /\ a \in Seq(Tid) /\ DOMAIN a = 1 .. Len(s) + 1 /\ DOMAIN s = 1 .. Len(s) /\ Len(s) \in Nat
        /\ a[Len(s) + 1] = x /\ \A i \in 1 .. Len(s) : a[i] = s[i]
    BY DEF tlinsert
  <1>2. a # <<>>
    BY <1>1
  <1>3. Range(a) = Range(s) \cup {x}
    BY <1>1 DEF Range
  <1>4. IsInjective(s) /\ x \notin Range(s) => IsInjective(a)
    BY <1>1 DEF Range, IsInjective
  <1>5. s # <<>> => Head(a) = Head(s)
    BY <1>1 DEF tlinsert
  <1>6. s = <<>> => Head(a) = x
    BY <1>1 DEF tlinsert
  <1>7. QED
    BY Zenon, <1>1, <1>2, <1>3, <1>4, <1>5, <1>6

\* tlremove takes the head off a list that holds every thread once.
LEMMA RemoveFacts ==
    ASSUME NEW S, NEW s \in Seq(S), s # <<>>
    PROVE  /\ Tail(s) \in Seq(S) /\ Head(s) \in S /\ Head(s) \in Range(s)
           /\ IsInjective(s) => /\ IsInjective(Tail(s))
                                /\ Range(Tail(s)) = Range(s) \ {Head(s)}
  <1>1. /\ Len(s) \in Nat \ {0} /\ DOMAIN s = 1 .. Len(s) /\ Head(s) = s[1]
        /\ Tail(s) \in Seq(S) /\ DOMAIN Tail(s) = 1 .. Len(s) - 1
        /\ \A i \in 1 .. Len(s) - 1 : Tail(s)[i] = s[i + 1]
    OBVIOUS
  <1>2. Head(s) \in S /\ Head(s) \in Range(s)
    BY <1>1 DEF Range
  <1>3. ASSUME IsInjective(s)
        PROVE  IsInjective(Tail(s)) /\ Range(Tail(s)) = Range(s) \ {Head(s)}
    <2>1. IsInjective(Tail(s))
      BY <1>1, <1>3 DEF IsInjective
    <2>2. Range(Tail(s)) \subseteq Range(s) \ {Head(s)}
      BY <1>1, <1>3 DEF IsInjective, Range
    <2>3. ASSUME NEW y \in Range(s) \ {Head(s)} PROVE y \in Range(Tail(s))
      <3>1. PICK i \in 1 .. Len(s) : s[i] = y /\ i # 1
        BY Zenon, <1>1 DEF Range
      <3>2. i - 1 \in 1 .. Len(s) - 1 /\ Tail(s)[i - 1] = y
        BY <1>1, <3>1
      <3>3. QED
        BY Zenon, <1>1, <3>2, Zenon DEF Range
    <2>4. QED
      BY Zenon, <2>1, <2>2, <2>3
  <1>4. QED
    BY Zenon, <1>1, <1>2, <1>3

\* tlappend keeps every thread of both lists, and none twice when they share none.
LEMMA AppendFacts ==
    ASSUME NEW S, NEW s \in Seq(S), NEW t \in Seq(S)
    PROVE  /\ tlappend(s, t) \in Seq(S)
           /\ Range(tlappend(s, t)) = Range(s) \cup Range(t)
           /\ IsInjective(s) /\ IsInjective(t) /\ Range(s) \cap Range(t) = {}
                => IsInjective(tlappend(s, t))
           /\ s # <<>> => Head(tlappend(s, t)) = Head(s) /\ tlappend(s, t) # <<>>
           /\ s = <<>> => tlappend(s, t) = t
  <1> DEFINE a == tlappend(s, t)
  <1>1. /\ a \in Seq(S) /\ DOMAIN a = 1 .. Len(s) + Len(t)
        /\ DOMAIN s = 1 .. Len(s) /\ DOMAIN t = 1 .. Len(t) /\ Len(s) \in Nat /\ Len(t) \in Nat
        /\ \A i \in 1 .. Len(s) : a[i] = s[i]
        /\ \A i \in 1 .. Len(t) : a[i + Len(s)] = t[i]
        /\ \A i \in 1 .. Len(s) + Len(t) : i > Len(s) => a[i] = t[i - Len(s)]
    BY DEF tlappend
  <1>2. Range(a) = Range(s) \cup Range(t)
    BY ZenonT(60), RangeConcatenation DEF tlappend
  <1>3. ASSUME IsInjective(s), IsInjective(t), Range(s) \cap Range(t) = {}
        PROVE  IsInjective(a)
    <2>1. SUFFICES ASSUME NEW i \in DOMAIN a, NEW j \in DOMAIN a, a[i] = a[j] PROVE i = j
      BY Zenon DEF IsInjective
    <2>2. \A k \in 1 .. Len(s) : s[k] \in Range(s)
      BY Zenon, <1>1 DEF Range
    <2>3. \A k \in 1 .. Len(t) : t[k] \in Range(t)
      BY Zenon, <1>1 DEF Range
    <2>4. CASE i <= Len(s) /\ j <= Len(s)
      <3>1. i \in DOMAIN s /\ j \in DOMAIN s /\ s[i] = s[j]
        BY <1>1, <2>1, <2>4
      <3>2. QED
        BY Zenon, <3>1, <1>3 DEF IsInjective
    <2>5. CASE i > Len(s) /\ j > Len(s)
      <3>1. /\ i - Len(s) \in DOMAIN t /\ j - Len(s) \in DOMAIN t
            /\ t[i - Len(s)] = t[j - Len(s)]
        BY SMTT(60), <1>1, <2>1, <2>5
      <3>2. i - Len(s) = j - Len(s)
        BY Zenon, <3>1, <1>3 DEF IsInjective
      <3>3. QED
        BY <3>2, <1>1, <2>1
    <2>6. ASSUME NEW k \in DOMAIN a, NEW l \in DOMAIN a, k <= Len(s), l > Len(s)
          PROVE  a[k] # a[l]
      <3>1. a[k] \in Range(s)
        BY <1>1, <2>2, <2>6
      <3>2. l - Len(s) \in 1 .. Len(t) /\ a[l] = t[l - Len(s)]
        BY <1>1, <2>6
      <3>3. QED
        BY Zenon, <1>3, <2>3, <3>1, <3>2
    <2>7. QED
      BY <1>1, <2>1, <2>4, <2>5, <2>6
  <1>4. s # <<>> => Head(a) = Head(s) /\ a # <<>>
    BY DEF tlappend
  <1>5. s = <<>> => a = t
    BY DEF tlappend
  <1>6. QED
    BY Zenon, <1>1, <1>2, <1>3, <1>4, <1>5
-----------------------------------------------------------------------------
(* The family tree *)

\* A step that creates, frees and adopts no thread keeps the family tree.
LEMMA TreeKept ==
    ASSUME TreeInv, parent' = parent, state'[MAIN_TID] # "EXITED",
           \A t \in Tid : state'[t] = "UNINITIALIZED" <=> state[t] = "UNINITIALIZED"
    PROVE  TreeInv'
  <1>1. Live' = Live
    BY Zenon DEF Live
  <1>2. FamilyTree'
    <2>1. \A t \in Live : parent[t] \in Tid /\ state'[parent[t]] # "UNINITIALIZED"
      BY Zenon DEF TreeInv, FamilyTree
    <2>2. QED
      BY Zenon, <1>1, <2>1 DEF TreeInv, FamilyTree
  <1>3. QED
    BY Zenon, <1>2, ConstantFacts DEF TreeInv

\* A thread is not its own parent, and two threads are not each other's.
LEMMA ParentFacts ==
    ASSUME TreeInv, NEW t \in Live
    PROVE  /\ parent[t] \in Tid \ {t} /\ state[parent[t]] # "UNINITIALIZED"
           /\ parent[t] \in Live => parent[parent[t]] # t
  <1>1. parent[t] \in Tid /\ state[parent[t]] # "UNINITIALIZED"
    BY Zenon DEF TreeInv, FamilyTree
  <1>2. \E u \in {t} : parent[u] \notin {t}
    BY Zenon DEF TreeInv, FamilyTree
  <1>3. ASSUME parent[t] \in Live PROVE \E u \in {t, parent[t]} : parent[u] \notin {t, parent[t]}
    <2>1. {t, parent[t]} \in SUBSET Live /\ {t, parent[t]} # {}
      BY Zenon, <1>3
    <2>2. QED
      BY Zenon, <2>1, Zenon DEF TreeInv, FamilyTree
  <1>4. QED
    BY Zenon, <1>1, <1>2, <1>3

\* A new thread is a leaf of the tree.
LEMMA TreeGrows ==
    ASSUME TreeInv, TypeOK, NEW c \in FreeSlots, state[CURTHR] = "RUNNING",
           parent' = [parent EXCEPT ![c] = CURTHR],
           state'[c] # "UNINITIALIZED", state'[MAIN_TID] # "EXITED",
           \A t \in Tid \ {c} : state'[t] = "UNINITIALIZED" <=> state[t] = "UNINITIALIZED"
    PROVE  TreeInv'
  <1>1. /\ c \in Tid /\ c # MAIN_TID /\ state[c] = "UNINITIALIZED" /\ CURTHR \in Tid /\ CURTHR # c
        /\ parent'[c] = CURTHR /\ \A t \in Tid \ {c} : parent'[t] = parent[t]
    BY Zenon DEF FreeSlots, TypeOK
  <1>2. Live' = Live \cup {c} /\ c \notin Live
    BY Zenon, <1>1 DEF Live
  <1>3. \A t \in Live : parent[t] \in Tid \ {c} /\ state[parent[t]] # "UNINITIALIZED"
    BY Zenon, <1>1 DEF TreeInv, FamilyTree
  <1>4. ASSUME NEW S \in SUBSET Live', S # {} PROVE \E t \in S : parent'[t] \notin S
    <2>1. CASE S \ {c} = {}
      BY Zenon, <1>1, <1>4, <2>1
    <2>2. CASE S \ {c} # {}
      <3>1. S \ {c} \in SUBSET Live
        BY Zenon, <1>2
      <3>2. PICK t \in S \ {c} : parent[t] \notin S \ {c}
        BY Zenon, <2>2, <3>1, Zenon DEF TreeInv, FamilyTree
      <3>3. t \in Live /\ t \in Tid
        BY Zenon, <3>1 DEF Live
      <3>4. QED
        BY Zenon, <1>1, <1>3, <3>2, <3>3
    <2>3. QED
      BY Zenon, <2>1, <2>2
  <1>5. \A t \in Live' : parent'[t] \in Tid /\ state'[parent'[t]] # "UNINITIALIZED"
    <2>1. \A t \in Live : t \in Tid \ {c}
      BY Zenon, <1>2 DEF Live
    <2>2. QED
      BY <1>1, <1>2, <1>3, <2>1
  <1>6. QED
    BY ZenonT(60), <1>1, <1>4, <1>5, ConstantFacts DEF TreeInv, FamilyTree

\* Recycling a zombie c of the current thread and passing its children up.
LEMMA TreeAdopts ==
    ASSUME TreeInv, TypeOK, NEW c \in Zombies(CURTHR), state[CURTHR] = "RUNNING",
           parent' = Adopted(c), state' = [state EXCEPT ![c] = "UNINITIALIZED"]
    PROVE  TreeInv'
  <1>1. /\ c \in Tid /\ c # MAIN_TID /\ state[c] = "EXITED" /\ parent[c] = CURTHR
        /\ CURTHR \in Tid /\ c # CURTHR /\ c \in Live
    BY Zenon DEF Zombies, Children, TypeOK, Live
  <1>2. /\ parent'[c] = NULL /\ state'[c] = "UNINITIALIZED"
        /\ \A t \in Tid \ {c} : parent'[t] = IF parent[t] = c THEN CURTHR ELSE parent[t]
        /\ \A t \in Tid \ {c} : state'[t] = state[t]
    BY Zenon, <1>1 DEF Adopted, TypeOK
  <1>3. Live' = Live \ {c}
    BY Zenon, <1>1, <1>2 DEF Live
  <1>4. ASSUME NEW t \in Live' PROVE parent'[t] \in Tid /\ state'[parent'[t]] # "UNINITIALIZED"
    <2>1. t \in Live /\ t \in Tid \ {c}
      BY Zenon, <1>3 DEF Live
    <2>2. QED
      BY <1>1, <1>2, <2>1 DEF TreeInv, FamilyTree
  <1>5. ASSUME NEW S \in SUBSET Live', S # {} PROVE \E t \in S : parent'[t] \notin S
    <2>1. S \in SUBSET Live /\ S \cup {c} \in SUBSET Live /\ c \notin S
      BY Zenon, <1>1, <1>3
    <2>2. \A t \in S : t \in Tid \ {c}
      BY Zenon, <2>1 DEF Live
    <2>3. PICK t \in S \cup {c} : parent[t] \notin S \cup {c}
      BY Zenon, <2>1, Zenon DEF TreeInv, FamilyTree
    <2>4. CASE t \in S
      BY Zenon, <1>2, <2>2, <2>3, <2>4
    <2>5. CASE t = c
      <3>1. PICK u \in S : parent[u] \notin S
        BY Zenon, <1>5, <2>1 DEF TreeInv, FamilyTree
      <3>2. QED
        BY Zenon, <1>1, <1>2, <2>2, <2>3, <2>5, <3>1
    <2>6. QED
      BY Zenon, <2>3, <2>4, <2>5
  <1>6. state'[MAIN_TID] \notin {"EXITED", "UNINITIALIZED"}
    BY Zenon, <1>1, <1>2, ConstantFacts DEF TreeInv
  <1>7. \A t \in Tid : state'[t] = "UNINITIALIZED" => parent'[t] = NULL
    BY ZenonT(60), <1>1, <1>2, ConstantFacts DEF TreeInv
  <1>8. QED
    BY Zenon, <1>4, <1>5, <1>6, <1>7 DEF TreeInv, FamilyTree

\* Why suspend_self finds a thread: while another thread runs, idle is READY.
LEMMA IdleIsReady ==
    ASSUME IInv, CURTHR # IDLE_TID, pc[CURTHR] # "swtch"
    PROVE  IDLE_TID \in Range(ready_list) /\ ready_list # <<>>
  <1>1. IDLE_TID \in Range(ready_list)
    BY Zenon, ConstantFacts DEF IInv, CpuInv, SwitchedOut, IdleInv, ListsAgree
  <1>2. QED
    BY <1>1 DEF Range

\* halt_success and panic change nothing but halted.
LEMMA HaltStep == ASSUME IInv, NEW how \in {"success", "panic"}, Halt(how) PROVE IInv'
  <1>1. TypeOK'
    BY Zenon DEF IInv, TypeOK, Halt, lists, swtch
  <1>2. ListsAgree' /\ CpuInv' /\ HeadInv' /\ IdleInv' /\ TreeInv'
    BY DEF IInv, ListsAgree, CpuInv, SwitchedOut, HeadInv, IdleInv, TreeInv, FamilyTree, Live, Halt, lists, swtch
  <1>3. JoinInv'
    BY DEF IInv, JoinInv, JoinOf, Joining, Children, Zombies, Halt, lists
  <1>4. QED
    BY Zenon, <1>1, <1>2, <1>3 DEF IInv

-----------------------------------------------------------------------------
(* Broadcast *)

\* The waiters of a condition are all WAITING on it, and appending them keeps
\* the ready list free of duplicates.
LEMMA WokenFacts ==
    ASSUME TypeOK, ListsAgree, NEW c \in Condition
    PROVE  /\ Range(wait_list[c]) \subseteq Tid
           /\ \A t \in Range(wait_list[c]) :
                 state[t] = "WAITING" /\ wait_cond[t] = c /\ pc[t] # "wait"
           /\ tlappend(ready_list, wait_list[c]) \in Seq(Tid)
           /\ Range(tlappend(ready_list, wait_list[c])) = Range(ready_list) \cup Range(wait_list[c])
           /\ IsInjective(tlappend(ready_list, wait_list[c]))
           /\ ready_list # <<>> =>
                 /\ tlappend(ready_list, wait_list[c]) # <<>>
                 /\ Head(tlappend(ready_list, wait_list[c])) = Head(ready_list)
           /\ ready_list = <<>> => tlappend(ready_list, wait_list[c]) = wait_list[c]
  <1>1. ready_list \in Seq(Tid) /\ wait_list[c] \in Seq(Tid)
    BY Zenon DEF TypeOK
  <1>2. Range(wait_list[c]) \subseteq Tid /\ Range(ready_list) \subseteq Tid
    BY Zenon, <1>1, RangeOfSeq
  <1>3. \A t \in Range(wait_list[c]) : state[t] = "WAITING" /\ wait_cond[t] = c /\ pc[t] # "wait"
    BY Zenon, <1>2 DEF ListsAgree
  <1>4. Range(ready_list) \cap Range(wait_list[c]) = {}
    BY Zenon, <1>2, <1>3 DEF ListsAgree
  <1>5. IsInjective(ready_list) /\ IsInjective(wait_list[c])
    BY Zenon DEF ListsAgree
  <1>6. QED
    BY <1>1, <1>2, <1>3, <1>4, <1>5, AppendFacts

\* condition_broadcast keeps the lists in agreement with the thread states, also
\* when its caller has just become EXITED.
LEMMA BroadcastLists ==
    ASSUME TypeOK, ListsAgree, NEW c \in Condition, NEW st \in [Tid -> ThreadState],
           \A t \in Tid : st[t] = state[t] \/ (state[t] = "RUNNING" /\ st[t] = "EXITED"),
           condition_broadcast(c, st),
           \A t \in Tid : pc'[t] = "wait" <=> pc[t] = "wait"
    PROVE  /\ state' \in [Tid -> ThreadState]
           /\ wait_cond' \in [Tid -> Condition \cup {NULL}]
           /\ ready_list' \in Seq(Tid)
           /\ wait_list' \in [Condition -> Seq(Tid)]
           /\ ListsAgree'
  <1>1. /\ state' \in [Tid -> ThreadState]
        /\ wait_cond' \in [Tid -> Condition \cup {NULL}]
    BY Zenon DEF TypeOK, ThreadState, condition_broadcast
  <1>2. ready_list' \in Seq(Tid)
    BY Zenon, WokenFacts DEF condition_broadcast
  <1>3. wait_list' \in [Condition -> Seq(Tid)]
    BY Zenon, EmptySeq DEF TypeOK, condition_broadcast
  <1>4. \A t \in Tid : t \in Range(ready_list)' <=> state'[t] = "READY"
    BY WokenFacts DEF ListsAgree, condition_broadcast
  <1>5. ASSUME NEW t \in Tid, NEW d \in Condition
        PROVE  t \in Range(wait_list'[d]) <=>
                  state'[t] = "WAITING" /\ wait_cond'[t] = d /\ pc'[t] # "wait"
    <2>1. CASE d = c
      <3>1. Range(wait_list'[d]) = {}
        BY <2>1 DEF condition_broadcast, TypeOK, Range
      <3>2. t \in Range(wait_list[c]) <=> state[t] = "WAITING" /\ wait_cond[t] = c /\ pc[t] # "wait"
        BY Zenon DEF ListsAgree
      <3>3. QED
        BY Zenon, <3>1, <3>2, <2>1, ConstantFacts DEF condition_broadcast
    <2>2. CASE d # c
      <3>1. wait_list'[d] = wait_list[d]
        BY Zenon, <2>2 DEF condition_broadcast, TypeOK
      <3>2. t \in Range(wait_list[d]) <=> state[t] = "WAITING" /\ wait_cond[t] = d /\ pc[t] # "wait"
        BY Zenon DEF ListsAgree
      <3>3. QED
        BY <3>1, <3>2, <2>2, WokenFacts, ConstantFacts DEF condition_broadcast
    <2>3. QED
      BY Zenon, <2>1, <2>2
  <1>6. IsInjective(ready_list)'
    BY Zenon, WokenFacts DEF condition_broadcast
  <1>7. ASSUME NEW d \in Condition PROVE IsInjective(wait_list'[d])
    BY DEF ListsAgree, TypeOK, condition_broadcast, IsInjective
  <1>8. QED
    BY Zenon, <1>1, <1>2, <1>3, <1>4, <1>5, <1>6, <1>7 DEF ListsAgree

-----------------------------------------------------------------------------
(* Waiting *)

\* A thread begins to wait: on a condition of its caller, or on its own
\* child_exit for a child that is not a zombie.
LEMMA BeginWaitStep ==
    ASSUME IInv, NEW c \in Condition, NEW return \in {"kern", "join", "joinany"},
           BeginWait(c, return),
           pc[CURTHR] \in {"kern", "join"},
           return = "kern" => pc[CURTHR] = "kern",
           return = "join" => pc[CURTHR] = "join" /\ state[jtid[CURTHR]] # "EXITED" /\ c = CURTHR,
           return = "joinany" => pc[CURTHR] = "kern" /\ Zombies(CURTHR) = {} /\ c = CURTHR,
           UNCHANGED <<parent, stack_base, ready_list, wait_list, CURTHR, sie, jtid, swtch, halted>>
    PROVE  IInv'
  <1>1. TypeOK /\ ListsAgree /\ CpuInv /\ HeadInv /\ IdleInv /\ TreeInv /\ JoinInv
    BY Zenon DEF IInv
  <1>2. /\ CURTHR \in Tid /\ state[CURTHR] = "RUNNING" /\ CURTHR # IDLE_TID
        /\ state' = [state EXCEPT ![CURTHR] = "WAITING"]
        /\ wait_cond' = [wait_cond EXCEPT ![CURTHR] = c]
        /\ cont' = [cont EXCEPT ![CURTHR] = return]
        /\ pc' = [pc EXCEPT ![CURTHR] = "wait"]
    BY Zenon, <1>1 DEF BeginWait, Goto, TypeOK, CpuInv, IdleInv
  <1>3. TypeOK'
    <2>1. /\ state' \in [Tid -> ThreadState] /\ wait_cond' \in [Tid -> Condition \cup {NULL}]
          /\ cont' \in [Tid -> Return] /\ pc' \in [Tid -> Place]
      BY Zenon, <1>1, <1>2 DEF TypeOK, ThreadState, Return, Place
    <2>2. QED
      BY Zenon, <1>1, <2>1 DEF TypeOK, swtch
  <1>4. ListsAgree'
    BY ZenonT(60), <1>1, <1>2 DEF TypeOK, ListsAgree
  <1>5. CpuInv'
    BY Zenon, <1>1, <1>2 DEF TypeOK, CpuInv, SwitchedOut, swtch
  <1>6. HeadInv'
    BY Zenon, <1>1, <1>2 DEF TypeOK, HeadInv
  <1>7. IdleInv'
    BY Zenon, <1>1, <1>2, ConstantFacts DEF TypeOK, IdleInv, CpuInv, SwitchedOut
  <1>8. TreeInv'
    <2>1. \A t \in Tid : /\ state'[t] = "UNINITIALIZED" <=> state[t] = "UNINITIALIZED"
                         /\ state'[t] = "EXITED" <=> state[t] = "EXITED"
      BY Zenon, <1>1, <1>2 DEF TypeOK
    <2>2. QED
      BY Zenon, <1>1, <2>1, ConstantFacts, TreeKept DEF TreeInv
  <1>9. JoinInv'
    <2>1. SUFFICES ASSUME NEW t \in Tid PROVE JoinOf(t)'
      BY Zenon DEF JoinInv
    <2>2. JoinOf(t)
      BY Zenon, <1>1 DEF JoinInv
    <2>3. \A u \in Tid : /\ state'[u] = "UNINITIALIZED" <=> state[u] = "UNINITIALIZED"
                         /\ state'[u] = "EXITED" <=> state[u] = "EXITED"
      BY Zenon, <1>1, <1>2 DEF TypeOK
    <2>4. Children(t)' = Children(t) /\ Zombies(t)' = Zombies(t)
      BY Zenon, <2>3 DEF Children, Zombies
    <2>5. jtid[t] \in Tid
      BY Zenon, <1>1 DEF TypeOK
    <2>6. CASE t = CURTHR
      <3>1. state'[t] = "WAITING" /\ cont'[t] = return /\ pc'[t] = "wait" /\ wait_cond'[t] = c
        BY Zenon, <1>1, <1>2, <2>6 DEF TypeOK
      <3>2. c # NULL
        BY Zenon, ConstantFacts
      <3>3. QED
        BY Zenon, <2>2, <2>3, <2>4, <2>5, <2>6, <3>1, <3>2 DEF JoinOf, Joining
    <2>7. CASE t # CURTHR
      <3>1. /\ state'[t] = state[t] /\ cont'[t] = cont[t] /\ pc'[t] = pc[t]
            /\ wait_cond'[t] = wait_cond[t]
        BY Zenon, <1>1, <1>2, <2>7 DEF TypeOK
      <3>2. QED
        BY Zenon, <2>2, <2>3, <2>4, <2>5, <3>1 DEF JoinOf, Joining
    <2>8. QED
      BY Zenon, <2>6, <2>7
  <1>10. QED
    BY Zenon, <1>3, <1>4, <1>5, <1>6, <1>7, <1>8, <1>9 DEF IInv

LEMMA condition_waitStep == ASSUME IInv, NEW c \in Conds, condition_wait(c) PROVE IInv'
  <1>1. c \in Condition
    BY Zenon DEF Condition
  <1>2. QED
    BY Zenon, <1>1, BeginWaitStep DEF condition_wait, At

LEMMA WaitInsertStep == IInv /\ WaitInsert => IInv'
  <1> SUFFICES ASSUME IInv, WaitInsert PROVE IInv'
    BY Zenon
  <1> DEFINE c == wait_cond[CURTHR]
  <1>1. TypeOK /\ ListsAgree /\ CpuInv /\ HeadInv /\ IdleInv /\ TreeInv /\ JoinInv
    BY Zenon DEF IInv
  <1>2. /\ CURTHR \in Tid /\ state[CURTHR] = "WAITING" /\ pc[CURTHR] = "wait" /\ CURTHR # IDLE_TID
        /\ c \in Condition
        /\ wait_list' = [wait_list EXCEPT ![c] = tlinsert(wait_list[c], CURTHR)]
        /\ pc' = [pc EXCEPT ![CURTHR] = "susp"]
        /\ UNCHANGED <<state, parent, wait_cond, stack_base, ready_list, CURTHR, sie, cont, jtid, swtch, halted>>
    <2>1. pc[CURTHR] = "wait" /\ CURTHR \in Tid
      BY Zenon, <1>1 DEF WaitInsert, At, TypeOK
    <2>2. state[CURTHR] = "WAITING"
      BY Zenon, <1>1, <2>1 DEF CpuInv
    <2>3. CURTHR # IDLE_TID
      BY Zenon, <1>1, <2>1 DEF IdleInv
    <2>4. c # NULL
      BY Zenon, <1>1, <2>1, <2>2 DEF JoinInv, JoinOf
    <2>5. c \in Condition
      BY Zenon, <1>1, <2>1, <2>4 DEF TypeOK
    <2>6. QED
      BY Zenon, <2>1, <2>2, <2>3, <2>5 DEF WaitInsert, Goto
  <1>3. /\ CURTHR \in Tid /\ wait_list[c] \in Seq(Tid) /\ IsInjective(wait_list[c]) /\ CURTHR \notin Range(wait_list[c])
    BY Zenon, <1>1, <1>2 DEF TypeOK, ListsAgree
  <1> HIDE DEF c
  <1>4. /\ tlinsert(wait_list[c], CURTHR) \in Seq(Tid)
        /\ IsInjective(tlinsert(wait_list[c], CURTHR))
        /\ Range(tlinsert(wait_list[c], CURTHR)) = Range(wait_list[c]) \cup {CURTHR}
    BY Zenon, <1>3, InsertFacts
  <1>5. TypeOK'
    <2>1. wait_list' \in [Condition -> Seq(Tid)] /\ pc' \in [Tid -> Place]
      BY Zenon, <1>1, <1>2, <1>4 DEF TypeOK, Place
    <2>2. QED
      BY Zenon, <1>1, <1>2, <2>1 DEF TypeOK, swtch
  <1>6. ListsAgree'
    <2>1. ASSUME NEW t \in Tid, NEW d \in Condition
          PROVE  t \in Range(wait_list'[d]) <=>
                    state'[t] = "WAITING" /\ wait_cond'[t] = d /\ pc'[t] # "wait"
      <3>1. t \in Range(wait_list[d]) <=> state[t] = "WAITING" /\ wait_cond[t] = d /\ pc[t] # "wait"
        BY Zenon, <1>1 DEF ListsAgree
      <3>2. wait_list'[d] = IF d = c THEN tlinsert(wait_list[c], CURTHR) ELSE wait_list[d]
        BY Zenon, <1>1, <1>2 DEF TypeOK
      <3>3. pc'[t] = IF t = CURTHR THEN "susp" ELSE pc[t]
        BY Zenon, <1>1, <1>2 DEF TypeOK
      <3>4. wait_cond[CURTHR] = c
        BY Zenon DEF c
      <3>5. QED
        BY <1>2, <1>4, <3>1, <3>2, <3>3, <3>4
    <2>2. ASSUME NEW d \in Condition PROVE IsInjective(wait_list'[d])
      <3>1. wait_list'[d] = IF d = c THEN tlinsert(wait_list[c], CURTHR) ELSE wait_list[d]
        BY Zenon, <1>1, <1>2 DEF TypeOK
      <3>2. IsInjective(wait_list[d])
        BY Zenon, <1>1 DEF ListsAgree
      <3>3. QED
        BY Zenon, <1>4, <3>1, <3>2
    <2>3. QED
      BY Zenon, <1>1, <1>2, <2>1, <2>2 DEF ListsAgree
  <1>7. CpuInv'
    BY Zenon, <1>1, <1>2 DEF TypeOK, CpuInv, SwitchedOut, swtch
  <1>8. HeadInv'
    BY Zenon, <1>1, <1>2 DEF TypeOK, HeadInv
  <1>9. IdleInv'
    BY Zenon, <1>1, <1>2, ConstantFacts DEF TypeOK, IdleInv
  <1>10. TreeInv'
    BY Zenon, <1>1, <1>2, TreeKept DEF TreeInv
  <1>11. JoinInv'
    BY <1>1, <1>2 DEF JoinInv, JoinOf, Joining, Children, Zombies, TypeOK
  <1>12. QED
    BY Zenon, <1>5, <1>6, <1>7, <1>8, <1>9, <1>10, <1>11 DEF IInv

-----------------------------------------------------------------------------
(* Suspension and the context switch *)

LEMMA SuspendSelfStep == IInv /\ SuspendSelf => IInv'
  <1> SUFFICES ASSUME IInv, SuspendSelf PROVE IInv'
    BY Zenon
  <1> DEFINE next == Head(ready_list)
             requeue == state[CURTHR] = "RUNNING"
  <1>1. TypeOK /\ ListsAgree /\ CpuInv /\ HeadInv /\ IdleInv /\ TreeInv /\ JoinInv
    BY Zenon DEF IInv
  <1>2. /\ pc[CURTHR] = "susp" /\ CURTHR \in Tid
        /\ ready_list \in Seq(Tid) /\ ready_list # <<>>
        /\ next \in Tid \ {CURTHR} /\ state[next] = "READY" /\ next \in Range(ready_list)
        /\ Tail(ready_list) \in Seq(Tid) /\ IsInjective(Tail(ready_list))
        /\ Range(Tail(ready_list)) = Range(ready_list) \ {next}
    BY Zenon, <1>1, RemoveFacts DEF SuspendSelf, At, TypeOK, HeadInv, ListsAgree
  <1>3. /\ ready_list' = IF requeue THEN tlinsert(Tail(ready_list), CURTHR) ELSE Tail(ready_list)
        /\ state' = IF requeue THEN [[state EXCEPT ![next] = "RUNNING"] EXCEPT ![CURTHR] = "READY"]
                    ELSE [state EXCEPT ![next] = "RUNNING"]
    <2>1. StillRunning([state EXCEPT ![next] = "RUNNING"]) <=> requeue
      BY Zenon, <1>1, <1>2 DEF StillRunning, TypeOK
    <2>2. QED
      BY Zenon, <2>1 DEF SuspendSelf
  <1>4. /\ state'[next] = "RUNNING"
        /\ state'[CURTHR] = IF requeue THEN "READY" ELSE state[CURTHR]
        /\ \A t \in Tid \ {next, CURTHR} : state'[t] = state[t]
        /\ state' \in [Tid -> ThreadState]
    BY Zenon, <1>1, <1>2, <1>3, Zenon DEF TypeOK, ThreadState
  <1>5. /\ ready_list' \in Seq(Tid) /\ IsInjective(ready_list')
        /\ Range(ready_list') = IF requeue THEN (Range(ready_list) \ {next}) \cup {CURTHR}
                                ELSE Range(ready_list) \ {next}
    <2>1. CASE requeue
      <3>1. CURTHR \notin Range(Tail(ready_list))
        BY Zenon, <1>1, <1>2, <2>1 DEF ListsAgree
      <3> HIDE DEF next, requeue
      <3>2. ready_list' = tlinsert(Tail(ready_list), CURTHR)
        BY Zenon, <1>3, <2>1
      <3>3. /\ tlinsert(Tail(ready_list), CURTHR) \in Seq(Tid)
            /\ Range(tlinsert(Tail(ready_list), CURTHR)) = Range(Tail(ready_list)) \cup {CURTHR}
            /\ IsInjective(tlinsert(Tail(ready_list), CURTHR))
        <4>1. Tail(ready_list) \in Seq(Tid) /\ CURTHR \in Tid /\ IsInjective(Tail(ready_list))
          BY Zenon, <1>2
        <4>2. QED
          BY Zenon, <3>1, <4>1, InsertFacts, Zenon
      <3>4. QED
        BY Zenon, <1>2, <2>1, <3>2, <3>3
    <2>2. CASE ~requeue
      <3> HIDE DEF next, requeue
      <3> QED
        BY Zenon, <1>2, <1>3, <2>2
    <2>3. QED
      BY Zenon, <2>1, <2>2
  <1>rest. /\ next_thread' = next
        /\ saved_intr_state' = [saved_intr_state EXCEPT ![CURTHR] = sie]
        /\ pc' = [pc EXCEPT ![CURTHR] = "swtch"] /\ pc \in [Tid -> Place]
        /\ sie' = TRUE
        /\ UNCHANGED <<parent, wait_cond, stack_base, wait_list, CURTHR, cont, jtid,
                      prev_thread, halted>>
    BY Zenon, <1>1 DEF SuspendSelf, Goto, TypeOK
  <1> HIDE DEF next, requeue
  <1>6. TypeOK'
    <2>1. pc' \in [Tid -> Place]
      BY Zenon, <1>2, <1>rest DEF Place
    <2>2. saved_intr_state' \in [Tid -> BOOLEAN]
      BY Zenon, <1>1, <1>rest DEF TypeOK
    <2>3. QED
      BY Zenon, <1>1, <1>2, <1>rest, <1>4, <1>5, <2>1, <2>2 DEF TypeOK
  <1>7. ListsAgree'
    <2>1. \A t \in Tid : t \in Range(ready_list') <=> state'[t] = "READY"
      BY <1>1, <1>2, <1>4, <1>5 DEF ListsAgree, requeue
    <2>2. \A t \in Tid : /\ state'[t] = "WAITING" <=> state[t] = "WAITING"
                         /\ state[t] = "WAITING" => pc[t] # "wait" /\ pc'[t] # "wait"
      BY Zenon, <1>1, <1>2, <1>rest, <1>4 DEF requeue, CpuInv, SwitchedOut
    <2>3. QED
      BY Zenon, <1>1, <1>rest, <1>5, <2>1, <2>2 DEF ListsAgree
  <1>8. CpuInv'
    BY Zenon, <1>1, <1>2, <1>rest, <1>4 DEF CpuInv, SwitchedOut, requeue
  <1>9. HeadInv'
    BY Zenon, <1>2, <1>rest DEF HeadInv
  <1>10. IdleInv'
    BY Zenon, <1>1, <1>2, <1>rest, <1>4, ConstantFacts DEF IdleInv, CpuInv, SwitchedOut, requeue
  <1>11. TreeInv'
    <2>1. \A t \in Tid : /\ state'[t] = "UNINITIALIZED" <=> state[t] = "UNINITIALIZED"
                         /\ state'[t] = "EXITED" <=> state[t] = "EXITED"
      BY Zenon, <1>1, <1>2, <1>4, Zenon DEF requeue
    <2>2. QED
      BY Zenon, <1>1, <1>rest, <2>1, ConstantFacts, TreeKept DEF TreeInv
  <1>12. JoinInv'
    <2>1. SUFFICES ASSUME NEW t \in Tid PROVE JoinOf(t)'
      BY Zenon DEF JoinInv
    <2>2. JoinOf(t)
      BY Zenon, <1>1 DEF JoinInv
    <2>3. \A u \in Tid : /\ state'[u] = "UNINITIALIZED" <=> state[u] = "UNINITIALIZED"
                         /\ state'[u] = "EXITED" <=> state[u] = "EXITED"
                         /\ state'[u] = "WAITING" <=> state[u] = "WAITING"
      BY Zenon, <1>1, <1>2, <1>4 DEF requeue
    <2>4. Children(t)' = Children(t) /\ Zombies(t)' = Zombies(t)
      BY Zenon, <1>rest, <2>3 DEF Children, Zombies
    <2>5. QED
      BY Zenon, <1>1, <1>2, <1>rest, <2>2, <2>3, <2>4 DEF JoinOf, Joining, TypeOK
  <1>13. QED
    BY Zenon, <1>6, <1>7, <1>8, <1>9, <1>10, <1>11, <1>12 DEF IInv

LEMMA thread_swtchStep == IInv /\ thread_swtch => IInv'
  <1> SUFFICES ASSUME IInv, thread_swtch PROVE IInv'
    BY Zenon
  <1>1. TypeOK /\ ListsAgree /\ CpuInv /\ HeadInv /\ IdleInv /\ TreeInv /\ JoinInv
    BY Zenon DEF IInv
  <1>2. /\ pc[CURTHR] = "swtch" /\ next_thread \in Tid \ {CURTHR}
        /\ state[next_thread] = "RUNNING" /\ CURTHR' = next_thread /\ CURTHR \in Tid
        /\ pc[next_thread] \in {"swtch", "fork", "start"}
    BY Zenon, <1>1 DEF thread_swtch, At, CpuInv, SwitchedOut, TypeOK
  <1>3. /\ pc' = [pc EXCEPT ![next_thread] = ResumePlace(next_thread)]
        /\ ResumePlace(next_thread) \in {"resumed", "idle", "kern"}
        /\ ResumePlace(next_thread) = "idle" => next_thread = IDLE_TID
        /\ next_thread = IDLE_TID => ResumePlace(next_thread) \in {"resumed", "idle"}
        /\ ResumePlace(next_thread) = "resumed" <=> pc[next_thread] = "swtch"
        /\ next_thread' = NULL
        /\ UNCHANGED <<state, parent, stack_base, lists, sie, cont, jtid, saved_intr_state, halted>>
    BY Zenon, <1>1, <1>2 DEF thread_swtch, ResumePlace, IdleInv
  <1> HIDE DEF ResumePlace
  <1>4. TypeOK'
    <2>1. pc' \in [Tid -> Place]
      BY Zenon, <1>1, <1>2, <1>3 DEF TypeOK, Place
    <2>2. prev_thread' \in Tid \cup {NULL}
      BY Zenon, <1>1, <1>2 DEF TypeOK, thread_swtch, swtch_result
    <2>3. QED
      BY Zenon, <1>1, <1>2, <1>3, <2>1, <2>2 DEF TypeOK, lists
  <1>5. ListsAgree'
    BY ZenonT(60), <1>1, <1>2, <1>3 DEF TypeOK, ListsAgree, CpuInv, lists
  <1>6. CpuInv'
    BY Zenon, <1>1, <1>2, <1>3 DEF TypeOK, CpuInv, SwitchedOut
  <1>7. HeadInv'
    <2>1. ready_list # <<>> => Head(ready_list) \in Range(ready_list) /\ Head(ready_list) \in Tid
      BY Zenon, <1>1, RemoveFacts DEF TypeOK
    <2>2. QED
      BY Zenon, <1>1, <1>2, <1>3, <2>1 DEF ListsAgree, HeadInv, lists
  <1>8. IdleInv'
    BY Zenon, <1>1, <1>2, <1>3, ConstantFacts DEF TypeOK, CpuInv, SwitchedOut, IdleInv, lists
  <1>9. TreeInv'
    BY Zenon, <1>1, <1>3, TreeKept DEF TreeInv
  <1>10. JoinInv'
    <2>1. SUFFICES ASSUME NEW t \in Tid PROVE JoinOf(t)'
      BY Zenon DEF JoinInv
    <2>2. JoinOf(t)
      BY Zenon, <1>1 DEF JoinInv
    <2>3. Children(t)' = Children(t) /\ Zombies(t)' = Zombies(t)
      BY Zenon, <1>3 DEF Children, Zombies
    <2>4. QED
      BY Zenon, <1>1, <1>2, <1>3, <2>2, <2>3 DEF JoinOf, Joining, TypeOK, lists
  <1>11. QED
    BY Zenon, <1>4, <1>5, <1>6, <1>7, <1>8, <1>9, <1>10 DEF IInv

LEMMA ResumeStep == IInv /\ Resume => IInv'
  <1> SUFFICES ASSUME IInv, Resume PROVE IInv'
    BY Zenon
  <1>1. TypeOK /\ ListsAgree /\ CpuInv /\ HeadInv /\ IdleInv /\ TreeInv /\ JoinInv
    BY Zenon DEF IInv
  <1>2. /\ pc[CURTHR] = "resumed" /\ CURTHR \in Tid /\ state[CURTHR] = "RUNNING"
        /\ pc' = [pc EXCEPT ![CURTHR] = cont[CURTHR]]
        /\ cont' = [cont EXCEPT ![CURTHR] = "kern"]
        /\ cont[CURTHR] \in {"user", "kern", "join", "joinany", "idle"}
        /\ cont[CURTHR] = "idle" <=> CURTHR = IDLE_TID
        /\ UNCHANGED <<state, parent, lists, CURTHR, jtid, next_thread, halted>>
    BY Zenon, <1>1 DEF Resume, At, Goto, TypeOK, Return, CpuInv, IdleInv
  <1>3. TypeOK'
    <2>1. pc' \in [Tid -> Place] /\ cont' \in [Tid -> Return]
      BY Zenon, <1>1, <1>2 DEF TypeOK, Place, Return
    <2>2. stack_base' \in [Tid -> BOOLEAN] /\ sie' \in BOOLEAN
      BY Zenon, <1>1 DEF TypeOK, Resume
    <2>3. saved_intr_state' \in [Tid -> BOOLEAN] /\ prev_thread' = NULL
      BY Zenon, <1>1 DEF TypeOK, Resume
    <2>4. QED
      BY Zenon, <1>1, <1>2, <2>1, <2>2, <2>3 DEF TypeOK, lists
  <1>4. ListsAgree'
    <2>1. \A t \in Tid : pc'[t] = "wait" <=> pc[t] = "wait"
      BY Zenon, <1>1, <1>2 DEF TypeOK
    <2>2. QED
      BY <1>1, <1>2, <2>1 DEF ListsAgree, lists
  <1>5. CpuInv'
    BY Zenon, <1>1, <1>2 DEF TypeOK, CpuInv, SwitchedOut
  <1>6. HeadInv'
    BY Zenon, <1>1, <1>2 DEF TypeOK, HeadInv, lists
  <1>7. IdleInv'
    BY Zenon, <1>1, <1>2, ConstantFacts, Zenon DEF TypeOK, CpuInv, SwitchedOut, IdleInv, lists
  <1>8. TreeInv'
    BY Zenon, <1>1, <1>2, TreeKept DEF TreeInv
  <1>9. JoinInv'
    <2>1. SUFFICES ASSUME NEW t \in Tid PROVE JoinOf(t)'
      BY Zenon DEF JoinInv
    <2>2. JoinOf(t)
      BY Zenon, <1>1 DEF JoinInv
    <2>3. Children(t)' = Children(t) /\ Zombies(t)' = Zombies(t)
      BY Zenon, <1>2 DEF Children, Zombies
    <2>4. QED
      BY Zenon, <1>1, <1>2, <2>2, <2>3 DEF JoinOf, Joining, TypeOK, lists
  <1>10. QED
    BY Zenon, <1>3, <1>4, <1>5, <1>6, <1>7, <1>8, <1>9 DEF IInv

-----------------------------------------------------------------------------
(* Waking *)

\* A broadcast on a device, lock or alarm condition by the running thread or by
\* a service routine, which leaves every thread where it is or, for an interrupt
\* from user mode, sends the current one on to thread_yield.
LEMMA CondsBroadcastStep ==
    ASSUME IInv, NEW c \in Conds, condition_broadcast(c, state),
           pc[IDLE_TID] # "wfi",
           \/ pc' = pc /\ cont' = cont
           \/ pc[CURTHR] = "user" /\ Suspend("user"),
           sie' \in BOOLEAN,
           UNCHANGED <<parent, stack_base, CURTHR, jtid, swtch, halted>>
    PROVE  IInv'
  <1> DEFINE woken == Range(wait_list[c])
  <1>1. /\ c \in Condition /\ c \notin Tid
        /\ TypeOK /\ ListsAgree /\ CpuInv /\ HeadInv /\ IdleInv /\ TreeInv /\ JoinInv
    BY Zenon, ConstantFacts DEF IInv, Condition
  <1>2. \A t \in Tid : pc'[t] = "wait" <=> pc[t] = "wait"
    BY Zenon DEF Suspend, Goto, IInv, TypeOK
  <1>3. /\ state' \in [Tid -> ThreadState]
        /\ wait_cond' \in [Tid -> Condition \cup {NULL}]
        /\ ready_list' \in Seq(Tid)
        /\ wait_list' \in [Condition -> Seq(Tid)]
        /\ ListsAgree'
    <2>1. state \in [Tid -> ThreadState]
      BY Zenon, <1>1 DEF TypeOK
    <2>2. QED
      BY Zenon, <1>1, <1>2, <2>1, BroadcastLists
  <1>4. /\ woken \subseteq Tid
        /\ \A t \in woken : state[t] = "WAITING" /\ wait_cond[t] = c /\ pc[t] # "wait"
        /\ \A t \in Tid : state'[t] = IF t \in woken THEN "READY" ELSE state[t]
        /\ \A t \in Tid : wait_cond'[t] = IF t \in woken THEN NULL ELSE wait_cond[t]
    BY Zenon, <1>1, WokenFacts DEF condition_broadcast
  <1>5. TypeOK'
    <2>1. pc' \in [Tid -> Place] /\ cont' \in [Tid -> Return]
      <3>1. CASE pc' = pc /\ cont' = cont
        BY Zenon, <3>1, <1>1 DEF TypeOK
      <3>2. CASE Suspend("user")
        BY Zenon, <3>2, <1>1 DEF TypeOK, Suspend, Goto, Place, Return
      <3>3. QED
        BY Zenon, <3>1, <3>2
    <2>2. QED
      BY Zenon, <1>1, <1>3, <2>1 DEF TypeOK, swtch
  <1>6. CpuInv'
    BY SMTT(60), <1>1, <1>4 DEF TypeOK, CpuInv, SwitchedOut, Suspend, Goto, swtch
  <1>7. CURTHR # IDLE_TID /\ pc[CURTHR] # "swtch" => IDLE_TID \in Range(ready_list)
    BY Zenon, <1>1, ConstantFacts DEF CpuInv, SwitchedOut, IdleInv, ListsAgree
  <1>8. HeadInv'
    <2>1. CASE ready_list # <<>>
      BY Zenon, <2>1, <1>1, WokenFacts DEF HeadInv, condition_broadcast, Suspend, Goto, TypeOK
    <2>2. CASE ready_list = <<>>
      <3>1. IDLE_TID \notin Range(ready_list)
        BY <2>2 DEF Range
      <3>2. ready_list' = wait_list[c]
        BY Zenon, <2>2, <1>1, WokenFacts DEF condition_broadcast
      <3>3. CURTHR = IDLE_TID => CURTHR \notin woken
        BY Zenon, <1>1, <1>4 DEF IdleInv
      <3>4. ready_list' # <<>> => Head(ready_list') \in woken
        BY Zenon, <3>2, <1>3, RemoveFacts
      <3>5. QED
        BY Zenon, <1>7, <3>1, <3>3, <3>4, <1>1 DEF HeadInv, Suspend, Goto, TypeOK
    <2>3. QED
      BY Zenon, <2>1, <2>2
  <1>9. IdleInv'
    <2>1. IDLE_TID \notin woken
      BY Zenon, <1>1, <1>4 DEF IdleInv
    <2>2. ready_list # <<>> => ready_list' # <<>>
      BY Zenon, <1>1, WokenFacts DEF condition_broadcast
    <2>3. pc[CURTHR] = "user" => CURTHR # IDLE_TID
      BY Zenon, <1>1 DEF IdleInv
    <2>4. QED
      BY SMTT(60), <2>1, <2>2, <2>3, <1>1, <1>4, ConstantFacts DEF IdleInv, Suspend, Goto, TypeOK
  <1>10. TreeInv'
    BY Zenon, <1>1, <1>4, ConstantFacts, TreeKept DEF TreeInv
  <1>11. JoinInv'
    <2>1. SUFFICES ASSUME NEW t \in Tid PROVE JoinOf(t)'
      BY Zenon DEF JoinInv
    <2>2. JoinOf(t)
      BY Zenon, <1>1 DEF JoinInv
    <2>3. Children(t)' = Children(t) /\ Zombies(t)' = Zombies(t)
      BY Zenon, <1>4 DEF Children, Zombies
    <2>4. t \in woken => cont[t] \notin {"join", "joinany"}
      BY Zenon, <1>1, <1>4, <2>2 DEF JoinOf
    <2>5. CASE pc' = pc /\ cont' = cont
      BY Zenon, <2>2, <2>3, <2>4, <2>5, <1>4, <1>1 DEF JoinOf, Joining, Children, TypeOK
    <2>6. CASE pc[CURTHR] = "user" /\ Suspend("user")
      BY Zenon, <2>2, <2>3, <2>4, <2>6, <1>4, <1>1 DEF JoinOf, Joining, Children, TypeOK, CpuInv, Suspend, Goto
    <2>7. QED
      BY Zenon, <2>5, <2>6
  <1>12. QED
    BY Zenon, <1>3, <1>5, <1>6, <1>8, <1>9, <1>10, <1>11 DEF IInv

LEMMA ThreadBroadcastStep == ASSUME IInv, NEW c \in Conds, ThreadBroadcast(c) PROVE IInv'
  <1>1. pc[IDLE_TID] # "wfi"
    BY Zenon, ConstantFacts DEF IInv, CpuInv, SwitchedOut, ThreadBroadcast, At
  <1>2. sie' \in BOOLEAN
    BY Zenon DEF IInv, TypeOK, ThreadBroadcast
  <1>3. QED
    BY Zenon, <1>1, <1>2, CondsBroadcastStep DEF ThreadBroadcast

LEMMA KernelInterruptStep == ASSUME IInv, NEW c \in Conds, KernelInterrupt(c) PROVE IInv'
  <1>1. pc[IDLE_TID] # "wfi"
    BY Zenon DEF IInv, IdleInv, KernelInterrupt
  <1>2. sie' \in BOOLEAN
    BY Zenon DEF IInv, TypeOK, KernelInterrupt
  <1>3. QED
    BY Zenon, <1>1, <1>2, CondsBroadcastStep DEF KernelInterrupt

LEMMA UserInterruptStep == ASSUME IInv, NEW c \in Conds, UserInterrupt(c) PROVE IInv'
  <1>1. pc[IDLE_TID] # "wfi"
    BY Zenon, ConstantFacts DEF IInv, CpuInv, SwitchedOut, UserInterrupt, At
  <1>2. sie' \in BOOLEAN
    BY Zenon DEF UserInterrupt
  <1>3. QED
    BY Zenon, <1>1, <1>2, CondsBroadcastStep DEF UserInterrupt, At

-----------------------------------------------------------------------------
(* Exit *)

\* An exiting thread wakes its parent, if that waits for a child, in the same
\* step as it becomes a zombie.
LEMMA thread_exitStep == IInv /\ thread_exit => IInv'
  <1> SUFFICES ASSUME IInv, thread_exit PROVE IInv'
    BY Zenon
  <1>1. CASE Halt("success")
    BY Zenon, <1>1, HaltStep
  <1>2. CASE /\ CURTHR # MAIN_TID
             /\ condition_broadcast(ExitSignal(CURTHR), [state EXCEPT ![CURTHR] = "EXITED"])
             /\ Goto("susp")
             /\ UNCHANGED <<parent, stack_base, CURTHR, sie, cont, jtid, swtch, halted>>
    <2> DEFINE p == parent[CURTHR]
               st == [state EXCEPT ![CURTHR] = "EXITED"]
               woken == Range(wait_list[p])
    <2>1. TypeOK /\ ListsAgree /\ CpuInv /\ HeadInv /\ IdleInv /\ TreeInv /\ JoinInv
      BY Zenon DEF IInv
    <2>2. /\ pc[CURTHR] = "kern" /\ state[CURTHR] = "RUNNING" /\ CURTHR \in Tid
          /\ p \in Tid \ {CURTHR} /\ p \in Condition /\ state[p] # "UNINITIALIZED"
          /\ CURTHR # IDLE_TID
      <3>1. pc[CURTHR] = "kern" /\ state[CURTHR] = "RUNNING" /\ CURTHR \in Tid /\ CURTHR # IDLE_TID
        BY Zenon, <2>1 DEF thread_exit, At, CpuInv, TypeOK, IdleInv
      <3>2. CURTHR \in Live
        BY Zenon, <1>2, <3>1 DEF Live
      <3>3. QED
        BY Zenon, <2>1, <3>1, <3>2, ParentFacts, ConstantFacts
    <2>3. condition_broadcast(p, st)
      BY Zenon, <1>2 DEF ExitSignal
    <2>4. pc' = [pc EXCEPT ![CURTHR] = "susp"] /\ pc \in [Tid -> Place]
      BY Zenon, <1>2, <2>1 DEF Goto, TypeOK
    <2>5. /\ st \in [Tid -> ThreadState]
          /\ \A t \in Tid : st[t] = state[t] \/ (state[t] = "RUNNING" /\ st[t] = "EXITED")
          /\ \A t \in Tid : pc'[t] = "wait" <=> pc[t] = "wait"
      BY Zenon, <2>1, <2>2, <2>4 DEF TypeOK, ThreadState
    <2>6. /\ state' \in [Tid -> ThreadState]
          /\ wait_cond' \in [Tid -> Condition \cup {NULL}]
          /\ ready_list' \in Seq(Tid)
          /\ wait_list' \in [Condition -> Seq(Tid)]
          /\ ListsAgree'
      <3> HIDE DEF p, st
      <3> QED
        BY Zenon, <2>1, <2>2, <2>3, <2>5, BroadcastLists
    <2>7. /\ woken \subseteq Tid /\ CURTHR \notin woken
          /\ \A t \in woken : state[t] = "WAITING" /\ wait_cond[t] = p /\ pc[t] # "wait"
          /\ \A t \in Tid : state'[t] = IF t \in woken THEN "READY" ELSE st[t]
          /\ \A t \in Tid : wait_cond'[t] = IF t \in woken THEN NULL ELSE wait_cond[t]
      BY Zenon, <2>1, <2>2, <2>3, WokenFacts DEF condition_broadcast
    <2>8. /\ state'[CURTHR] = "EXITED"
          /\ \A t \in Tid \ {CURTHR} : state'[t] = IF t \in woken THEN "READY" ELSE state[t]
      BY SMTT(60), <2>1, <2>2, <2>7 DEF TypeOK
    <2> HIDE DEF p, st, woken
    <2>9. TypeOK'
      BY Zenon, <1>2, <2>1, <2>4, <2>6, Zenon DEF TypeOK, Place, swtch
    <2>10. CpuInv'
      BY ZenonT(60), <1>2, <2>1, <2>2, <2>4, <2>7, <2>8 DEF TypeOK, CpuInv, SwitchedOut, swtch
    <2>11. ready_list # <<>> /\ Head(ready_list) # CURTHR
      BY SMTT(60), <2>1, <2>2, ConstantFacts DEF CpuInv, SwitchedOut, IdleInv, ListsAgree, HeadInv, Range
    <2>12. ready_list' # <<>> /\ Head(ready_list') # CURTHR
      BY Zenon, <2>1, <2>2, <2>3, <2>11, WokenFacts DEF condition_broadcast
    <2>13. HeadInv'
      BY Zenon, <1>2, <2>12 DEF HeadInv
    <2>14. IdleInv'
      <3>1. state'[IDLE_TID] = state[IDLE_TID] /\ pc'[IDLE_TID] = pc[IDLE_TID]
        BY Zenon, <2>1, <2>2, <2>4, <2>7, <2>8, ConstantFacts DEF IdleInv
      <3>2. pc[IDLE_TID] \in {"swtch", "start"}
        BY Zenon, <2>1, <2>2, ConstantFacts DEF IdleInv, CpuInv, SwitchedOut
      <3>3. \A t \in Tid \ {IDLE_TID} : pc'[t] \notin {"idle", "mask", "wfi"} /\ cont'[t] # "idle"
        BY Zenon, <1>2, <2>1, <2>2, <2>4 DEF IdleInv
      <3>4. QED
        BY Zenon, <1>2, <2>1, <3>1, <3>2, <3>3 DEF IdleInv
    <2>15. TreeInv'
      <3>1. \A t \in Tid : state'[t] = "UNINITIALIZED" <=> state[t] = "UNINITIALIZED"
        BY Zenon, <2>2, <2>7, <2>8
      <3>2. state'[MAIN_TID] # "EXITED"
        BY Zenon, <1>2, <2>1, <2>8, ConstantFacts DEF TreeInv
      <3>3. QED
        BY Zenon, <1>2, <2>1, <3>1, <3>2, TreeKept
    <2>16. JoinInv'
      <3>1. SUFFICES ASSUME NEW t \in Tid PROVE JoinOf(t)'
        BY Zenon DEF JoinInv
      <3>2. JoinOf(t)
        BY Zenon, <2>1 DEF JoinInv
      <3>3. Children(t)' = Children(t)
        BY Zenon, <1>2, <2>2, <2>7, <2>8 DEF Children
      <3>4. /\ t # p => Zombies(t)' = Zombies(t)
            /\ t = p => CURTHR \in Zombies(t)'
        BY ZenonT(60), <1>2, <3>3, <2>2, <2>7, <2>8, ConstantFacts DEF Children, Zombies, TypeOK, p
      <3>5. CASE t = CURTHR
        BY Zenon, <1>2, <3>2, <3>5, <2>2, <2>4, <2>8 DEF JoinOf, Joining
      <3>6. CASE t # CURTHR /\ t = p
        <4>1. pc[t] = pc'[t] /\ pc[t] # "wait" /\ pc[t] # "joinany" /\ pc[t] # "join"
          BY Zenon, <3>6, <2>1, <2>4 DEF CpuInv, SwitchedOut
        <4>2. state[t] = "WAITING" /\ cont[t] \in {"join", "joinany"} => t \in woken
          BY Zenon, <3>2, <3>6, <4>1, <2>1, <2>2 DEF JoinOf, ListsAgree, woken
        <4>3. QED
          BY Zenon, <1>2, <3>2, <3>3, <3>4, <3>6, <4>1, <4>2, <2>7, <2>8 DEF JoinOf, Joining
      <3>7. CASE t # CURTHR /\ t # p
        <4>1. Joining(t) => jtid[t] # CURTHR /\ jtid[t] \in Tid
          BY Zenon, <3>2, <3>7 DEF JoinOf, Children, p
        <4>2. t \in woken => cont[t] \notin {"join", "joinany"}
          BY Zenon, <3>2, <3>7, <2>7 DEF JoinOf
        <4>3. pc'[t] = pc[t]
          BY Zenon, <3>7, <2>4
        <4>4. QED
          BY Zenon, <1>2, <3>2, <3>3, <3>4, <3>7, <4>1, <4>2, <4>3, <2>7, <2>8 DEF JoinOf, Joining
      <3>8. QED
        BY Zenon, <3>5, <3>6, <3>7
    <2>17. QED
      BY Zenon, <2>6, <2>9, <2>10, <2>13, <2>14, <2>15, <2>16 DEF IInv
  <1>3. QED
    BY Zenon, <1>1, <1>2 DEF thread_exit

-----------------------------------------------------------------------------
(* Steps that only move the running thread *)

LEMMA MoveStep ==
    ASSUME IInv, pc[CURTHR] \in {"user", "kern", "idle", "mask", "wfi"},
           NEW place \in {"user", "kern", "susp", "idle", "mask", "wfi"},
           NEW return \in {"user", "kern", "idle"},
           pc' = [pc EXCEPT ![CURTHR] = place],
           cont' = [cont EXCEPT ![CURTHR] = return],
           return # "kern" => place = "susp",
           IF CURTHR = IDLE_TID
           THEN /\ place \in {"susp", "idle", "mask", "wfi"}
                /\ place = "susp" => return = "idle" /\ ready_list # <<>>
                /\ place = "wfi" => ready_list = <<>> /\ sie' = FALSE
           ELSE place \in {"user", "kern", "susp"} /\ return # "idle",
           sie' \in BOOLEAN,
           UNCHANGED <<state, parent, stack_base, lists, CURTHR, jtid, swtch, halted>>
    PROVE  IInv'
  <1>1. TypeOK /\ ListsAgree /\ CpuInv /\ HeadInv /\ IdleInv /\ TreeInv /\ JoinInv
    BY Zenon DEF IInv
  <1>2. /\ CURTHR \in Tid /\ state[CURTHR] = "RUNNING"
        /\ pc'[CURTHR] = place /\ \A t \in Tid \ {CURTHR} : pc'[t] = pc[t]
        /\ cont'[CURTHR] = return /\ \A t \in Tid \ {CURTHR} : cont'[t] = cont[t]
    BY Zenon, <1>1 DEF TypeOK, CpuInv
  <1>3. TypeOK'
    <2>1. pc' \in [Tid -> Place] /\ cont' \in [Tid -> Return]
      BY Zenon, <1>1 DEF TypeOK, Place, Return
    <2>2. QED
      BY Zenon, <1>1, <2>1 DEF TypeOK, lists, swtch
  <1>4. ListsAgree'
    <2>1. \A t \in Tid : pc'[t] = "wait" <=> pc[t] = "wait"
      BY Zenon, <1>2
    <2>2. QED
      BY ZenonT(60), <1>1, <2>1 DEF ListsAgree, lists
  <1>5. CpuInv' /\ HeadInv'
    BY Zenon, <1>1, <1>2 DEF CpuInv, SwitchedOut, HeadInv, lists, swtch
  <1>6. IdleInv'
    <2>1. CASE CURTHR = IDLE_TID
      BY Zenon, <1>1, <1>2, <2>1 DEF IdleInv, lists
    <2>2. CASE CURTHR # IDLE_TID
      <3>1. pc[IDLE_TID] \in {"swtch", "start"}
        BY Zenon, <1>1, <2>2, ConstantFacts DEF CpuInv, SwitchedOut, IdleInv
      <3>2. QED
        BY Zenon, <1>1, <1>2, <2>2, <3>1, ConstantFacts DEF IdleInv, lists
    <2>3. QED
      BY Zenon, <2>1, <2>2
  <1>7. TreeInv'
    BY Zenon, <1>1, TreeKept DEF TreeInv
  <1>8. JoinInv'
    <2>1. SUFFICES ASSUME NEW t \in Tid PROVE JoinOf(t)'
      BY Zenon DEF JoinInv
    <2>2. JoinOf(t)
      BY Zenon, <1>1 DEF JoinInv
    <2>3. Children(t)' = Children(t) /\ Zombies(t)' = Zombies(t)
      BY Zenon DEF Children, Zombies
    <2>4. QED
      BY Zenon, <1>2, <2>2, <2>3 DEF JoinOf, Joining, lists
  <1>9. QED
    BY Zenon, <1>3, <1>4, <1>5, <1>6, <1>7, <1>8 DEF IInv

\* System calls, returns to user mode, yields, ticks and the idle loop.
LEMMA MovesStep ==
    ASSUME IInv,
           Syscall \/ ReturnToUser \/ SetIntr \/ thread_yield \/ Tick \/ IdleLoop \/ IdleMask \/ IdleWake
    PROVE  IInv'
  <1>1. /\ CURTHR \in Tid /\ pc \in [Tid -> Place] /\ cont \in [Tid -> Return] /\ sie \in BOOLEAN
        /\ CURTHR = IDLE_TID => pc[CURTHR] \notin {"user", "kern"}
        /\ CURTHR # IDLE_TID => pc[CURTHR] \notin {"idle", "mask", "wfi"}
        /\ pc[CURTHR] \in {"user", "kern", "idle", "mask", "wfi"} => cont[CURTHR] = "kern"
    BY Zenon DEF IInv, TypeOK, IdleInv, JoinInv, JoinOf
  <1>2. cont[CURTHR] = "kern" => cont = [cont EXCEPT ![CURTHR] = "kern"]
    BY Zenon, <1>1
  <1>3. CASE Syscall
    BY Zenon, <1>1, <1>2, <1>3, MoveStep, Zenon DEF Syscall, At, Goto
  <1>4. CASE ReturnToUser
    BY Zenon, <1>1, <1>2, <1>4, MoveStep DEF ReturnToUser, At, Goto
  <1>5. CASE SetIntr
    <2>1. pc' = [pc EXCEPT ![CURTHR] = "kern"]
      BY Zenon, <1>1, <1>5 DEF SetIntr, At
    <2>2. sie' \in BOOLEAN
      BY Zenon, <1>1, <1>5 DEF SetIntr
    <2>3. QED
      BY Zenon, <1>1, <1>2, <1>5, <2>1, <2>2, MoveStep DEF SetIntr, At
  <1>6. CASE thread_yield
    BY Zenon, <1>1, <1>6, MoveStep DEF thread_yield, At, Suspend, Goto
  <1>7. CASE Tick
    BY Zenon, <1>1, <1>7, MoveStep, Zenon DEF Tick, At, Suspend, Goto
  <1>8. CASE IdleLoop
    BY Zenon, <1>1, <1>2, <1>8, MoveStep DEF IdleLoop, At, Suspend, Goto
  <1>9. CASE IdleMask
    BY Zenon, <1>1, <1>2, <1>9, MoveStep, Zenon DEF IdleMask, At, Goto
  <1>10. CASE IdleWake
    BY Zenon, <1>1, <1>2, <1>10, MoveStep DEF IdleWake, At, Goto
  <1>11. QED
    BY Zenon, <1>3, <1>4, <1>5, <1>6, <1>7, <1>8, <1>9, <1>10

-----------------------------------------------------------------------------
(* Join and recycle *)

\* Recycling a zombie of the caller: its children find a live parent, and no
\* other thread's join is disturbed.
LEMMA RecycleStep ==
    ASSUME IInv, NEW c \in Zombies(CURTHR), recycle_thread(c),
           pc[CURTHR] \in {"kern", "join", "joinany"}
    PROVE  IInv'
  <1>1. TypeOK /\ ListsAgree /\ CpuInv /\ HeadInv /\ IdleInv /\ TreeInv /\ JoinInv
    BY Zenon DEF IInv
  <1>2. /\ CURTHR \in Tid /\ c \in Tid /\ c # MAIN_TID /\ state[CURTHR] = "RUNNING" /\ c # CURTHR
        /\ state[c] = "EXITED" /\ parent[c] = CURTHR /\ c # IDLE_TID /\ CURTHR # IDLE_TID
    BY Zenon, <1>1 DEF Zombies, Children, TypeOK, CpuInv, IdleInv
  <1>3. /\ state' = [state EXCEPT ![c] = "UNINITIALIZED"]
        /\ parent' = [t \in Tid |-> IF t = c THEN NULL
                                    ELSE IF parent[t] = c THEN parent[c] ELSE parent[t]]
        /\ pc' = [pc EXCEPT ![c] = "none", ![CURTHR] = "kern"]
        /\ jtid' = [jtid EXCEPT ![CURTHR] = MAIN_TID]
    BY Zenon DEF recycle_thread, Adopted
  <1>rest. UNCHANGED <<lists, CURTHR, sie, cont, next_thread, prev_thread, halted>>
    BY Zenon DEF recycle_thread
  <1>4. cont[CURTHR] = "kern" /\ cont[c] = "kern"
    BY Zenon, <1>1, <1>2 DEF JoinInv, JoinOf
  <1>5. /\ state'[c] = "UNINITIALIZED" /\ \A t \in Tid \ {c} : state'[t] = state[t]
        /\ pc'[c] = "none" /\ pc'[CURTHR] = "kern" /\ \A t \in Tid \ {c, CURTHR} : pc'[t] = pc[t]
        /\ parent'[c] = NULL
        /\ \A t \in Tid \ {c} : parent'[t] = IF parent[t] = c THEN CURTHR ELSE parent[t]
    BY Zenon, <1>1, <1>2, <1>3 DEF TypeOK
  <1>6. TypeOK'
    <2>1. /\ state' \in [Tid -> ThreadState] /\ parent' \in [Tid -> Tid \cup {NULL}]
          /\ pc' \in [Tid -> Place] /\ jtid' \in [Tid -> Tid]
      BY Zenon, <1>1, <1>2, <1>3, ConstantFacts, Zenon DEF TypeOK, ThreadState, Place
    <2>2. stack_base' \in [Tid -> BOOLEAN] /\ saved_intr_state' \in [Tid -> BOOLEAN]
      BY Zenon, <1>1, Zenon DEF TypeOK, recycle_thread
    <2>3. QED
      BY Zenon, <1>1, <1>rest, <2>1, <2>2 DEF TypeOK, lists
  <1>7. ListsAgree'
    <2>1. \A t \in Tid : /\ state'[t] = "READY" <=> state[t] = "READY"
                         /\ state'[t] = "WAITING" <=> state[t] = "WAITING"
                         /\ pc'[t] = "wait" <=> pc[t] = "wait"
      BY Zenon, <1>1, <1>2, <1>5 DEF CpuInv, SwitchedOut
    <2>2. QED
      BY Zenon, <1>1, <1>rest, <2>1 DEF ListsAgree, lists
  <1>8. CpuInv'
    BY SMTT(60), <1>1, <1>2, <1>rest, <1>5 DEF CpuInv, SwitchedOut
  <1>9. HeadInv'
    BY Zenon, <1>1, <1>2, <1>rest, <1>5 DEF HeadInv, lists
  <1>10. IdleInv'
    BY Zenon, <1>1, <1>2, <1>rest, <1>5, ConstantFacts DEF IdleInv, lists
  <1>11. TreeInv'
    BY Zenon, <1>1, <1>2, TreeAdopts, Zenon DEF recycle_thread
  <1>12. JoinInv'
    <2>1. SUFFICES ASSUME NEW t \in Tid PROVE JoinOf(t)'
      BY Zenon DEF JoinInv
    <2>2. JoinOf(t)
      BY Zenon, <1>1 DEF JoinInv
    <2>3. CASE t = c
      BY Zenon, <1>2, <1>rest, <1>4, <1>5, <2>3 DEF JoinOf, Joining
    <2>4. CASE t = CURTHR
      BY Zenon, <1>2, <1>rest, <1>4, <1>5, <2>4 DEF JoinOf, Joining
    <2>5. CASE t \notin {c, CURTHR}
      <3>1. Children(t)' = Children(t)
        BY Zenon, <1>2, <1>5, <2>5 DEF Children
      <3>2. Zombies(t)' = Zombies(t)
        BY Zenon, <1>2, <1>5, <2>5, <3>1 DEF Zombies, Children
      <3>3. jtid'[t] = jtid[t] /\ jtid[t] \in Tid
        BY Zenon, <1>1, <1>3, <2>5 DEF TypeOK
      <3>4. Joining(t) => jtid[t] # c
        BY Zenon, <1>2, <2>2, <2>5 DEF JoinOf, Children
      <3>5. QED
        BY ZenonT(60), <1>rest, <1>5, <2>2, <2>5, <3>1, <3>2, <3>3, <3>4 DEF JoinOf, Joining, lists
    <2>6. QED
      BY Zenon, <2>3, <2>4, <2>5
  <1>13. QED
    BY Zenon, <1>6, <1>7, <1>8, <1>9, <1>10, <1>11, <1>12 DEF IInv

LEMMA thread_joinStep == ASSUME IInv, NEW c \in Tid, thread_join(c) PROVE IInv'
  <1>1. TypeOK /\ ListsAgree /\ CpuInv /\ HeadInv /\ IdleInv /\ TreeInv /\ JoinInv
    BY Zenon DEF IInv
  <1>2. /\ pc[CURTHR] = "kern" /\ CURTHR \in Tid /\ CURTHR # IDLE_TID /\ state[CURTHR] = "RUNNING"
        /\ pc' = [pc EXCEPT ![CURTHR] = "join"]
        /\ jtid' = [jtid EXCEPT ![CURTHR] = c] /\ c \in Children(CURTHR)
        /\ UNCHANGED <<state, parent, stack_base, lists, CURTHR, sie, cont, swtch, halted>>
    BY Zenon, <1>1 DEF thread_join, At, Goto, Joinable, TypeOK, IdleInv, CpuInv
  <1>3. TypeOK'
    <2>1. pc' \in [Tid -> Place] /\ jtid' \in [Tid -> Tid]
      BY Zenon, <1>1, <1>2 DEF TypeOK, Place
    <2>2. QED
      BY Zenon, <1>1, <1>2, <2>1 DEF TypeOK, lists, swtch
  <1>4. ListsAgree'
    BY Zenon, <1>1, <1>2 DEF TypeOK, ListsAgree, lists
  <1>5. CpuInv' /\ HeadInv' /\ TreeInv'
    BY Zenon, <1>1, <1>2, TreeKept DEF TypeOK, CpuInv, SwitchedOut, HeadInv, TreeInv, lists, swtch
  <1>6. IdleInv'
    BY Zenon, <1>1, <1>2, ConstantFacts DEF TypeOK, IdleInv, lists
  <1>7. JoinInv'
    <2>1. SUFFICES ASSUME NEW t \in Tid PROVE JoinOf(t)'
      BY Zenon DEF JoinInv
    <2>2. JoinOf(t) /\ JoinOf(CURTHR)
      BY Zenon, <1>1, <1>2 DEF JoinInv
    <2>3. Children(t)' = Children(t) /\ Zombies(t)' = Zombies(t)
      BY Zenon, <1>2 DEF Children, Zombies
    <2>4. QED
      BY Zenon, <1>1, <1>2, <2>2, <2>3 DEF JoinOf, Joining, TypeOK, lists
  <1>8. QED
    BY Zenon, <1>3, <1>4, <1>5, <1>6, <1>7 DEF IInv

LEMMA JoinLoopStep == IInv /\ JoinLoop => IInv'
  <1> SUFFICES ASSUME IInv, JoinLoop PROVE IInv'
    BY Zenon
  <1>1. /\ pc[CURTHR] = "join" /\ CURTHR \in Tid /\ CURTHR \in Condition
        /\ jtid[CURTHR] \in Children(CURTHR)
    BY Zenon, ConstantFacts DEF IInv, JoinLoop, At, TypeOK, JoinInv, JoinOf, Joining
  <1>2. CASE state[jtid[CURTHR]] # "EXITED"
    BY Zenon, <1>1, <1>2, BeginWaitStep DEF JoinLoop
  <1>3. CASE state[jtid[CURTHR]] = "EXITED"
    <2>1. jtid[CURTHR] \in Zombies(CURTHR)
      BY Zenon, <1>1, <1>3 DEF Zombies
    <2>2. QED
      BY Zenon, <1>1, <1>3, <2>1, RecycleStep DEF JoinLoop
  <1>4. QED
    BY Zenon, <1>2, <1>3

LEMMA thread_join_anyStep == IInv /\ thread_join_any => IInv'
  <1> SUFFICES ASSUME IInv, thread_join_any PROVE IInv'
    BY Zenon
  <1>1. pc[CURTHR] = "kern" /\ CURTHR \in Condition
    BY Zenon, ConstantFacts DEF IInv, TypeOK, thread_join_any, At
  <1>2. CASE \E c \in Zombies(CURTHR) : IsFirst(c, Zombies(CURTHR)) /\ recycle_thread(c)
    BY Zenon, <1>1, <1>2, RecycleStep
  <1>3. CASE Halt("panic")
    BY Zenon, <1>3, HaltStep
  <1>4. CASE /\ Zombies(CURTHR) = {}
             /\ BeginWait(CURTHR, "joinany")
             /\ UNCHANGED <<parent, stack_base, ready_list, wait_list, CURTHR, sie, jtid, swtch, halted>>
    BY Zenon, <1>1, <1>4, BeginWaitStep
  <1>5. QED
    BY Zenon, <1>2, <1>3, <1>4 DEF thread_join_any

LEMMA JoinAnyWokenStep == IInv /\ JoinAnyWoken => IInv'
  BY Zenon, RecycleStep DEF JoinAnyWoken, At

-----------------------------------------------------------------------------
(* Creation *)

LEMMA thread_spawnStep == IInv /\ thread_spawn => IInv'
  <1> SUFFICES ASSUME IInv, thread_spawn PROVE IInv'
    BY Zenon
  <1>1. TypeOK /\ ListsAgree /\ CpuInv /\ HeadInv /\ IdleInv /\ TreeInv /\ JoinInv
    BY Zenon DEF IInv
  <1>2. PICK c \in FreeSlots :
          /\ state' = [state EXCEPT ![c] = "READY"]
          /\ parent' = [parent EXCEPT ![c] = CURTHR]
          /\ stack_base' = [stack_base EXCEPT ![c] = TRUE]
          /\ ready_list' = tlinsert(ready_list, c)
          /\ pc' = [pc EXCEPT ![c] = "start"]
    BY Zenon DEF thread_spawn
  <1>3. UNCHANGED <<wait_cond, wait_list, CURTHR, sie, cont, jtid, swtch, halted>>
    BY Zenon DEF thread_spawn
  <1>4. /\ pc[CURTHR] = "kern" /\ CURTHR \in Tid /\ state[CURTHR] = "RUNNING"
        /\ c \in Tid /\ c # MAIN_TID /\ state[c] = "UNINITIALIZED" /\ c # CURTHR
        /\ CURTHR # IDLE_TID /\ c # IDLE_TID
    BY Zenon, <1>1 DEF thread_spawn, At, TypeOK, CpuInv, FreeSlots, IdleInv
  <1>5. /\ state'[c] = "READY" /\ \A t \in Tid \ {c} : state'[t] = state[t]
        /\ pc'[c] = "start" /\ \A t \in Tid \ {c} : pc'[t] = pc[t]
        /\ parent'[c] = CURTHR /\ \A t \in Tid \ {c} : parent'[t] = parent[t]
    BY Zenon, <1>1, <1>2, <1>4 DEF TypeOK
  <1>6. TypeOK'
    <2>1. ready_list' \in Seq(Tid)
      BY Zenon, <1>1, <1>2, <1>4, InsertFacts DEF TypeOK
    <2>2. /\ state' \in [Tid -> ThreadState] /\ parent' \in [Tid -> Tid \cup {NULL}]
          /\ pc' \in [Tid -> Place] /\ stack_base' \in [Tid -> BOOLEAN]
      BY Zenon, <1>1, <1>2, <1>4 DEF TypeOK, ThreadState, Place
    <2>3. QED
      BY Zenon, <1>1, <1>3, <2>1, <2>2 DEF TypeOK, swtch
  <1>7. /\ Range(ready_list') = Range(ready_list) \cup {c} /\ IsInjective(ready_list')
        /\ ready_list # <<>> => ready_list' # <<>> /\ Head(ready_list') = Head(ready_list)
    <2>1. ready_list \in Seq(Tid) /\ IsInjective(ready_list) /\ c \notin Range(ready_list) /\ c \in Tid
      BY Zenon, <1>1, <1>4 DEF TypeOK, ListsAgree
    <2>2. ready_list' = tlinsert(ready_list, c)
      BY Zenon, <1>2
    <2>3. QED
      BY Zenon, <2>1, <2>2, InsertFacts, Zenon
  <1>8. ListsAgree'
    <2>1. \A t \in Tid : t \in Range(ready_list') <=> state'[t] = "READY"
      BY <1>1, <1>4, <1>5, <1>7 DEF ListsAgree
    <2>2. \A t \in Tid : /\ state'[t] = "WAITING" <=> state[t] = "WAITING"
                         /\ pc'[t] = "wait" <=> pc[t] = "wait"
      BY Zenon, <1>1, <1>4, <1>5 DEF CpuInv, SwitchedOut
    <2>3. QED
      BY SMTT(60), <1>1, <1>3, <1>7, <2>1, <2>2 DEF ListsAgree
  <1>9. CpuInv'
    BY SMTT(60), <1>1, <1>3, <1>4, <1>5 DEF CpuInv, SwitchedOut, swtch
  <1>10. HeadInv'
    BY Zenon, <1>1, <1>3, <1>4, <1>7, IdleIsReady DEF HeadInv
  <1>11. IdleInv'
    BY Zenon, <1>1, <1>3, <1>4, <1>5, <1>7, ConstantFacts DEF IdleInv, CpuInv, SwitchedOut
  <1>12. TreeInv'
    <2>1. parent' = [parent EXCEPT ![c] = CURTHR] /\ c \in FreeSlots
      BY Zenon, <1>2
    <2>2. /\ state'[c] # "UNINITIALIZED" /\ state'[MAIN_TID] # "EXITED"
          /\ \A t \in Tid \ {c} : state'[t] = "UNINITIALIZED" <=> state[t] = "UNINITIALIZED"
      BY Zenon, <1>1, <1>4, <1>5, ConstantFacts DEF TreeInv
    <2>3. QED
      BY Zenon, <1>1, <1>4, <2>1, <2>2, TreeGrows, Zenon
  <1>13. JoinInv'
    <2>1. SUFFICES ASSUME NEW t \in Tid PROVE JoinOf(t)'
      BY Zenon DEF JoinInv
    <2>2. JoinOf(t)
      BY Zenon, <1>1 DEF JoinInv
    <2>3. Children(t) \subseteq Children(t)' /\ Zombies(t)' = Zombies(t)
      BY Zenon, <1>4, <1>5 DEF Children, Zombies
    <2>4. CASE t = c
      <3>1. cont[t] = "kern"
        BY Zenon, <1>1, <1>4, <2>2, <2>4 DEF JoinOf, CpuInv, SwitchedOut
      <3>2. QED
        BY Zenon, <1>3, <1>5, <2>4, <3>1 DEF JoinOf, Joining
    <2>5. CASE t # c
      <3>1. jtid[t] \in Tid /\ (Joining(t) => jtid[t] # c)
        BY Zenon, <1>1, <1>4, <2>2 DEF JoinOf, Children, TypeOK
      <3>2. QED
        BY Zenon, <1>3, <1>5, <2>2, <2>3, <2>5, <3>1 DEF JoinOf, Joining
    <2>6. QED
      BY Zenon, <2>4, <2>5
  <1>14. QED
    BY Zenon, <1>6, <1>8, <1>9, <1>10, <1>11, <1>12, <1>13 DEF IInv

\* fork runs the child at once: it takes the CPU and the parent is queued.
LEMMA thread_fork_to_userStep == IInv /\ thread_fork_to_user => IInv'
  <1> SUFFICES ASSUME IInv, thread_fork_to_user PROVE IInv'
    BY Zenon
  <1>1. TypeOK /\ ListsAgree /\ CpuInv /\ HeadInv /\ IdleInv /\ TreeInv /\ JoinInv
    BY Zenon DEF IInv
  <1>2. PICK c \in FreeSlots :
          /\ state' = [state EXCEPT ![c] = "RUNNING", ![CURTHR] = "READY"]
          /\ parent' = [parent EXCEPT ![c] = CURTHR]
          /\ stack_base' = [stack_base EXCEPT ![c] = TRUE]
          /\ ready_list' = tlinsert(ready_list, CURTHR)
          /\ pc' = [pc EXCEPT ![c] = "user", ![CURTHR] = "fork"]
          /\ CURTHR' = c
    BY Zenon DEF thread_fork_to_user
  <1>3. UNCHANGED <<wait_cond, wait_list, sie, cont, jtid, swtch, halted>>
    BY Zenon DEF thread_fork_to_user
  <1>4. /\ pc[CURTHR] = "user" /\ CURTHR \in Tid /\ state[CURTHR] = "RUNNING"
        /\ c \in Tid /\ c # MAIN_TID /\ state[c] = "UNINITIALIZED" /\ c # CURTHR
        /\ CURTHR # IDLE_TID /\ c # IDLE_TID /\ pc[c] = "none"
    BY Zenon, <1>1 DEF thread_fork_to_user, At, TypeOK, CpuInv, SwitchedOut, FreeSlots, IdleInv
  <1>5. /\ state'[c] = "RUNNING" /\ state'[CURTHR] = "READY"
        /\ \A t \in Tid \ {c, CURTHR} : state'[t] = state[t]
        /\ pc'[c] = "user" /\ pc'[CURTHR] = "fork" /\ \A t \in Tid \ {c, CURTHR} : pc'[t] = pc[t]
        /\ parent'[c] = CURTHR /\ \A t \in Tid \ {c} : parent'[t] = parent[t]
        /\ CURTHR' = c
    BY Zenon, <1>1, <1>2, <1>4 DEF TypeOK
  <1>6. TypeOK'
    <2>1. ready_list' \in Seq(Tid)
      BY Zenon, <1>1, <1>2, <1>4, InsertFacts DEF TypeOK
    <2>2. /\ state' \in [Tid -> ThreadState] /\ parent' \in [Tid -> Tid \cup {NULL}]
          /\ pc' \in [Tid -> Place] /\ stack_base' \in [Tid -> BOOLEAN]
      BY Zenon, <1>1, <1>2, <1>4, Zenon DEF TypeOK, ThreadState, Place
    <2>3. QED
      BY Zenon, <1>1, <1>3, <1>4, <1>5, <2>1, <2>2 DEF TypeOK, swtch
  <1>7. /\ Range(ready_list') = Range(ready_list) \cup {CURTHR} /\ IsInjective(ready_list')
        /\ ready_list # <<>> => Head(ready_list') = Head(ready_list)
    <2>1. /\ ready_list \in Seq(Tid) /\ IsInjective(ready_list)
          /\ CURTHR \notin Range(ready_list) /\ CURTHR \in Tid
      BY Zenon, <1>1, <1>4 DEF TypeOK, ListsAgree
    <2>2. ready_list' = tlinsert(ready_list, CURTHR)
      BY Zenon, <1>2
    <2>3. QED
      BY Zenon, <2>1, <2>2, InsertFacts, Zenon
  <1>8. ListsAgree'
    <2>1. \A t \in Tid : t \in Range(ready_list') <=> state'[t] = "READY"
      BY SMTT(60), <1>1, <1>4, <1>5, <1>7 DEF ListsAgree
    <2>2. \A t \in Tid : /\ state'[t] = "WAITING" <=> state[t] = "WAITING"
                         /\ pc'[t] = "wait" <=> pc[t] = "wait"
      BY Zenon, <1>4, <1>5
    <2>3. QED
      BY SMTT(60), <1>1, <1>3, <1>7, <2>1, <2>2 DEF ListsAgree
  <1>9. CpuInv'
    BY SMTT(60), <1>1, <1>3, <1>4, <1>5 DEF CpuInv, SwitchedOut, swtch
  <1>10. HeadInv'
    <2>1. ready_list # <<>>
      BY Zenon, <1>4, IdleIsReady
    <2>2. Head(ready_list) \in Range(ready_list)
      BY Zenon, <1>1, <2>1, RemoveFacts DEF TypeOK
    <2>3. c \notin Range(ready_list)
      BY Zenon, <1>1, <1>4 DEF ListsAgree
    <2>4. QED
      BY Zenon, <1>5, <1>7, <2>1, <2>2, <2>3 DEF HeadInv
  <1>11. IdleInv'
    BY ZenonT(60), <1>1, <1>3, <1>4, <1>5, ConstantFacts DEF IdleInv, CpuInv, SwitchedOut
  <1>12. TreeInv'
    <2>1. parent' = [parent EXCEPT ![c] = CURTHR] /\ c \in FreeSlots
      BY Zenon, <1>2
    <2>2. /\ state'[c] # "UNINITIALIZED" /\ state'[MAIN_TID] # "EXITED"
          /\ \A t \in Tid \ {c} : state'[t] = "UNINITIALIZED" <=> state[t] = "UNINITIALIZED"
      BY Zenon, <1>1, <1>4, <1>5, ConstantFacts DEF TreeInv
    <2>3. QED
      BY Zenon, <1>1, <1>4, <2>1, <2>2, TreeGrows, Zenon
  <1>13. JoinInv'
    <2>1. SUFFICES ASSUME NEW t \in Tid PROVE JoinOf(t)'
      BY Zenon DEF JoinInv
    <2>2. JoinOf(t)
      BY Zenon, <1>1 DEF JoinInv
    <2>3. Children(t) \subseteq Children(t)' /\ Zombies(t)' = Zombies(t)
      BY Zenon, <1>4, <1>5 DEF Children, Zombies
    <2>4. CASE t \in {c, CURTHR}
      <3>1. cont[t] = "kern"
        BY Zenon, <1>4, <2>2, <2>4 DEF JoinOf
      <3>2. QED
        BY Zenon, <1>3, <1>5, <2>4, <3>1 DEF JoinOf, Joining
    <2>5. CASE t \notin {c, CURTHR}
      <3>1. jtid[t] \in Tid /\ (Joining(t) => jtid[t] # c)
        BY Zenon, <1>1, <1>4, <2>2 DEF JoinOf, Children, TypeOK
      <3>2. QED
        BY Zenon, <1>3, <1>4, <1>5, <2>2, <2>3, <2>5, <3>1 DEF JoinOf, Joining
    <2>6. QED
      BY Zenon, <2>4, <2>5
  <1>14. QED
    BY Zenon, <1>6, <1>8, <1>9, <1>10, <1>11, <1>12, <1>13 DEF IInv

-----------------------------------------------------------------------------
(* The inductive invariant *)

LEMMA InitIInv == Init => IInv
  <1> SUFFICES ASSUME Init PROVE IInv
    BY Zenon
  <1>1. TypeOK
    <2>1. ready_list \in Seq(Tid) /\ wait_list \in [Condition -> Seq(Tid)]
      <3>1. <<IDLE_TID>> \in Seq(Tid)
        BY ConstantFacts
      <3>2. QED
        BY Zenon, <3>1, EmptySeq, Zenon DEF Init
    <2>2. stack_base \in [Tid -> BOOLEAN]
      <3>1. \A t \in Tid : (t \in {MAIN_TID, IDLE_TID}) \in BOOLEAN
        OBVIOUS
      <3>2. stack_base = [t \in Tid |-> t \in {MAIN_TID, IDLE_TID}]
        BY Zenon DEF Init
      <3>3. QED
        BY Zenon, <3>1, <3>2, Zenon
    <2>3. saved_intr_state \in [Tid -> BOOLEAN] /\ sie \in BOOLEAN
      BY Zenon DEF Init
    <2>4. QED
      BY Zenon, <2>1, <2>2, <2>3, ConstantFacts DEF Init, TypeOK, ThreadState, Place, Return
  <1>2. /\ DOMAIN ready_list = {1} /\ ready_list[1] = IDLE_TID /\ Head(ready_list) = IDLE_TID
        /\ \A c \in Condition : wait_list[c] = <<>>
    BY DEF Init
  <1>3. ListsAgree
    <2>1. Range(ready_list) = {IDLE_TID} /\ \A c \in Condition : Range(wait_list[c]) = {}
      BY <1>2 DEF Range
    <2>2. IsInjective(ready_list) /\ \A c \in Condition : IsInjective(wait_list[c])
      BY <1>2 DEF IsInjective
    <2>3. QED
      BY Zenon, <2>1, <2>2, ConstantFacts DEF Init, ListsAgree
  <1>4. CpuInv /\ HeadInv /\ IdleInv
    BY Zenon, <1>2, ConstantFacts DEF Init, CpuInv, SwitchedOut, HeadInv, IdleInv
  <1>5. TreeInv
    <2>1. Live = {IDLE_TID}
      BY Zenon, ConstantFacts DEF Init, Live
    <2>2. QED
      BY <2>1, ConstantFacts DEF Init, TreeInv, FamilyTree
  <1>6. JoinInv
    BY Zenon, ConstantFacts DEF Init, JoinInv, JoinOf, Joining, Children, Zombies
  <1>7. QED
    BY Zenon, <1>1, <1>3, <1>4, <1>5, <1>6 DEF IInv

LEMMA NextIInv == IInv /\ [Next]_vars => IInv'
  <1> SUFFICES ASSUME IInv, [Next]_vars PROVE IInv'
    BY Zenon
  <1>1. CASE ThreadManager
    BY Zenon, <1>1, WaitInsertStep, SuspendSelfStep, thread_swtchStep, ResumeStep, JoinLoopStep,
       JoinAnyWokenStep, MovesStep DEF ThreadManager
  <1>2. CASE Caller
    <2>1. CASE \E c \in Conds : condition_wait(c) \/ ThreadBroadcast(c)
      BY Zenon, <2>1, condition_waitStep, ThreadBroadcastStep
    <2>2. CASE SpawnPanic
      BY Zenon, <2>2, HaltStep DEF SpawnPanic
    <2>3. CASE \E c \in Tid : thread_join(c)
      BY Zenon, <2>3, thread_joinStep
    <2>4. QED
      BY Zenon, <1>2, <2>1, <2>2, <2>3, thread_spawnStep, thread_fork_to_userStep, thread_exitStep,
         thread_join_anyStep, MovesStep DEF Caller
  <1>3. CASE Interrupt
    BY Zenon, <1>3, MovesStep, KernelInterruptStep, UserInterruptStep DEF Interrupt
  <1>4. CASE UNCHANGED vars
    <2>1. TypeOK' /\ ListsAgree' /\ CpuInv' /\ HeadInv' /\ IdleInv'
      BY SMTT(60), <1>4 DEF IInv, TypeOK, ListsAgree, CpuInv, SwitchedOut, HeadInv, IdleInv, vars, lists, swtch
    <2>2. TreeInv'
      BY Zenon, <1>4, TreeKept DEF IInv, TreeInv, vars
    <2>3. JoinInv'
      BY SMTT(60), <1>4 DEF IInv, JoinInv, JoinOf, Joining, Children, Zombies, vars, lists
    <2>4. QED
      BY Zenon, <2>1, <2>2, <2>3 DEF IInv
  <1>5. QED
    BY Zenon, <1>1, <1>2, <1>3, <1>4 DEF Next, HaltLoop

\* Every step of thread.c, of a service routine and of a client keeps the
\* inductive invariant.
THEOREM Inductive == Spec => []IInv
  BY InitIInv, NextIInv, PTL DEF Spec

-----------------------------------------------------------------------------
(* The properties *)

\* Every variable keeps its type: in particular suspend_self never takes a
\* thread off an empty list and condition_wait always has a condition.
THEOREM TypeCorrect == Spec => []TypeOK
  <1>1. IInv => TypeOK
    BY Zenon DEF IInv
  <1>2. QED
    BY <1>1, Inductive, PTL

\* A thread is on exactly the list its state names, once.
THEOREM ListsCorrect == Spec => []ListsAgree
  <1>1. IInv => ListsAgree
    BY Zenon DEF IInv
  <1>2. QED
    BY <1>1, Inductive, PTL

\* At most one thread is RUNNING, at every step of the context switch.
THEOREM MutualExclusion == Spec => []OneRunning
  <1>1. IInv => OneRunning
    BY Zenon DEF IInv, TypeOK, CpuInv, SwitchedOut, OneRunning, Running
  <1>2. QED
    BY <1>1, Inductive, PTL

\* No thread is switched to itself.
THEOREM NeverSelfSwitch == Spec => []NoSelfSwitch
  <1>1. IInv => NoSelfSwitch
    BY Zenon DEF IInv, CpuInv, NoSelfSwitch
  <1>2. QED
    BY <1>1, Inductive, PTL

\* The idle thread is always there to be switched to.
THEOREM IdleAlwaysRunnable == Spec => []IdleRunnable
  <1>1. IInv => IdleRunnable
    BY Zenon, IdleIsReady, Zenon DEF IInv, IdleInv, IdleRunnable
  <1>2. QED
    BY <1>1, Inductive, PTL

\* The idle thread does not sleep over a ready thread.
THEOREM IdleSleep == Spec => []IdleSleepsWhenIdle
  <1>1. IInv => IdleSleepsWhenIdle
    BY Zenon DEF IInv, IdleInv, IdleSleepsWhenIdle
  <1>2. QED
    BY <1>1, Inductive, PTL

\* The threads of thrtab form a tree rooted at main.
THEOREM TreeCorrect == Spec => []FamilyTree
  <1>1. IInv => FamilyTree
    BY Zenon DEF IInv, TreeInv
  <1>2. QED
    BY <1>1, Inductive, PTL

\* No exit is missed by a parent that waits.
THEOREM JoinCorrect == Spec => []NoMissedExit
  <1>1. ASSUME IInv, NEW t \in Tid, state[t] = "WAITING", cont[t] = "join"
        PROVE  state[jtid[t]] \in {"READY", "RUNNING", "WAITING"}
    BY SMTT(60), <1>1 DEF IInv, TypeOK, ThreadState, JoinInv, JoinOf, Joining, Children
  <1>2. IInv => NoMissedExit
    BY Zenon, <1>1 DEF IInv, JoinInv, JoinOf, NoMissedExit
  <1>3. QED
    BY <1>2, Inductive, PTL

\* suspend_self and idle_thread_func hand the CPU over safely.
THEOREM HandoverCorrect == Spec => []CpuHandover
  BY MutualExclusion, NeverSelfSwitch, IdleAlwaysRunnable, IdleSleep, PTL DEF CpuHandover

\* The assertions of thread.c hold where they are made.
THEOREM AssertionsHold == Spec => []AssertsHold
  <1>1. ASSUME IInv PROVE AssertsHold
    <2>1. TypeOK /\ ListsAgree /\ CpuInv /\ HeadInv /\ IdleInv /\ TreeInv /\ JoinInv
      BY Zenon, <1>1 DEF IInv
    <2>2. pc[CURTHR] = "susp" => ready_list # <<>> /\ state[Head(ready_list)] = "READY"
      <3>1. SUFFICES ASSUME pc[CURTHR] = "susp"
                     PROVE  ready_list # <<>> /\ state[Head(ready_list)] = "READY"
        BY Zenon
      <3>2. ready_list # <<>>
        BY Zenon, <1>1, <2>1, <3>1, IdleIsReady DEF IdleInv
      <3>3. Head(ready_list) \in Tid /\ Head(ready_list) \in Range(ready_list)
        BY Zenon, <2>1, <3>2, RemoveFacts DEF TypeOK
      <3>4. QED
        BY Zenon, <2>1, <3>2, <3>3 DEF ListsAgree
    <2>3. \A c \in Condition : \A t \in Range(wait_list[c]) :
              state[t] = "WAITING" /\ wait_cond[t] = c
      BY Zenon, <2>1, WokenFacts
    <2>4. pc[CURTHR] = "kern" /\ CURTHR # MAIN_TID => parent[CURTHR] # NULL
      <3>1. ASSUME pc[CURTHR] = "kern", CURTHR # MAIN_TID PROVE CURTHR \in Live
        BY Zenon, <2>1, <3>1 DEF TypeOK, CpuInv, Live
      <3>2. QED
        BY Zenon, <2>1, <3>1, ParentFacts, ConstantFacts
    <2>5. pc[CURTHR] = "joinany" => Zombies(CURTHR) # {}
      BY Zenon, <2>1 DEF TypeOK, JoinInv, JoinOf
    <2>6. pc[CURTHR] \in {"kern", "user", "join", "idle"} => state[CURTHR] = "RUNNING"
      BY Zenon, <2>1 DEF CpuInv
    <2>7. QED
      BY Zenon, <2>2, <2>3, <2>4, <2>5, <2>6 DEF AssertsHold
  <1>2. QED
    BY <1>1, Inductive, PTL

-----------------------------------------------------------------------------
(* The order of the ready list and the slots that are freed *)

\* Of two threads in order both are on the list, and they differ when no thread
\* is on it twice.
LEMMA BeforeFacts ==
    ASSUME NEW s \in Seq(Tid), NEW a, NEW b, Before(s, a, b)
    PROVE  a \in Range(s) /\ b \in Range(s) /\ (IsInjective(s) => a # b)
  <1>1. PICK i \in DOMAIN s, j \in DOMAIN s : i < j /\ s[i] = a /\ s[j] = b
    BY Zenon DEF Before
  <1>2. i # j
    BY <1>1
  <1>3. QED
    BY Zenon, <1>1, <1>2 DEF Range, IsInjective

\* tlinsert keeps the order of the list and puts its thread behind all others.
LEMMA InsertOrder ==
    ASSUME NEW s \in Seq(Tid), NEW x \in Tid, NEW a, NEW b
    PROVE  /\ Before(s, a, b) => Before(tlinsert(s, x), a, b)
           /\ a \in Range(s) => Before(tlinsert(s, x), a, x)
  <1> DEFINE u == tlinsert(s, x)
  <1>1. /\ DOMAIN u = 1 .. Len(s) + 1 /\ DOMAIN s = 1 .. Len(s) /\ Len(s) \in Nat
        /\ u[Len(s) + 1] = x /\ \A i \in 1 .. Len(s) : u[i] = s[i]
    BY DEF tlinsert
  <1> HIDE DEF u
  <1>2. Before(s, a, b) => Before(u, a, b)
    BY <1>1 DEF Before
  <1>3. ASSUME a \in Range(s) PROVE Before(u, a, x)
    <2>1. PICK i \in 1 .. Len(s) : s[i] = a
      BY Zenon, <1>1, <1>3 DEF Range
    <2>2. i \in DOMAIN u /\ Len(s) + 1 \in DOMAIN u /\ i < Len(s) + 1 /\ u[i] = a
      BY <1>1, <2>1
    <2>3. QED
      BY Zenon, <1>1, <2>2 DEF Before
  <1>4. QED
    BY Zenon, <1>2, <1>3 DEF u

\* tlremove keeps the order of the threads behind the head.
LEMMA RemoveOrder ==
    ASSUME NEW s \in Seq(Tid), s # <<>>, NEW a, NEW b, Before(s, a, b), a # Head(s)
    PROVE  Before(Tail(s), a, b)
  <1>1. /\ Len(s) \in Nat \ {0} /\ DOMAIN s = 1 .. Len(s) /\ Head(s) = s[1]
        /\ DOMAIN Tail(s) = 1 .. Len(s) - 1
        /\ \A i \in 1 .. Len(s) - 1 : Tail(s)[i] = s[i + 1]
    OBVIOUS
  <1>2. PICK i \in DOMAIN s, j \in DOMAIN s : i < j /\ s[i] = a /\ s[j] = b
    BY Zenon DEF Before
  <1>3. /\ i - 1 \in DOMAIN Tail(s) /\ j - 1 \in DOMAIN Tail(s) /\ i - 1 < j - 1
        /\ (i - 1) + 1 = i /\ (j - 1) + 1 = j
    BY <1>1, <1>2
  <1>4. Tail(s)[i - 1] = a /\ Tail(s)[j - 1] = b
    BY Zenon, <1>1, <1>2, <1>3
  <1>5. QED
    BY Zenon, <1>3, <1>4 DEF Before

\* tlappend keeps the order of both lists and puts the second behind the first.
LEMMA AppendOrder ==
    ASSUME NEW s \in Seq(Tid), NEW t \in Seq(Tid), NEW a, NEW b
    PROVE  /\ Before(s, a, b) => Before(tlappend(s, t), a, b)
           /\ Before(t, a, b) => Before(tlappend(s, t), a, b)
           /\ a \in Range(s) /\ b \in Range(t) => Before(tlappend(s, t), a, b)
  <1> DEFINE u == tlappend(s, t)
  <1>1. /\ DOMAIN u = 1 .. Len(s) + Len(t)
        /\ DOMAIN s = 1 .. Len(s) /\ DOMAIN t = 1 .. Len(t) /\ Len(s) \in Nat /\ Len(t) \in Nat
        /\ \A i \in 1 .. Len(s) : u[i] = s[i]
        /\ \A i \in 1 .. Len(t) : u[i + Len(s)] = t[i]
    BY DEF tlappend
  <1> HIDE DEF u
  <1>2. Before(s, a, b) => Before(u, a, b)
    BY <1>1 DEF Before
  <1>3. ASSUME Before(t, a, b) PROVE Before(u, a, b)
    <2>1. PICK i \in 1 .. Len(t), j \in 1 .. Len(t) : i < j /\ t[i] = a /\ t[j] = b
      BY Zenon, <1>1, <1>3 DEF Before
    <2>2. i + Len(s) \in DOMAIN u /\ j + Len(s) \in DOMAIN u /\ i + Len(s) < j + Len(s)
      BY <1>1, <2>1
    <2>3. QED
      BY Zenon, <1>1, <2>1, <2>2 DEF Before
  <1>4. ASSUME a \in Range(s), b \in Range(t) PROVE Before(u, a, b)
    <2>1. PICK i \in 1 .. Len(s) : s[i] = a
      BY Zenon, <1>1, <1>4 DEF Range
    <2>2. PICK j \in 1 .. Len(t) : t[j] = b
      BY Zenon, <1>1, <1>4 DEF Range
    <2>3. i \in DOMAIN u /\ j + Len(s) \in DOMAIN u /\ i < j + Len(s)
      BY <1>1, <2>1, <2>2
    <2>4. QED
      BY Zenon, <1>1, <2>1, <2>2, <2>3 DEF Before
  <1>5. QED
    BY Zenon, <1>2, <1>3, <1>4 DEF u

\* a is entitled to run before b: it is ahead on the ready list, already there
\* when b is not, or ahead on the list of a condition.
Ahead(a, b) ==
    \/ Before(ready_list, a, b)
    \/ a \in Range(ready_list) /\ b \notin Range(ready_list)
    \/ \E c \in Condition : Before(wait_list[c], a, b)

\* The step keeps the order of any two threads it leaves on the ready list.
OrderKept ==
    \A a, b \in Tid : Ahead(a, b) /\ {a, b} \subseteq Range(ready_list') => Before(ready_list', a, b)

\* Two threads in order on the list of a condition are different and not ready.
LEMMA WaitersFacts ==
    ASSUME TypeOK, ListsAgree, NEW c \in Condition, NEW a, NEW b, Before(wait_list[c], a, b)
    PROVE  /\ a # b /\ a \notin Range(ready_list) /\ b \notin Range(ready_list)
           /\ \A d \in Condition : a \in Range(wait_list[d]) => d = c
  <1>1. wait_list[c] \in Seq(Tid) /\ IsInjective(wait_list[c])
    BY Zenon DEF TypeOK, ListsAgree
  <1>2. a \in Range(wait_list[c]) /\ b \in Range(wait_list[c]) /\ a # b
    BY Zenon, <1>1, BeforeFacts
  <1>3. a \in Tid /\ b \in Tid /\ state[a] = "WAITING" /\ state[b] = "WAITING" /\ wait_cond[a] = c
    BY Zenon, <1>2, WokenFacts
  <1>4. QED
    BY Zenon, <1>2, <1>3 DEF ListsAgree

\* A step that leaves the ready list alone.
LEMMA SameOrder ==
    ASSUME TypeOK, ListsAgree, ready_list' = ready_list
    PROVE  OrderKept
  <1>1. SUFFICES ASSUME NEW a \in Tid, NEW b \in Tid, Ahead(a, b), {a, b} \subseteq Range(ready_list)
                 PROVE  Before(ready_list, a, b)
    BY Zenon DEF OrderKept
  <1>2. QED
    BY Zenon, <1>1, WaitersFacts DEF Ahead

\* A thread that spawns, or forks, queues one thread.
LEMMA QueuedOrder ==
    ASSUME TypeOK, ListsAgree, NEW x \in Tid, ready_list' = tlinsert(ready_list, x)
    PROVE  OrderKept
  <1>1. SUFFICES ASSUME NEW a \in Tid, NEW b \in Tid, Ahead(a, b), {a, b} \subseteq Range(ready_list')
                 PROVE  Before(ready_list', a, b)
    BY Zenon DEF OrderKept
  <1>2. ready_list \in Seq(Tid) /\ Range(ready_list') = Range(ready_list) \cup {x}
    BY Zenon, InsertFacts DEF TypeOK
  <1>3. CASE Before(ready_list, a, b)
    BY Zenon, <1>2, <1>3, InsertOrder
  <1>4. CASE a \in Range(ready_list) /\ b \notin Range(ready_list)
    <2>1. b = x
      BY Zenon, <1>1, <1>2, <1>4
    <2>2. QED
      BY Zenon, <1>2, <1>4, <2>1, InsertOrder
  <1>5. CASE \E c \in Condition : Before(wait_list[c], a, b)
    BY Zenon, <1>1, <1>2, <1>5, WaitersFacts
  <1>6. QED
    BY Zenon, <1>1, <1>3, <1>4, <1>5 DEF Ahead

\* condition_broadcast queues the waiters of a condition in their order.
LEMMA BroadcastOrder ==
    ASSUME TypeOK, ListsAgree, NEW c \in Condition,
           ready_list' = tlappend(ready_list, wait_list[c])
    PROVE  OrderKept
  <1>1. SUFFICES ASSUME NEW a \in Tid, NEW b \in Tid, Ahead(a, b), {a, b} \subseteq Range(ready_list')
                 PROVE  Before(ready_list', a, b)
    BY Zenon DEF OrderKept
  <1>2. /\ ready_list \in Seq(Tid) /\ wait_list[c] \in Seq(Tid)
        /\ Range(ready_list') = Range(ready_list) \cup Range(wait_list[c])
    BY Zenon, WokenFacts DEF TypeOK
  <1>3. CASE Before(ready_list, a, b)
    BY Zenon, <1>2, <1>3, AppendOrder
  <1>4. CASE a \in Range(ready_list) /\ b \notin Range(ready_list)
    BY Zenon, <1>1, <1>2, <1>4, AppendOrder
  <1>5. CASE \E d \in Condition : Before(wait_list[d], a, b)
    <2>1. PICK d \in Condition : Before(wait_list[d], a, b)
      BY Zenon, <1>5
    <2>2. a \in Range(wait_list[c])
      BY Zenon, <1>1, <1>2, <2>1, WaitersFacts
    <2>3. d = c
      BY Zenon, <2>1, <2>2, WaitersFacts
    <2>4. QED
      BY Zenon, <1>2, <2>1, <2>3, AppendOrder
  <1>6. QED
    BY Zenon, <1>1, <1>3, <1>4, <1>5 DEF Ahead

\* suspend_self takes the head off the list, which is never its caller, and may
\* queue its caller.
LEMMA SuspendOrder ==
    ASSUME TypeOK, ListsAgree, HeadInv, SuspendSelf
    PROVE  OrderKept
  <1> DEFINE next == Head(ready_list)
             rest == Tail(ready_list)
             requeue == StillRunning([state EXCEPT ![next] = "RUNNING"])
  <1>1. SUFFICES ASSUME NEW a \in Tid, NEW b \in Tid, Ahead(a, b), {a, b} \subseteq Range(ready_list')
                 PROVE  Before(ready_list', a, b)
    BY Zenon DEF OrderKept
  <1>2. /\ ready_list \in Seq(Tid) /\ ready_list # <<>> /\ rest \in Seq(Tid) /\ CURTHR \in Tid
        /\ next \in Tid /\ next \in Range(ready_list)
        /\ Range(rest) = Range(ready_list) \ {next}
    BY Zenon, RemoveFacts DEF TypeOK, ListsAgree, SuspendSelf
  <1>3. ready_list' = IF requeue THEN tlinsert(rest, CURTHR) ELSE rest
    BY Zenon DEF SuspendSelf
  <1>4. Range(ready_list') = IF requeue THEN Range(rest) \cup {CURTHR} ELSE Range(rest)
    <2> HIDE DEF next, rest, requeue
    <2>1. QED
      BY Zenon, <1>2, <1>3, InsertFacts
  <1>5. next # CURTHR /\ (requeue => CURTHR \notin Range(ready_list))
    BY Zenon, <1>2 DEF StillRunning, TypeOK, ListsAgree, HeadInv, SuspendSelf, At
  <1> HIDE DEF next, requeue
  <1>6. CASE Before(ready_list, a, b)
    <2>1. ASSUME a # next PROVE Before(ready_list', a, b)
      <3>1. Before(rest, a, b)
        BY Zenon, <1>2, <1>6, <2>1, RemoveOrder DEF next
      <3> HIDE DEF rest
      <3>2. QED
        BY Zenon, <1>2, <1>3, <3>1, InsertOrder
    <2>2. QED
      BY Zenon, <1>1, <1>2, <1>4, <1>5, <2>1
  <1> HIDE DEF rest
  <1>7. CASE a \in Range(ready_list) /\ b \notin Range(ready_list)
    <2>1. requeue /\ b = CURTHR /\ b # next
      BY Zenon, <1>1, <1>2, <1>4, <1>7
    <2>2. a \in Range(rest)
      BY Zenon, <1>1, <1>2, <1>4, <1>7, <2>1
    <2>3. QED
      BY Zenon, <1>2, <1>3, <2>1, <2>2, InsertOrder
  <1>8. CASE \E c \in Condition : Before(wait_list[c], a, b)
    BY <1>1, <1>2, <1>4, <1>8, WaitersFacts
  <1>9. QED
    BY Zenon, <1>1, <1>6, <1>7, <1>8 DEF Ahead
\* No step of thread.c or of a service routine lets a thread overtake another.
LEMMA StepOrder == IInv /\ [Next]_vars => OrderKept
  <1> SUFFICES ASSUME IInv, [Next]_vars PROVE OrderKept
    BY Zenon
  <1>1. TypeOK /\ ListsAgree /\ HeadInv /\ CURTHR \in Tid
    BY Zenon DEF IInv, TypeOK
  <1>2. ASSUME NEW c \in Condition, NEW st, condition_broadcast(c, st) PROVE OrderKept
    BY Zenon, <1>1, <1>2, BroadcastOrder DEF condition_broadcast
  <1>3. CASE ThreadManager
    <2>1. CASE SuspendSelf
      BY Zenon, <1>1, <2>1, SuspendOrder
    <2>2. CASE ~SuspendSelf
      <3>1. ready_list' = ready_list
        BY Zenon, <1>3, <2>2 DEF ThreadManager, WaitInsert, thread_swtch, Resume, JoinLoop, JoinAnyWoken,
           recycle_thread, IdleLoop, IdleMask, IdleWake, lists
      <3>2. QED
        BY Zenon, <1>1, <3>1, SameOrder
    <2>3. QED
      BY Zenon, <2>1, <2>2
  <1>4. CASE thread_spawn
    <2>1. PICK x \in Tid : ready_list' = tlinsert(ready_list, x)
      BY Zenon, <1>4 DEF thread_spawn, FreeSlots
    <2>2. QED
      BY Zenon, <1>1, <2>1, QueuedOrder
  <1>5. CASE thread_fork_to_user
    <2>1. ready_list' = tlinsert(ready_list, CURTHR)
      BY Zenon, <1>5 DEF thread_fork_to_user
    <2>2. QED
      BY Zenon, <1>1, <2>1, QueuedOrder
  <1>6. CASE thread_exit
    <2>1. CASE CURTHR = MAIN_TID
      <3>1. ready_list' = ready_list
        BY Zenon, <1>6, <2>1 DEF thread_exit, Halt, lists
      <3>2. QED
        BY Zenon, <1>1, <3>1, SameOrder
    <2>2. CASE CURTHR # MAIN_TID
      <3>1. pc[CURTHR] = "kern" /\ condition_broadcast(parent[CURTHR], [state EXCEPT ![CURTHR] = "EXITED"])
        BY Zenon, <1>6, <2>2 DEF thread_exit, At, ExitSignal
      <3>2. CURTHR \in Live
        BY Zenon, <1>1, <2>2, <3>1 DEF IInv, CpuInv, Live
      <3>3. parent[CURTHR] \in Condition
        BY Zenon, <3>2, ParentFacts, ConstantFacts DEF IInv
      <3>4. QED
        BY Zenon, <1>2, <3>1, <3>3
    <2>3. QED
      BY Zenon, <2>1, <2>2
  <1>7. CASE \E c \in Conds : ThreadBroadcast(c) \/ KernelInterrupt(c) \/ UserInterrupt(c)
    BY Zenon, <1>2, <1>7 DEF ThreadBroadcast, KernelInterrupt, UserInterrupt, Condition
  <1>8. CASE \/ \E c \in Conds : condition_wait(c)
             \/ thread_yield \/ SpawnPanic \/ thread_join_any \/ \E c \in Tid : thread_join(c)
             \/ Syscall \/ ReturnToUser \/ SetIntr \/ Tick \/ UNCHANGED vars
    <2>1. ready_list' = ready_list
      BY Zenon, <1>8 DEF condition_wait, thread_yield, SpawnPanic, Halt, thread_join_any, recycle_thread,
         thread_join, Syscall, ReturnToUser, SetIntr, Tick, vars, lists
    <2>2. QED
      BY Zenon, <1>1, <2>1, SameOrder
  <1>9. QED
    BY Zenon, <1>3, <1>4, <1>5, <1>6, <1>7, <1>8 DEF Next, Caller, Interrupt, HaltLoop

\* Threads run in the order they became ready, and the waiters of a condition
\* become ready in the order in which they began to wait.
THEOREM FifoCorrect == Spec => FifoOrder
  <1>1. IInv /\ [Next]_vars =>
            [\A a, b \in Tid :
                /\ \/ Before(ready_list, a, b)
                   \/ a \in Range(ready_list) /\ b \notin Range(ready_list)
                   \/ \E c \in Condition : Before(wait_list[c], a, b)
                /\ {a, b} \subseteq Range(ready_list')
                => Before(ready_list', a, b)]_vars
    BY Zenon, StepOrder DEF OrderKept, Ahead
  <1>2. QED
    BY <1>1, Inductive, PTL DEF Spec, FifoOrder

\* A step frees only slots of exited children of the running thread.
FreesChild ==
    \A t \in Tid : state[t] # "UNINITIALIZED" /\ state'[t] = "UNINITIALIZED" =>
        state[t] = "EXITED" /\ parent[t] = CURTHR

\* recycle_thread frees one slot; every other step writes another state.
LEMMA StepFrees == IInv /\ [Next]_vars => FreesChild
  <1> SUFFICES ASSUME IInv, [Next]_vars PROVE FreesChild
    BY Zenon
  <1>1. state \in [Tid -> ThreadState] /\ CURTHR \in Tid /\ ready_list \in Seq(Tid)
    BY Zenon DEF IInv, TypeOK
  <1>2. ASSUME NEW c \in Zombies(CURTHR), recycle_thread(c) PROVE FreesChild
    BY Zenon, <1>1, <1>2 DEF recycle_thread, Zombies, Children, FreesChild
  <1>3. ASSUME NEW c, NEW how, BeginWait(c, how) PROVE FreesChild
    BY Zenon, <1>1, <1>3 DEF BeginWait, FreesChild
  <1>4. ASSUME NEW c, condition_broadcast(c, state) PROVE FreesChild
    BY Zenon, <1>1, <1>4 DEF condition_broadcast, FreesChild
  <1>5. ASSUME state' = state PROVE FreesChild
    BY Zenon, <1>5 DEF FreesChild
  <1>6. CASE SuspendSelf
    BY Zenon, <1>1, <1>6 DEF SuspendSelf, FreesChild
  <1>7. CASE JoinLoop
    <2>1. ASSUME state[jtid[CURTHR]] = "EXITED" PROVE jtid[CURTHR] \in Zombies(CURTHR)
      BY Zenon, <1>1, <1>7, <2>1 DEF IInv, JoinLoop, At, JoinInv, JoinOf, Joining, Zombies
    <2>2. QED
      BY Zenon, <1>2, <1>3, <1>7, <2>1 DEF JoinLoop
  <1>8. CASE JoinAnyWoken \/ thread_join_any
    <2>1. CASE \E c \in Zombies(CURTHR) : recycle_thread(c)
      BY Zenon, <1>2, <2>1
    <2>2. CASE BeginWait(CURTHR, "joinany")
      BY Zenon, <1>3, <2>2
    <2>3. CASE Halt("panic")
      BY Zenon, <1>5, <2>3 DEF Halt
    <2>4. QED
      BY Zenon, <1>8, <2>1, <2>2, <2>3 DEF JoinAnyWoken, thread_join_any
  <1>9. CASE thread_spawn
    BY Zenon, <1>1, <1>9 DEF thread_spawn, FreesChild
  <1>10. CASE thread_fork_to_user
    BY Zenon, <1>1, <1>10 DEF thread_fork_to_user, FreesChild
  <1>11. CASE thread_exit
    BY Zenon, <1>1, <1>11 DEF thread_exit, Halt, condition_broadcast, FreesChild
  <1>12. CASE \E c \in Conds : condition_wait(c)
    BY Zenon, <1>3, <1>12 DEF condition_wait
  <1>13. CASE \E c \in Conds : ThreadBroadcast(c) \/ KernelInterrupt(c) \/ UserInterrupt(c)
    BY Zenon, <1>4, <1>13 DEF ThreadBroadcast, KernelInterrupt, UserInterrupt
  <1>14. CASE \/ WaitInsert \/ thread_swtch \/ Resume \/ IdleLoop \/ IdleMask \/ IdleWake
              \/ thread_yield \/ SpawnPanic \/ \E c \in Tid : thread_join(c)
              \/ Syscall \/ ReturnToUser \/ SetIntr \/ Tick \/ UNCHANGED vars
    <2>1. state' = state
      BY Zenon, <1>14 DEF WaitInsert, thread_swtch, Resume, IdleLoop, IdleMask, IdleWake, thread_yield,
         SpawnPanic, Halt, thread_join, Syscall, ReturnToUser, SetIntr, Tick, vars
    <2>2. QED
      BY Zenon, <1>5, <2>1
  <1>15. QED
    BY Zenon, <1>6, <1>7, <1>8, <1>9, <1>10, <1>11, <1>12, <1>13, <1>14
       DEF Next, ThreadManager, Caller, Interrupt, HaltLoop

\* A slot of thrtab is freed only by the parent of the exited thread in it.
THEOREM SlotsFreedByParent == Spec => FreedByParent
  <1>1. IInv /\ [Next]_vars =>
            [\A t \in Tid : state[t] # "UNINITIALIZED" /\ state'[t] = "UNINITIALIZED" =>
                state[t] = "EXITED" /\ parent[t] = CURTHR]_vars
    BY Zenon, StepFrees DEF FreesChild
  <1>2. QED
    BY <1>1, Inductive, PTL DEF Spec, FreedByParent

=============================================================================
