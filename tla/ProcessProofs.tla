---------------------------- MODULE ProcessProofs ----------------------------
(***************************************************************************)
(* Proofs about Process, for any number of processes, threads, files and   *)
(* descriptors.                                                            *)
(*                                                                         *)
(* As the operations of Process are operators from tables to tables, so    *)
(* the invariant is a predicate of tables, and each operation has a lemma  *)
(* that says that it leads from sound tables to sound tables; a system     *)
(* call combines the lemmas as it combines the operations.                 *)
(***************************************************************************)
EXTENDS Process, FiniteSetTheorems, WellFoundedInduction, TLAPS

Tables ==
  [proctab : [Pid -> Process \cup {NoProcess}], thrtab : [Tid -> Thread],
   refcnt : [Intf -> Nat], flags : [File -> {0, 1}], dropped : [Intf -> Nat],
   opens : 0..OPENS, joined : BOOLEAN, stop : {"no", "halt", "panic", "undefined"}]

Live(s, t) == s.thrtab[t].at \notin {"none", "exited"}
Busy(s, p) == s.proctab[p] # NoProcess

(* Each reference is a descriptor's or has been dropped. *)
Counted(s) == \A i \in Intf : s.refcnt[i] = Cardinality(Held(s, i)) + s.dropped[i]

Flagged(s) == \A f \in File : s.flags[f] = 1 <=> s.refcnt[f] > 0

(* The object of a call that blocks has a reference that nobody takes      *)
(* away: a descriptor of the caller, or a dropped one.                     *)
Pinned(s) ==
  \A t \in Tid :
    /\ s.thrtab[t].at = "io" =>
         \E fd \in Fd : /\ s.thrtab[t].arg \in Intf
                        /\ s.proctab[s.thrtab[t].proc].iotab[fd] = s.thrtab[t].arg
    /\ s.thrtab[t].at \in {"exec", "boot"} =>
         s.thrtab[t].arg \in Intf /\ s.dropped[s.thrtab[t].arg] > 0

Owned(s) == \A t \in Tid : Live(s, t) => s.proctab[s.thrtab[t].proc].tid = t

Emptied(s) ==
  \A p \in Pid :
    Busy(s, p) /\ s.stop # "halt" /\ (\A t \in Tid : Live(s, t) => s.thrtab[t].proc # p)
      => \A fd \in Fd : s.proctab[p].iotab[fd] = NULL

(* Until a thread is joined the entries in use of the two tables have the  *)
(* same numbers.                                                           *)
Numbered(s) ==
  s.joined
  \/ /\ \A p \in Pid : Busy(s, p) => p \in Tid /\ s.proctab[p].tid = p /\ s.thrtab[p].at # "none"
     /\ \A t \in Tid : /\ s.thrtab[t].at # "none" => t \in Pid /\ Busy(s, t)
                       /\ t = 0 => s.thrtab[t].at # "none"

Sound(s) ==
  /\ s \in Tables
  /\ Counted(s) /\ Flagged(s) /\ Pinned(s)
  /\ Owned(s) /\ Emptied(s) /\ Numbered(s)

IInv == Sound(k)

-----------------------------------------------------------------------------
(* Tables and their parts. *)

LEMMA NotNull == NULL \notin Intf
<1>1. \A i \in Intf : 1 \in DOMAIN i
    BY DEF Intf, File, Device, blk0, ser1
<1>2. DOMAIN NULL = {}
    BY DEF NULL
<1> QED BY Zenon, <1>1, <1>2

LEMMA Parts ==
  ASSUME NEW s \in Tables
  PROVE  /\ s.proctab \in [Pid -> Process \cup {NoProcess}] /\ s.thrtab \in [Tid -> Thread]
         /\ s.refcnt \in [Intf -> Nat] /\ s.flags \in [File -> {0, 1}] /\ s.dropped \in [Intf -> Nat]
         /\ s.opens \in 0..OPENS /\ s.joined \in BOOLEAN
         /\ s.stop \in {"no", "halt", "panic", "undefined"}
BY Zenon DEF Tables

(* An entry in use is a process; one whose tid is a thread is in use. *)
LEMMA InUse ==
  ASSUME NEW s \in Tables, NEW p \in Pid
  PROVE  /\ Busy(s, p) => /\ s.proctab[p] \in Process
                          /\ s.proctab[p].iotab \in [Fd -> Intf \cup {NULL}]
         /\ s.proctab[p].tid \in Tid => Busy(s, p)
<1>1. s.proctab[p] \in Process \cup {NoProcess}
    BY Zenon, Parts
<1>2. NoProcess.tid \notin Tid
    BY DEF NoProcess, Tid
<1> QED BY Zenon, <1>1, <1>2 DEF Busy, Process

LEMMA Caller ==
  ASSUME NEW s \in Tables, Owned(s), NEW t \in Tid, Live(s, t)
  PROVE  /\ s.thrtab[t].proc \in Pid /\ Busy(s, s.thrtab[t].proc)
         /\ s.proctab[s.thrtab[t].proc].tid = t
         /\ \A u \in Tid : Live(s, u) /\ s.thrtab[u].proc = s.thrtab[t].proc => u = t
<1>1. \A u \in Tid : s.thrtab[u].proc \in Pid
    BY Zenon, Parts DEF Thread
<1>2. \A u \in Tid : Live(s, u) => s.proctab[s.thrtab[u].proc].tid = u
    BY Zenon DEF Owned
<1> QED BY Zenon, <1>1, <1>2, InUse

-----------------------------------------------------------------------------
(* Counting descriptors. *)

LEMMA HeldFinite ==
  ASSUME NEW s, NEW i
  PROVE  IsFiniteSet(Held(s, i)) /\ Cardinality(Held(s, i)) \in Nat
<1>1. IsFiniteSet(Pid) /\ IsFiniteSet(Fd)
    BY ProcessAssumption, FS_Interval DEF Pid
<1>2. IsFiniteSet(Pid \X Fd)
    BY Zenon, <1>1, FS_Product
<1>3. Held(s, i) \subseteq Pid \X Fd
    BY Zenon DEF Held
<1> QED BY Zenon, <1>2, <1>3, FS_Subset, FS_CardinalityType

(* Tables whose processes have the same descriptors count the same. *)
LEMMA SameHeld ==
  ASSUME NEW s, NEW r, NEW i,
         \A p \in Pid : Busy(r, p) <=> Busy(s, p),
         \A p \in Pid : Busy(s, p) => r.proctab[p].iotab = s.proctab[p].iotab
  PROVE  Held(r, i) = Held(s, i)
BY Zenon DEF Held, Busy

(* The descriptors of one process. *)
Own(p, tab, i) == {p} \X {fd \in Fd : tab[fd] = i}

LEMMA OwnCount ==
  ASSUME NEW p, NEW tab, NEW i
  PROVE  IsFiniteSet(Own(p, tab, i)) /\ Cardinality(Own(p, tab, i)) = Uses(tab, i)
         /\ Uses(tab, i) \in Nat
<1> DEFINE S == {fd \in Fd : tab[fd] = i}
<1>1. IsFiniteSet(S)
    BY Zenon, ProcessAssumption, FS_Subset
<1>2. IsFiniteSet({p}) /\ Cardinality({p}) = 1
    BY Zenon, FS_Singleton
<1>3. Cardinality(S) \in Nat
    BY Zenon, <1>1, FS_CardinalityType
<1> HIDE DEF S
<1>4. IsFiniteSet({p} \X S) /\ Cardinality({p} \X S) = 1 * Cardinality(S)
    BY Zenon, <1>1, <1>2, FS_Product
<1> QED BY <1>3, <1>4 DEF Own, Uses, S

(* What an object's count becomes when one process's descriptors change. *)
LEMMA Recount ==
  ASSUME NEW s, NEW r, NEW p \in Pid, NEW i, Busy(s, p), Busy(r, p),
         \A q \in Pid \ {p} : Busy(r, q) <=> Busy(s, q),
         \A q \in Pid \ {p} : Busy(s, q) => r.proctab[q].iotab = s.proctab[q].iotab
  PROVE  Cardinality(Held(r, i)) = (Cardinality(Held(s, i)) - Uses(s.proctab[p].iotab, i))
                                    + Uses(r.proctab[p].iotab, i)
<1> DEFINE Rest == {d \in Held(s, i) : d[1] # p}
           A == Own(p, s.proctab[p].iotab, i)
           B == Own(p, r.proctab[p].iotab, i)
<1>1. Held(s, i) = Rest \cup A /\ Rest \cap A = {}
    BY Zenon DEF Held, Own, Busy
<1>2. Held(r, i) = Rest \cup B /\ Rest \cap B = {}
    BY DEF Held, Own, Busy
<1>3. IsFiniteSet(Rest) /\ Cardinality(Rest) \in Nat
    BY Zenon, HeldFinite, FS_Subset, FS_CardinalityType
<1>4. /\ IsFiniteSet(A) /\ Cardinality(A) = Uses(s.proctab[p].iotab, i)
      /\ IsFiniteSet(B) /\ Cardinality(B) = Uses(r.proctab[p].iotab, i)
      /\ Uses(s.proctab[p].iotab, i) \in Nat /\ Uses(r.proctab[p].iotab, i) \in Nat
    BY ZenonT(60), OwnCount
<1> HIDE DEF Rest, A, B
<1>5. /\ Cardinality(Rest \cup A) = Cardinality(Rest) + Cardinality(A) - Cardinality(Rest \cap A)
      /\ Cardinality(Rest \cup B) = Cardinality(Rest) + Cardinality(B) - Cardinality(Rest \cap B)
    BY Zenon, <1>3, <1>4, FS_Union
<1>6. Cardinality(Rest \cap A) = 0 /\ Cardinality(Rest \cap B) = 0
    BY Zenon, <1>1, <1>2, FS_EmptySet
<1>7. Cardinality(Held(s, i)) = Cardinality(Rest) + Uses(s.proctab[p].iotab, i)
    BY <1>1, <1>3, <1>4, <1>5, <1>6
<1>8. Cardinality(Held(r, i)) = Cardinality(Rest) + Uses(r.proctab[p].iotab, i)
    BY <1>2, <1>3, <1>4, <1>5, <1>6
<1> QED BY <1>3, <1>4, <1>7, <1>8

(* A new process adds its descriptors. *)
LEMMA CountNew ==
  ASSUME NEW s, NEW r, NEW p \in Pid, NEW i, ~ Busy(s, p), Busy(r, p),
         \A q \in Pid \ {p} : Busy(r, q) <=> Busy(s, q),
         \A q \in Pid \ {p} : Busy(s, q) => r.proctab[q].iotab = s.proctab[q].iotab
  PROVE  Cardinality(Held(r, i)) = Cardinality(Held(s, i)) + Uses(r.proctab[p].iotab, i)
<1> DEFINE H == Held(s, i)
           B == Own(p, r.proctab[p].iotab, i)
<1>1. Held(r, i) = H \cup B /\ H \cap B = {}
    BY DEF Held, Own, Busy
<1>2. IsFiniteSet(H) /\ Cardinality(H) \in Nat
    BY Zenon, HeldFinite
<1>3. /\ IsFiniteSet(B) /\ Cardinality(B) = Uses(r.proctab[p].iotab, i)
      /\ Uses(r.proctab[p].iotab, i) \in Nat
    BY Zenon, OwnCount
<1> HIDE DEF H, B
<1>4. Cardinality(H \cup B) = Cardinality(H) + Cardinality(B) - Cardinality(H \cap B)
    BY Zenon, <1>2, <1>3, FS_Union
<1>5. Cardinality(H \cap B) = 0
    BY Zenon, <1>1, FS_EmptySet
<1>6. Cardinality(Held(r, i)) = Cardinality(H) + Uses(r.proctab[p].iotab, i)
    BY <1>1, <1>2, <1>3, <1>4, <1>5
<1> QED BY Zenon, <1>6 DEF H

(* A process holds an object no more often than all processes do. *)
LEMMA UsesFit ==
  ASSUME NEW s, NEW p \in Pid, NEW i, Busy(s, p)
  PROVE  Uses(s.proctab[p].iotab, i) <= Cardinality(Held(s, i))
<1> DEFINE A == Own(p, s.proctab[p].iotab, i)
<1>1. A \subseteq Held(s, i)
    BY Zenon DEF Held, Own, Busy
<1>2. Cardinality(A) = Uses(s.proctab[p].iotab, i)
    BY Zenon, OwnCount
<1> HIDE DEF A
<1> QED BY Zenon, <1>1, <1>2, HeldFinite, FS_Subset

LEMMA UsesNone ==
  ASSUME NEW i \in Intf
  PROVE  Uses([fd \in Fd |-> NULL], i) = 0
<1>1. {fd \in Fd : [f \in Fd |-> NULL][fd] = i} = {}
    BY Zenon, NotNull
<1> QED BY Zenon, <1>1, FS_EmptySet DEF Uses

(* A descriptor in use counts. *)
LEMMA UsesSome ==
  ASSUME NEW tab, NEW fd \in Fd, NEW i, tab[fd] = i
  PROVE  Uses(tab, i) > 0
<1> DEFINE S == {f \in Fd : tab[f] = i}
<1>1. IsFiniteSet(S) /\ S # {}
    BY Zenon, ProcessAssumption, FS_Subset
<1> HIDE DEF S
<1>2. Cardinality(S) \in Nat /\ Cardinality(S) # 0
    BY Zenon, <1>1, FS_CardinalityType, FS_EmptySet
<1> QED BY <1>2 DEF Uses, S

(* One descriptor changes. *)
LEMMA UsesSet ==
  ASSUME NEW tab, NEW new, NEW fd \in Fd, NEW i,
         \A f \in Fd \ {fd} : new[f] = tab[f]
  PROVE  Uses(new, i) =
           (Uses(tab, i) - (IF tab[fd] = i THEN 1 ELSE 0)) + (IF new[fd] = i THEN 1 ELSE 0)
<1> DEFINE S == {f \in Fd : tab[f] = i}
           T == {f \in Fd : new[f] = i}
           R == {f \in Fd \ {fd} : tab[f] = i}
<1>1. IsFiniteSet(R)
    BY Zenon, ProcessAssumption, FS_Subset
<1>2. S = IF tab[fd] = i THEN R \cup {fd} ELSE R
    BY Zenon
<1>3. T = IF new[fd] = i THEN R \cup {fd} ELSE R
    BY Zenon
<1>4. fd \notin R
    BY Zenon
<1>5. Uses(tab, i) = Cardinality(S) /\ Uses(new, i) = Cardinality(T)
    BY Zenon DEF Uses
<1> HIDE DEF S, T, R
<1>6. Cardinality(R \cup {fd}) = Cardinality(R) + 1 /\ Cardinality(R) \in Nat
    BY Zenon, <1>1, <1>4, FS_AddElement, FS_CardinalityType
<1> QED BY <1>2, <1>3, <1>5, <1>6

-----------------------------------------------------------------------------
(* Operations on sound tables. *)

Arg == Intf \cup {<<u>> : u \in 1..IDLE_TID} \cup {NULL}

(* A live thread goes to another place. *)
LEMMA BlockOK ==
  ASSUME NEW s, Sound(s), NEW t \in Tid, Live(s, t),
         NEW at \in Place \ {"none", "exited"}, NEW arg \in Arg,
         at = "io" => arg \in Intf /\ \E fd \in Fd : s.proctab[s.thrtab[t].proc].iotab[fd] = arg,
         at \in {"exec", "boot"} => arg \in Intf /\ s.dropped[arg] > 0
  PROVE  Sound(Block(s, t, at, arg))
<1> DEFINE r == Block(s, t, at, arg)
<1>1. s \in Tables /\ Counted(s) /\ Flagged(s) /\ Pinned(s) /\ Owned(s) /\ Emptied(s) /\ Numbered(s)
    BY Zenon DEF Sound
<1>2. s.thrtab \in [Tid -> Thread]
    BY Zenon, <1>1, Parts
<1>3. /\ r.proctab = s.proctab /\ r.refcnt = s.refcnt /\ r.flags = s.flags
      /\ r.dropped = s.dropped /\ r.joined = s.joined /\ r.stop = s.stop
      /\ r.thrtab = [s.thrtab EXCEPT ![t] = [s.thrtab[t] EXCEPT !.at = at, !.arg = arg]]
    BY Zenon, <1>1, <1>2 DEF Block, Tables, Thread
<1>4. r \in Tables
    <2>1. [s.thrtab[t] EXCEPT !.at = at, !.arg = arg] \in Thread
        <3>1. Thread = [at : Place, proc : Pid, parent : Tid, arg : Arg]
            BY Zenon DEF Thread, Arg
        <3>2. s.thrtab[t] \in Thread /\ at \in Place /\ arg \in Arg
            BY Zenon, <1>2
        <3> QED BY Zenon, <3>1, <3>2
    <2>2. r.thrtab \in [Tid -> Thread]
        BY Zenon, <1>2, <1>3, <2>1
    <2> QED BY Zenon, <1>1, <2>2 DEF Block, Tables
<1>5. /\ \A u \in Tid : r.thrtab[u].proc = s.thrtab[u].proc /\ (u # t => r.thrtab[u] = s.thrtab[u])
      /\ r.thrtab[t].at = at /\ r.thrtab[t].arg = arg
    BY SMTT(60), <1>2, <1>3 DEF Thread
<1> HIDE DEF r
<1>6. \A u \in Tid : /\ Live(r, u) <=> Live(s, u)
                     /\ r.thrtab[u].at # "none" <=> s.thrtab[u].at # "none"
    BY Zenon, <1>5 DEF Live
<1>7. \A i : Held(r, i) = Held(s, i)
    BY <1>3, SameHeld DEF Busy
<1>8. Counted(r) /\ Flagged(r)
    BY ZenonT(60), <1>1, <1>3, <1>7 DEF Counted, Flagged
<1>9. Pinned(r)
    <2> SUFFICES ASSUME NEW u \in Tid
                 PROVE  /\ r.thrtab[u].at = "io" =>
                             \E fd \in Fd : /\ r.thrtab[u].arg \in Intf
                                            /\ r.proctab[r.thrtab[u].proc].iotab[fd] = r.thrtab[u].arg
                        /\ r.thrtab[u].at \in {"exec", "boot"} =>
                             r.thrtab[u].arg \in Intf /\ r.dropped[r.thrtab[u].arg] > 0
        BY Zenon DEF Pinned
    <2>1. CASE u = t
        BY Zenon, <1>3, <1>5, <2>1
    <2>2. CASE u # t
        <3>1. r.thrtab[u] = s.thrtab[u] /\ r.proctab = s.proctab /\ r.dropped = s.dropped
            BY Zenon, <1>3, <1>5, <2>2
        <3> QED BY Zenon, <1>1, <3>1 DEF Pinned
    <2> QED BY Zenon, <2>1, <2>2
<1>10. Owned(r)
    BY Zenon, <1>1, <1>3, <1>5, <1>6 DEF Owned
<1>11. Emptied(r)
    BY SMTT(60), <1>1, <1>3, <1>5, <1>6 DEF Emptied, Busy
<1>12. Numbered(r)
    BY Zenon, <1>1, <1>3, <1>6 DEF Numbered, Busy
<1>13. Sound(r)
    BY Zenon, <1>4, <1>8, <1>9, <1>10, <1>11, <1>12 DEF Sound
<1> QED BY Zenon, <1>13 DEF r

(* The pending signals of a process change. *)
LEMMA PendOK ==
  ASSUME NEW s, Sound(s), NEW p \in Pid, Busy(s, p), NEW sigs \in SUBSET Nat
  PROVE  Sound([s EXCEPT !.proctab[p].pending = sigs])
<1> DEFINE r == [s EXCEPT !.proctab[p].pending = sigs]
<1>1. s \in Tables /\ Counted(s) /\ Flagged(s) /\ Pinned(s) /\ Owned(s) /\ Emptied(s) /\ Numbered(s)
    BY Zenon DEF Sound
<1>2. s.proctab[p] \in Process /\ s.proctab \in [Pid -> Process \cup {NoProcess}]
    BY Zenon, <1>1, InUse, Parts
<1>3. /\ r.thrtab = s.thrtab /\ r.refcnt = s.refcnt /\ r.flags = s.flags
      /\ r.dropped = s.dropped /\ r.joined = s.joined /\ r.stop = s.stop
      /\ r.proctab = [s.proctab EXCEPT ![p] = [s.proctab[p] EXCEPT !.pending = sigs]]
    BY Zenon, <1>1, <1>2 DEF Tables, Process
<1>4. [s.proctab[p] EXCEPT !.pending = sigs] \in Process
    BY Zenon, <1>2 DEF Process
<1>5. r \in Tables
    <2>1. r.proctab \in [Pid -> Process \cup {NoProcess}]
        BY ZenonT(60), <1>2, <1>3, <1>4
    <2> QED BY Zenon, <1>1, <2>1 DEF Tables
<1> HIDE DEF r
<1>6. /\ \A q \in Pid : q # p => r.proctab[q] = s.proctab[q]
      /\ r.proctab[p].tid = s.proctab[p].tid /\ r.proctab[p].iotab = s.proctab[p].iotab
    BY Zenon, <1>2, <1>3 DEF Process
<1>7. Busy(r, p)
    <2>1. s.proctab[p].tid \in Tid
        BY Zenon, <1>2 DEF Process
    <2> QED BY Zenon, <1>5, <1>6, <2>1, InUse
<1>8. \A q \in Pid : /\ Busy(r, q) <=> Busy(s, q)
                     /\ r.proctab[q].tid = s.proctab[q].tid
                     /\ r.proctab[q].iotab = s.proctab[q].iotab
    BY Zenon, <1>6, <1>7 DEF Busy
<1>9. \A i : Held(r, i) = Held(s, i)
    BY Zenon, <1>8, SameHeld
<1>10. Counted(r) /\ Flagged(r)
    BY ZenonT(60), <1>1, <1>3, <1>9 DEF Counted, Flagged
<1>11. \A t \in Tid : s.thrtab[t].proc \in Pid /\ (Live(r, t) <=> Live(s, t))
    BY ZenonT(60), <1>1, <1>3, Parts DEF Thread, Live
<1>12. Pinned(r)
    BY SMTT(60), <1>1, <1>3, <1>8, <1>11 DEF Pinned
<1>13. Owned(r)
    BY ZenonT(60), <1>1, <1>3, <1>8, <1>11 DEF Owned
<1>14. Emptied(r)
    BY <1>1, <1>3, <1>8, <1>11 DEF Emptied
<1>15. Numbered(r)
    BY Zenon, <1>1, <1>3, <1>8 DEF Numbered
<1>16. Sound(r)
    BY Zenon, <1>5, <1>10, <1>12, <1>13, <1>14, <1>15 DEF Sound
<1> QED BY Zenon, <1>16 DEF r

(* What closing all descriptors of a process leaves: only references of    *)
(* others, and their files open.                                           *)
LEMMA CloseAll ==
  ASSUME NEW s, Sound(s), NEW p \in Pid, Busy(s, p)
  PROVE  LET r == ioclose_all(s, p) IN
         /\ r \in Tables /\ Counted(r) /\ Flagged(r)
         /\ r.thrtab = s.thrtab /\ r.dropped = s.dropped /\ r.joined = s.joined /\ r.stop = s.stop
         /\ \A q \in Pid : q # p => r.proctab[q] = s.proctab[q]
         /\ r.proctab[p].tid = s.proctab[p].tid
         /\ r.proctab[p].pending = s.proctab[p].pending
         /\ \A fd \in Fd : r.proctab[p].iotab[fd] = NULL
<1> DEFINE r == ioclose_all(s, p)
           tab == s.proctab[p].iotab
           none == [fd \in Fd |-> NULL]
<1>1. s \in Tables /\ Counted(s) /\ Flagged(s)
    BY Zenon DEF Sound
<1>2. /\ s.proctab[p] \in Process /\ s.proctab \in [Pid -> Process \cup {NoProcess}]
      /\ s.refcnt \in [Intf -> Nat] /\ s.flags \in [File -> {0, 1}] /\ s.dropped \in [Intf -> Nat]
    BY Zenon, <1>1, InUse, Parts
<1>3. /\ r.thrtab = s.thrtab /\ r.dropped = s.dropped /\ r.joined = s.joined /\ r.stop = s.stop
      /\ r.proctab = [s.proctab EXCEPT ![p] = [s.proctab[p] EXCEPT !.iotab = none]]
      /\ r.refcnt = [i \in Intf |-> IF Uses(tab, i) < s.refcnt[i] THEN s.refcnt[i] - Uses(tab, i) ELSE 0]
      /\ r.flags = [f \in File |-> IF s.refcnt[f] > 0 /\ Uses(tab, f) >= s.refcnt[f]
                                   THEN 0 ELSE s.flags[f]]
      /\ r.opens = s.opens
    BY Zenon, <1>1, <1>2 DEF ioclose_all, Tables, Process
<1>4. \A i \in Intf : Uses(tab, i) \in Nat /\ s.refcnt[i] \in Nat /\ s.dropped[i] \in Nat
    BY Zenon, <1>2, OwnCount
<1>5. [s.proctab[p] EXCEPT !.iotab = none] \in Process
    BY Zenon, <1>2 DEF Process
<1>6. r \in Tables
    <2>1. r.proctab \in [Pid -> Process \cup {NoProcess}]
        BY Zenon, <1>2, <1>3, <1>5
    <2>2. r.refcnt \in [Intf -> Nat]
        BY <1>3, <1>4
    <2>3. r.flags \in [File -> {0, 1}]
        BY ZenonT(60), <1>2, <1>3
    <2> QED BY Zenon, <1>1, <2>1, <2>2, <2>3 DEF ioclose_all, Tables
<1>7. /\ \A q \in Pid : q # p => r.proctab[q] = s.proctab[q]
      /\ r.proctab[p].tid = s.proctab[p].tid /\ r.proctab[p].iotab = none
      /\ r.proctab[p].pending = s.proctab[p].pending
    BY ZenonT(60), <1>2, <1>3 DEF Process
<1> HIDE DEF r, tab, none
<1>8. Busy(r, p)
    <2>1. s.proctab[p].tid \in Tid
        BY Zenon, <1>2 DEF Process
    <2> QED BY Zenon, <1>6, <1>7, <2>1, InUse
<1>9. ASSUME NEW i \in Intf
      PROVE  /\ Cardinality(Held(r, i)) = Cardinality(Held(s, i)) - Uses(tab, i)
             /\ Uses(tab, i) <= Cardinality(Held(s, i))
             /\ s.refcnt[i] = Cardinality(Held(s, i)) + s.dropped[i]
    <2>1. Cardinality(Held(r, i)) = (Cardinality(Held(s, i)) - Uses(tab, i)) + Uses(none, i)
        <3>1. \A q \in Pid \ {p} : /\ Busy(r, q) <=> Busy(s, q)
                                   /\ r.proctab[q].iotab = s.proctab[q].iotab
            BY Zenon, <1>7 DEF Busy
        <3>2. Cardinality(Held(r, i)) = (Cardinality(Held(s, i)) - Uses(s.proctab[p].iotab, i))
                                         + Uses(r.proctab[p].iotab, i)
            BY <1>8, <3>1, Recount
        <3> QED BY Zenon, <1>7, <3>2 DEF tab
    <2>2. Uses(none, i) = 0
        BY Zenon, UsesNone DEF none
    <2>3. Cardinality(Held(s, i)) \in Nat
        BY Zenon, HeldFinite
    <2>4. Uses(tab, i) <= Cardinality(Held(s, i))
        BY Zenon, UsesFit DEF tab
    <2> QED BY <1>1, <1>4, <2>1, <2>2, <2>3, <2>4 DEF Counted
<1>10. \A i \in Intf : r.refcnt[i] = s.refcnt[i] - Uses(tab, i) /\ Cardinality(Held(s, i)) \in Nat
    <2> SUFFICES ASSUME NEW i \in Intf
                 PROVE  r.refcnt[i] = s.refcnt[i] - Uses(tab, i) /\ Cardinality(Held(s, i)) \in Nat
        BY Zenon
    <2>1. Cardinality(Held(s, i)) \in Nat
        BY Zenon, HeldFinite
    <2>2. r.refcnt[i] = IF Uses(tab, i) < s.refcnt[i] THEN s.refcnt[i] - Uses(tab, i) ELSE 0
        BY Zenon, <1>3
    <2> QED BY <1>4, <1>9, <2>1, <2>2
<1>11. Counted(r)
    BY <1>3, <1>4, <1>9, <1>10 DEF Counted
<1>12. Flagged(r)
    <2> SUFFICES ASSUME NEW f \in File PROVE r.flags[f] = 1 <=> r.refcnt[f] > 0
        BY Zenon DEF Flagged
    <2>1. f \in Intf
        BY Zenon DEF Intf
    <2>2. r.refcnt[f] = s.refcnt[f] - Uses(tab, f) /\ Uses(tab, f) \in Nat /\ s.refcnt[f] \in Nat
        BY Zenon, <1>4, <1>10, <2>1
    <2>3. r.flags[f] = IF s.refcnt[f] > 0 /\ Uses(tab, f) >= s.refcnt[f] THEN 0 ELSE s.flags[f]
        BY Zenon, <1>3
    <2>4. s.flags[f] = 1 <=> s.refcnt[f] > 0
        BY Zenon, <1>1 DEF Flagged
    <2> QED BY <2>2, <2>3, <2>4
<1> QED BY Zenon, <1>3, <1>6, <1>7, <1>11, <1>12 DEF r, none

LEMMA ExitOK ==
  ASSUME NEW s, Sound(s), NEW t \in Tid, s.thrtab[t].at \in {"user", "faulting"}, s.stop = "no"
  PROVE  Sound(process_exit(s, t))
<1> DEFINE p == s.thrtab[t].proc
           c == ioclose_all(s, p)
           r == process_exit(s, t)
<1>1. s \in Tables /\ Pinned(s) /\ Owned(s) /\ Emptied(s) /\ Numbered(s) /\ Live(s, t)
    BY Zenon DEF Sound, Live
<1>2. /\ p \in Pid /\ Busy(s, p) /\ s.proctab[p].tid = t
      /\ \A u \in Tid : Live(s, u) /\ s.thrtab[u].proc = p => u = t
    BY Zenon, <1>1, Caller
<1>3. \A u \in Tid : s.thrtab[u].proc \in Pid /\ s.thrtab[u] \in Thread
    BY Zenon, <1>1, Parts DEF Thread
<1> HIDE DEF p
<1>4. /\ c \in Tables /\ Counted(c) /\ Flagged(c)
      /\ c.thrtab = s.thrtab /\ c.dropped = s.dropped /\ c.joined = s.joined /\ c.stop = s.stop
      /\ \A q \in Pid : q # p => c.proctab[q] = s.proctab[q]
      /\ c.proctab[p].tid = s.proctab[p].tid
      /\ \A fd \in Fd : c.proctab[p].iotab[fd] = NULL
    BY Zenon, <1>2, CloseAll
<1>5. r = IF t = 0 THEN [c EXCEPT !.stop = "halt"]
          ELSE [c EXCEPT !.thrtab[t].at = "exited", !.thrtab[t].arg = NULL]
    BY Zenon DEF process_exit, p
<1> HIDE DEF c, r
<1>6. c.thrtab \in [Tid -> Thread]
    BY Zenon, <1>4, Parts
<1>7. /\ r.proctab = c.proctab /\ r.refcnt = c.refcnt /\ r.flags = c.flags
      /\ r.dropped = c.dropped /\ r.joined = c.joined
      /\ \/ r.stop = "halt" /\ r.thrtab = s.thrtab
         \/ r.stop = "no" /\ r.thrtab = [s.thrtab EXCEPT ![t] = [s.thrtab[t] EXCEPT !.at = "exited", !.arg = NULL]]
    BY Zenon, <1>4, <1>5, <1>6 DEF Tables, Thread
<1>8. r \in Tables
    <2>1. [c.thrtab[t] EXCEPT !.at = "exited", !.arg = NULL] \in Thread
        BY Zenon, <1>6 DEF Thread, Place
    <2>2. CASE t = 0
        BY Zenon, <1>4, <1>5, <2>2 DEF Tables
    <2>3. CASE t # 0
        <3>1. r.thrtab \in [Tid -> Thread]
            BY Zenon, <1>4, <1>5, <1>6, <2>1, <2>3 DEF Tables, Thread
        <3> QED BY Zenon, <1>4, <1>5, <2>3, <3>1 DEF Tables
    <2> QED BY Zenon, <2>2, <2>3
<1>9. /\ \A u \in Tid : u # t => r.thrtab[u] = s.thrtab[u]
      /\ r.thrtab[t].at \in {"user", "faulting", "exited"} /\ r.thrtab[t].proc = p
      /\ r.stop # "halt" => r.thrtab[t].at = "exited"
    <2>1. s.thrtab \in [Tid -> Thread]
        BY Zenon, <1>4, <1>6
    <2>2. CASE r.stop = "halt" /\ r.thrtab = s.thrtab
        BY Zenon, <2>2 DEF p
    <2>3. CASE r.stop = "no" /\ r.thrtab = [s.thrtab EXCEPT ![t] =
                                              [s.thrtab[t] EXCEPT !.at = "exited", !.arg = NULL]]
        BY <2>1, <2>3 DEF Thread, p
    <2> QED BY Zenon, <1>7, <2>2, <2>3
<1>10. \A q \in Pid : Busy(r, q) <=> Busy(s, q)
    <2>1. Busy(r, p)
        BY Zenon, <1>2, <1>4, <1>7, <1>8, InUse
    <2> QED BY ZenonT(60), <1>2, <1>4, <1>7, <2>1 DEF Busy
<1>11. Counted(r) /\ Flagged(r)
    <2>1. \A i : Held(r, i) = Held(c, i)
        BY Zenon, <1>7 DEF Held
    <2> QED BY <1>4, <1>7, <2>1 DEF Counted, Flagged
<1>12. Pinned(r)
    <2> SUFFICES ASSUME NEW u \in Tid, r.thrtab[u].at \in {"io", "exec", "boot"}
                 PROVE  /\ r.thrtab[u].at = "io" =>
                             \E fd \in Fd : /\ r.thrtab[u].arg \in Intf
                                            /\ r.proctab[r.thrtab[u].proc].iotab[fd] = r.thrtab[u].arg
                        /\ r.thrtab[u].at \in {"exec", "boot"} =>
                             r.thrtab[u].arg \in Intf /\ r.dropped[r.thrtab[u].arg] > 0
        BY Zenon DEF Pinned
    <2>1. u # t /\ r.thrtab[u] = s.thrtab[u] /\ Live(s, u)
        BY Zenon, <1>9 DEF Live
    <2>2. s.thrtab[u].proc # p /\ r.proctab[s.thrtab[u].proc] = s.proctab[s.thrtab[u].proc]
        BY ZenonT(60), <1>2, <1>3, <1>4, <1>7, <2>1
    <2>3. r.dropped = s.dropped
        BY Zenon, <1>4, <1>7
    <2>4. /\ s.thrtab[u].at = "io" =>
               \E fd \in Fd : /\ s.thrtab[u].arg \in Intf
                              /\ s.proctab[s.thrtab[u].proc].iotab[fd] = s.thrtab[u].arg
          /\ s.thrtab[u].at \in {"exec", "boot"} =>
               s.thrtab[u].arg \in Intf /\ s.dropped[s.thrtab[u].arg] > 0
        BY Zenon, <1>1 DEF Pinned
    <2> QED BY Zenon, <2>1, <2>2, <2>3, <2>4
<1>13. \A q \in Pid : r.proctab[q].tid = s.proctab[q].tid
    BY Zenon, <1>4, <1>7
<1>14. \A u \in Tid : /\ r.thrtab[u].proc = s.thrtab[u].proc /\ (Live(r, u) => Live(s, u))
                      /\ r.thrtab[u].at # "none" <=> s.thrtab[u].at # "none"
    BY Zenon, <1>9 DEF Live, p
<1>15. Owned(r)
    BY Zenon, <1>1, <1>3, <1>13, <1>14 DEF Owned
<1>16. Emptied(r)
    <2> SUFFICES ASSUME NEW q \in Pid, Busy(r, q), r.stop # "halt",
                        \A u \in Tid : Live(r, u) => r.thrtab[u].proc # q
                 PROVE  \A fd \in Fd : r.proctab[q].iotab[fd] = NULL
        BY Zenon DEF Emptied
    <2>1. CASE q = p
        BY Zenon, <1>4, <1>7, <2>1
    <2>2. CASE q # p
        <3>1. \A u \in Tid : Live(s, u) => s.thrtab[u].proc # q
            BY Zenon, <1>9, <2>2 DEF Live, p
        <3>2. Busy(s, q) /\ r.proctab[q] = s.proctab[q] /\ s.stop # "halt"
            BY Zenon, <1>4, <1>7, <1>10, <2>2
        <3> QED BY Zenon, <1>1, <3>1, <3>2 DEF Emptied
    <2> QED BY Zenon, <2>1, <2>2
<1>17. Numbered(r)
    BY ZenonT(60), <1>1, <1>4, <1>7, <1>10, <1>13, <1>14 DEF Numbered
<1>18. Sound(r)
    BY Zenon, <1>8, <1>11, <1>12, <1>15, <1>16, <1>17 DEF Sound
<1> QED BY Zenon, <1>18 DEF r

LEMMA DeliverOK ==
  ASSUME NEW s, Sound(s), NEW t \in Tid, s.thrtab[t].at \in {"user", "faulting"}, s.stop = "no"
  PROVE  Sound(signal_deliver(s, t))
<1> DEFINE p == s.thrtab[t].proc
           ready == (s.proctab[p].pending \ s.proctab[p].blocked) \cap 1..(NSIG - 1)
           sig == CHOOSE x \in ready : \A y \in ready : x <= y
           s1 == [s EXCEPT !.proctab[p].pending = s.proctab[p].pending \ {sig}]
<1>1. s \in Tables /\ Live(s, t) /\ Owned(s)
    BY Zenon DEF Sound, Live
<1>2. p \in Pid /\ Busy(s, p)
    BY Zenon, <1>1, Caller
<1>3. s.proctab[p].pending \ {sig} \in SUBSET Nat
    BY Zenon, <1>1, <1>2, InUse DEF Process
<1>4. Sound(s1)
    <2> HIDE DEF sig, p
    <2> QED BY Zenon, <1>2, <1>3, PendOK
<1>5. s1.thrtab = s.thrtab /\ s1.stop = s.stop
    BY Zenon, <1>1 DEF Tables
<1>6. signal_deliver(s, t) = IF ready = {} THEN s ELSE signal_handle(s1, t, sig)
    BY Zenon DEF signal_deliver
<1> HIDE DEF s1, ready, sig
<1>7. Sound(signal_handle(s1, t, sig))
    BY Zenon, <1>4, <1>5, ExitOK DEF signal_handle
<1> QED BY Zenon, <1>6, <1>7

(* The way back to user mode. *)
LEMMA ReturnOK ==
  ASSUME NEW s, Sound(s), NEW t \in Tid, Live(s, t), s.stop = "no", NEW at \in {"user", "faulting"}
  PROVE  Sound(umode_excp_handler(s, t, at))
<1> DEFINE r == Block(s, t, at, NULL)
<1>1. at \in Place \ {"none", "exited"} /\ at \notin {"io", "exec", "boot"} /\ NULL \in Arg
    BY Zenon DEF Place, Arg
<1>2. Sound(r)
    BY Zenon, <1>1, BlockOK
<1>3. r.thrtab[t].at = at /\ r.stop = "no"
    BY Parts DEF Sound, Tables, Block, Thread
<1>4. umode_excp_handler(s, t, at) = signal_deliver(r, t)
    BY Zenon DEF umode_excp_handler, Block
<1> HIDE DEF r
<1> QED BY Zenon, <1>2, <1>3, <1>4, DeliverOK

LEMMA StopOK ==
  ASSUME NEW s, Sound(s), s.stop = "no", NEW how \in {"panic", "undefined"}
  PROVE  Sound([s EXCEPT !.stop = how])
<1> DEFINE r == [s EXCEPT !.stop = how]
<1>1. /\ r \in Tables /\ r.proctab = s.proctab /\ r.refcnt = s.refcnt /\ r.flags = s.flags
      /\ r.dropped = s.dropped /\ r.joined = s.joined /\ r.thrtab = s.thrtab /\ r.stop = how
    BY Zenon DEF Sound, Tables
<1> HIDE DEF r
<1>2. \A i : Held(r, i) = Held(s, i)
    BY Zenon, <1>1 DEF Held
<1>3. Counted(r) /\ Flagged(r)
    BY ZenonT(60), <1>1, <1>2 DEF Sound, Counted, Flagged
<1>4. Pinned(r) /\ Owned(r) /\ Numbered(r)
    BY SMTT(60), <1>1 DEF Sound, Pinned, Owned, Numbered, Live, Busy
<1>5. Emptied(r)
    BY Zenon, <1>1 DEF Sound, Emptied, Live, Busy
<1>6. Sound(r)
    BY Zenon, <1>1, <1>3, <1>4, <1>5 DEF Sound
<1> QED BY Zenon, <1>6 DEF r

-----------------------------------------------------------------------------
(* One descriptor of the caller changes. *)

WithFd(proctab, p, fd, v) ==
  [proctab EXCEPT ![p] = [proctab[p] EXCEPT !.iotab = [proctab[p].iotab EXCEPT ![fd] = v]]]

LEMMA WithFdType ==
  ASSUME NEW s \in Tables, NEW p \in Pid, Busy(s, p), NEW fd \in Fd, NEW v \in Intf \cup {NULL},
         NEW tab, tab = WithFd(s.proctab, p, fd, v)
  PROVE  /\ tab \in [Pid -> Process \cup {NoProcess}]
         /\ \A q \in Pid : q # p => tab[q] = s.proctab[q]
         /\ tab[p].tid = s.proctab[p].tid /\ tab[p] # NoProcess
         /\ tab[p].iotab[fd] = v
         /\ \A f \in Fd \ {fd} : tab[p].iotab[f] = s.proctab[p].iotab[f]
<1> DEFINE new == [s.proctab[p].iotab EXCEPT ![fd] = v]
<1>1. /\ s.proctab[p] \in Process /\ s.proctab[p].iotab \in [Fd -> Intf \cup {NULL}]
      /\ s.proctab \in [Pid -> Process \cup {NoProcess}]
    BY Zenon, InUse, Parts
<1>2. /\ new \in [Fd -> Intf \cup {NULL}] /\ new[fd] = v
      /\ \A f \in Fd \ {fd} : new[f] = s.proctab[p].iotab[f]
    BY Zenon, <1>1
<1> HIDE DEF new
<1>3. /\ [s.proctab[p] EXCEPT !.iotab = new] \in Process
      /\ [s.proctab[p] EXCEPT !.iotab = new].iotab = new
      /\ [s.proctab[p] EXCEPT !.iotab = new].tid = s.proctab[p].tid
    BY Zenon, <1>1, <1>2 DEF Process
<1>4. \A x \in Process : x # NoProcess
    BY DEF Process, NoProcess, Tid
<1>5. tab = [s.proctab EXCEPT ![p] = [s.proctab[p] EXCEPT !.iotab = new]]
    BY Zenon DEF WithFd, new
<1>6. /\ tab \in [Pid -> Process \cup {NoProcess}]
      /\ \A q \in Pid : q # p => tab[q] = s.proctab[q]
      /\ tab[p] = [s.proctab[p] EXCEPT !.iotab = new]
    BY Zenon, <1>1, <1>3, <1>5
<1>7. tab[p].tid = s.proctab[p].tid /\ tab[p] # NoProcess /\ tab[p].iotab = new
    BY Zenon, <1>3, <1>4, <1>6
<1> QED BY Zenon, <1>2, <1>6, <1>7

LEMMA CountFd ==
  ASSUME NEW s \in Tables, NEW r, NEW p \in Pid, Busy(s, p), NEW fd \in Fd, NEW v \in Intf \cup {NULL},
         r.proctab = WithFd(s.proctab, p, fd, v), NEW i
  PROVE  Cardinality(Held(r, i)) =
           (Cardinality(Held(s, i)) - (IF s.proctab[p].iotab[fd] = i THEN 1 ELSE 0))
             + (IF v = i THEN 1 ELSE 0)
<1> DEFINE old == s.proctab[p].iotab
<1>1. old \in [Fd -> Intf \cup {NULL}]
    BY Zenon, InUse
<1>2. /\ \A q \in Pid \ {p} : r.proctab[q] = s.proctab[q]
      /\ r.proctab[p] # NoProcess /\ r.proctab[p].iotab[fd] = v
      /\ \A f \in Fd \ {fd} : r.proctab[p].iotab[f] = old[f]
    BY WithFdType
<1>3. Busy(r, p) /\ \A q \in Pid \ {p} : /\ Busy(r, q) <=> Busy(s, q)
                                         /\ r.proctab[q].iotab = s.proctab[q].iotab
    BY Zenon, <1>2 DEF Busy
<1>4. Cardinality(Held(r, i)) = (Cardinality(Held(s, i)) - Uses(old, i)) + Uses(r.proctab[p].iotab, i)
    BY <1>3, Recount
<1> HIDE DEF old
<1>5. Uses(r.proctab[p].iotab, i) =
        (Uses(old, i) - (IF old[fd] = i THEN 1 ELSE 0)) + (IF v = i THEN 1 ELSE 0)
    <2> DEFINE new == r.proctab[p].iotab
    <2>1. new[fd] = v /\ \A f \in Fd \ {fd} : new[f] = old[f]
        BY Zenon, <1>1, <1>2
    <2> HIDE DEF new
    <2>2. Uses(new, i) = (Uses(old, i) - (IF old[fd] = i THEN 1 ELSE 0)) + (IF new[fd] = i THEN 1 ELSE 0)
        BY <2>1, UsesSet
    <2> QED BY Zenon, <2>1, <2>2 DEF new
<1>6. Cardinality(Held(s, i)) \in Nat /\ Uses(old, i) \in Nat
    BY Zenon, HeldFinite, OwnCount
<1>7. Cardinality(Held(r, i)) =
        (Cardinality(Held(s, i)) - (IF old[fd] = i THEN 1 ELSE 0)) + (IF v = i THEN 1 ELSE 0)
    BY <1>2, <1>4, <1>5, <1>6
<1> QED BY Zenon, <1>7 DEF old

(* The rest of the invariant does not mind, as the caller runs and holds    *)
(* no object in a call.                                                     *)
LEMMA FdOK ==
  ASSUME NEW s, Sound(s), NEW t \in Tid, s.thrtab[t].at = "user", s.stop = "no",
         NEW fd \in Fd, NEW v \in Intf \cup {NULL},
         NEW r \in Tables, Counted(r), Flagged(r),
         r.proctab = WithFd(s.proctab, s.thrtab[t].proc, fd, v),
         r.thrtab = s.thrtab, r.joined = s.joined, r.stop = s.stop,
         \A i \in Intf : r.dropped[i] >= s.dropped[i]
  PROVE  Sound(r)
<1> DEFINE p == s.thrtab[t].proc
<1>1. s \in Tables /\ Pinned(s) /\ Owned(s) /\ Emptied(s) /\ Numbered(s) /\ Live(s, t)
    BY Zenon DEF Sound, Live
<1>2. /\ p \in Pid /\ Busy(s, p) /\ s.proctab[p].tid = t
      /\ \A u \in Tid : Live(s, u) /\ s.thrtab[u].proc = p => u = t
    BY Zenon, <1>1, Caller
<1>3. /\ \A q \in Pid : q # p => r.proctab[q] = s.proctab[q]
      /\ r.proctab[p].tid = s.proctab[p].tid /\ r.proctab[p] # NoProcess
    <2>1. r.proctab = WithFd(s.proctab, p, fd, v) /\ s \in Tables /\ p \in Pid /\ Busy(s, p)
        BY Zenon, <1>1, <1>2
    <2> HIDE DEF p
    <2> QED BY SMTT(60), <2>1, WithFdType
<1>4. \A q \in Pid : (Busy(r, q) <=> Busy(s, q)) /\ r.proctab[q].tid = s.proctab[q].tid
    BY Zenon, <1>2, <1>3 DEF Busy
<1>5. \A u \in Tid : s.thrtab[u].proc \in Pid /\ (Live(r, u) <=> Live(s, u))
    BY Zenon, <1>1, Parts DEF Thread, Live
<1>6. Pinned(r)
    <2> SUFFICES ASSUME NEW u \in Tid, s.thrtab[u].at \in {"io", "exec", "boot"}
                 PROVE  /\ s.thrtab[u].at = "io" =>
                             \E f \in Fd : /\ s.thrtab[u].arg \in Intf
                                           /\ r.proctab[s.thrtab[u].proc].iotab[f] = s.thrtab[u].arg
                        /\ s.thrtab[u].at \in {"exec", "boot"} =>
                             s.thrtab[u].arg \in Intf /\ r.dropped[s.thrtab[u].arg] > 0
        BY Zenon DEF Pinned
    <2>1. /\ s.thrtab[u].at = "io" =>
               \E f \in Fd : /\ s.thrtab[u].arg \in Intf
                             /\ s.proctab[s.thrtab[u].proc].iotab[f] = s.thrtab[u].arg
          /\ s.thrtab[u].at \in {"exec", "boot"} =>
               s.thrtab[u].arg \in Intf /\ s.dropped[s.thrtab[u].arg] > 0
        BY Zenon, <1>1 DEF Pinned
    <2>2. u # t /\ Live(s, u)
        BY Zenon DEF Live
    <2>3. r.proctab[s.thrtab[u].proc] = s.proctab[s.thrtab[u].proc]
        BY Zenon, <1>2, <1>3, <1>5, <2>2
    <2>4. \A i \in Intf : s.dropped[i] > 0 => r.dropped[i] > 0
        <3>1. \A i \in Intf : r.dropped[i] \in Nat /\ s.dropped[i] \in Nat
            BY Zenon, <1>1, Parts
        <3> QED BY <3>1
    <2> QED BY Zenon, <2>1, <2>3, <2>4
<1>7. Owned(r)
    BY ZenonT(60), <1>1, <1>4, <1>5 DEF Owned
<1>8. Emptied(r)
    <2> SUFFICES ASSUME NEW q \in Pid, Busy(r, q),
                        \A u \in Tid : Live(r, u) => r.thrtab[u].proc # q
                 PROVE  \A f \in Fd : r.proctab[q].iotab[f] = NULL
        BY Zenon DEF Emptied
    <2>1. q # p
        BY Zenon, <1>1, <1>5
    <2> QED BY SMTT(60), <1>1, <1>3, <1>4, <1>5, <2>1 DEF Emptied
<1>9. Numbered(r)
    BY Zenon, <1>1, <1>4 DEF Numbered
<1> QED BY Zenon, <1>6, <1>7, <1>8, <1>9 DEF Sound

LEMMA OpenOK ==
  ASSUME NEW s, Sound(s), NEW t \in Tid, s.thrtab[t].at = "user", s.stop = "no",
         NEW fd \in Fd, NEW i \in Intf, s.refcnt[i] = 0, s.opens < OPENS
  PROVE  LET r == set_iotab(s, t, fd, i)
         IN  Sound(r) /\ r.thrtab = s.thrtab /\ r.stop = s.stop
<1> DEFINE p == s.thrtab[t].proc
           old == s.proctab[p].iotab[fd]
           r == set_iotab(s, t, fd, i)
<1>1. s \in Tables /\ Owned(s) /\ Live(s, t) /\ Counted(s) /\ Flagged(s)
    BY Zenon DEF Sound, Live
<1>2. p \in Pid /\ Busy(s, p)
    BY Zenon, <1>1, Caller
<1>3. /\ s.proctab \in [Pid -> Process \cup {NoProcess}] /\ s.refcnt \in [Intf -> Nat]
      /\ s.flags \in [File -> {0, 1}] /\ s.dropped \in [Intf -> Nat] /\ s.opens \in 0..OPENS
      /\ s.proctab[p] \in Process /\ s.proctab[p].iotab \in [Fd -> Intf \cup {NULL}]
      /\ OPENS \in Nat
    BY Zenon, <1>1, <1>2, Parts, InUse, ProcessAssumption
<1>4. old \in Intf \cup {NULL}
    BY Zenon, <1>3
<1> HIDE DEF p
<1>5. /\ r.proctab = WithFd(s.proctab, p, fd, i)
      /\ r.refcnt = [s.refcnt EXCEPT ![i] = 1]
      /\ r.flags = IF i \in File THEN [s.flags EXCEPT ![i] = 1] ELSE s.flags
      /\ r.dropped = IF old = NULL THEN s.dropped ELSE [s.dropped EXCEPT ![old] = @ + 1]
      /\ r.opens = s.opens + 1
      /\ r.thrtab = s.thrtab /\ r.joined = s.joined /\ r.stop = s.stop
      /\ r = [proctab |-> r.proctab, thrtab |-> r.thrtab, refcnt |-> r.refcnt, flags |-> r.flags,
              dropped |-> r.dropped, opens |-> r.opens, joined |-> r.joined, stop |-> r.stop]
    <2> DEFINE s1 == IF old = NULL THEN s ELSE [s EXCEPT !.dropped[old] = @ + 1]
    <2>1. r = [s1 EXCEPT !.proctab[p].iotab[fd] = i, !.refcnt[i] = 1,
                         !.flags = IF i \in File THEN [@ EXCEPT ![i] = 1] ELSE @,
                         !.opens = @ + 1]
        BY Zenon DEF set_iotab, p
    <2>2. /\ s1 \in Tables
          /\ s1.proctab = s.proctab /\ s1.refcnt = s.refcnt /\ s1.flags = s.flags
          /\ s1.opens = s.opens /\ s1.thrtab = s.thrtab /\ s1.joined = s.joined /\ s1.stop = s.stop
          /\ s1.dropped = IF old = NULL THEN s.dropped ELSE [s.dropped EXCEPT ![old] = @ + 1]
        <3>1. CASE old = NULL
            BY Zenon, <1>1, <3>1
        <3>2. CASE old # NULL
            <4>1. [s.dropped EXCEPT ![old] = @ + 1] \in [Intf -> Nat]
                BY SMTT(60), <1>3, <1>4, <3>2
            <4> HIDE DEF old
            <4> QED BY Zenon, <1>1, <3>2, <4>1 DEF Tables
        <3> QED BY Zenon, <3>1, <3>2
    <2> HIDE DEF s1, r
    <2>3. /\ r.proctab = [s1.proctab EXCEPT ![p] =
                            [s1.proctab[p] EXCEPT !.iotab = [s1.proctab[p].iotab EXCEPT ![fd] = i]]]
          /\ r.refcnt = [s1.refcnt EXCEPT ![i] = 1]
          /\ r.flags = IF i \in File THEN [s1.flags EXCEPT ![i] = 1] ELSE s1.flags
          /\ r.dropped = s1.dropped /\ r.opens = s1.opens + 1
          /\ r.thrtab = s1.thrtab /\ r.joined = s1.joined /\ r.stop = s1.stop
        BY Zenon, <2>1, <2>2 DEF Tables
    <2>4. r = [proctab |-> r.proctab, thrtab |-> r.thrtab, refcnt |-> r.refcnt, flags |-> r.flags,
               dropped |-> r.dropped, opens |-> r.opens, joined |-> r.joined, stop |-> r.stop]
        BY Zenon, <2>1, <2>2 DEF Tables
    <2> QED BY Zenon, <2>2, <2>3, <2>4 DEF WithFd
<1>6. r \in Tables
    <2>1. r.proctab \in [Pid -> Process \cup {NoProcess}]
        <3>1. r.proctab = WithFd(s.proctab, p, fd, i) /\ i \in Intf \cup {NULL}
            BY Zenon, <1>5
        <3> HIDE DEF r
        <3> QED BY ONLY <1>1, <1>2, <3>1, fd \in Fd, WithFdType
    <2>2. r.refcnt \in [Intf -> Nat] /\ r.opens \in 0..OPENS
        BY SMTT(60), <1>3, <1>5
    <2>3. r.flags \in [File -> {0, 1}]
        BY SMTT(60), <1>3, <1>5
    <2>4. r.dropped \in [Intf -> Nat]
        <3> HIDE DEF r, old
        <3> QED BY <1>3, <1>4, <1>5
    <2> HIDE DEF r
    <2>5. r.thrtab \in [Tid -> Thread] /\ r.joined \in BOOLEAN
          /\ r.stop \in {"no", "halt", "panic", "undefined"}
        BY Zenon, <1>1, <1>5, Parts
    <2> QED BY ZenonT(60), <2>1, <2>2, <2>3, <2>4, <2>5, <1>5 DEF Tables
<1> HIDE DEF r, old
<1>7. ASSUME NEW j \in Intf
      PROVE  /\ Cardinality(Held(r, j)) =
                  (Cardinality(Held(s, j)) - (IF old = j THEN 1 ELSE 0)) + (IF i = j THEN 1 ELSE 0)
             /\ Cardinality(Held(s, j)) \in Nat /\ s.dropped[j] \in Nat
             /\ s.refcnt[j] = Cardinality(Held(s, j)) + s.dropped[j]
             /\ old = j => Cardinality(Held(s, j)) > 0
    <2>1. Cardinality(Held(r, j)) =
            (Cardinality(Held(s, j)) - (IF old = j THEN 1 ELSE 0)) + (IF i = j THEN 1 ELSE 0)
        BY SMTT(60), <1>1, <1>2, <1>5, CountFd DEF old
    <2>2. Cardinality(Held(s, j)) \in Nat
        BY Zenon, HeldFinite
    <2>3. ASSUME old = j PROVE Cardinality(Held(s, j)) > 0
        <3>1. Uses(s.proctab[p].iotab, j) > 0
            BY Zenon, <2>3, UsesSome DEF old
        <3>2. Uses(s.proctab[p].iotab, j) <= Cardinality(Held(s, j))
            BY Zenon, <1>2, UsesFit
        <3>3. Uses(s.proctab[p].iotab, j) \in Nat
            BY Zenon, OwnCount
        <3> QED BY <2>2, <3>1, <3>2, <3>3
    <2> QED BY ZenonT(60), <1>1, <1>3, <2>1, <2>2, <2>3 DEF Counted
<1>8. Counted(r)
    <2> SUFFICES ASSUME NEW j \in Intf PROVE r.refcnt[j] = Cardinality(Held(r, j)) + r.dropped[j]
        BY Zenon DEF Counted
    <2>1. r.refcnt[j] = IF i = j THEN 1 ELSE s.refcnt[j]
        BY Zenon, <1>3, <1>5
    <2>2. r.dropped[j] = IF old = j THEN s.dropped[j] + 1 ELSE s.dropped[j]
        <3>1. CASE old = NULL
            BY Zenon, <1>5, <3>1, NotNull
        <3>2. CASE old # NULL
            BY <1>3, <1>5, <3>2
        <3> QED BY Zenon, <3>1, <3>2
    <2> QED BY <1>7, <2>1, <2>2
<1>9. Flagged(r)
    BY <1>1, <1>3, <1>5 DEF Flagged, Intf
<1>10. \A j \in Intf : r.dropped[j] >= s.dropped[j]
    BY <1>3, <1>4, <1>5
<1>11. Sound(r)
    <2>1. /\ i \in Intf \cup {NULL}
          /\ r.proctab = WithFd(s.proctab, s.thrtab[t].proc, fd, i)
          /\ r.thrtab = s.thrtab /\ r.joined = s.joined /\ r.stop = s.stop
        BY Zenon, <1>5 DEF p
    <2> QED BY Zenon, <1>6, <1>8, <1>9, <1>10, <2>1, FdOK
<1> QED BY Zenon, <1>5, <1>11 DEF r

(* The object of a descriptor has a reference for it. *)
LEMMA FdCounts ==
  ASSUME NEW s, Sound(s), NEW p \in Pid, Busy(s, p), NEW fd \in Fd, s.proctab[p].iotab[fd] # NULL
  PROVE  LET i == s.proctab[p].iotab[fd]
         IN  i \in Intf /\ Cardinality(Held(s, i)) > 0 /\ s.refcnt[i] > 0
<1> DEFINE i == s.proctab[p].iotab[fd]
<1>1. s \in Tables /\ Counted(s)
    BY Zenon DEF Sound
<1>2. i \in Intf
    BY Zenon, <1>1, InUse
<1>3. Uses(s.proctab[p].iotab, i) > 0
    BY Zenon, UsesSome
<1>4. Uses(s.proctab[p].iotab, i) <= Cardinality(Held(s, i))
    BY Zenon, UsesFit
<1>5. Uses(s.proctab[p].iotab, i) \in Nat /\ Cardinality(Held(s, i)) \in Nat
    BY Zenon, OwnCount, HeldFinite
<1>6. s.refcnt[i] = Cardinality(Held(s, i)) + s.dropped[i] /\ s.dropped[i] \in Nat
    BY Zenon, <1>1, <1>2, Parts DEF Counted
<1> QED BY SMTT(60), <1>2, <1>3, <1>4, <1>5, <1>6

LEMMA CloseOK ==
  ASSUME NEW s, Sound(s), NEW t \in Tid, s.thrtab[t].at = "user", s.stop = "no",
         NEW fd \in Fd, cur(s, t).iotab[fd] # NULL
  PROVE  LET r == [ioclose(s, cur(s, t).iotab[fd])
                     EXCEPT !.proctab[s.thrtab[t].proc].iotab[fd] = NULL]
         IN  Sound(r) /\ r.thrtab = s.thrtab /\ r.stop = s.stop
<1> DEFINE p == s.thrtab[t].proc
           i == s.proctab[p].iotab[fd]
           c == ioclose(s, i)
           r == [c EXCEPT !.proctab[p].iotab[fd] = NULL]
           n == s.refcnt[i] - 1
<1>1. s \in Tables /\ Owned(s) /\ Live(s, t) /\ Counted(s) /\ Flagged(s)
    BY Zenon DEF Sound, Live
<1>2. p \in Pid /\ Busy(s, p)
    BY Zenon, <1>1, Caller
<1>3. /\ s.refcnt \in [Intf -> Nat] /\ s.flags \in [File -> {0, 1}] /\ s.dropped \in [Intf -> Nat]
    BY Zenon, <1>1, Parts
<1>4. i \in Intf /\ Cardinality(Held(s, i)) > 0 /\ s.refcnt[i] > 0
    BY Zenon, <1>2, FdCounts DEF cur
<1> HIDE DEF p, i
<1>5. n \in Nat /\ s.refcnt[i] # 0
    <2>1. s.refcnt[i] \in Nat
        BY Zenon, <1>3, <1>4
    <2> QED BY <1>4, <2>1
<1> HIDE DEF n
<1>6. /\ c \in Tables /\ c.proctab = s.proctab /\ c.refcnt = [s.refcnt EXCEPT ![i] = n]
      /\ c.flags = IF i \in File /\ n = 0 THEN [s.flags EXCEPT ![i] = 0] ELSE s.flags
      /\ c.thrtab = s.thrtab /\ c.dropped = s.dropped /\ c.joined = s.joined /\ c.stop = s.stop
    <2> DEFINE s1 == [s EXCEPT !.refcnt[i] = s.refcnt[i] - 1]
    <2>1. [s.refcnt EXCEPT ![i] = n] \in [Intf -> Nat]
        BY Zenon, <1>3, <1>5
    <2>2. /\ s1 \in Tables /\ s1.proctab = s.proctab /\ s1.refcnt = [s.refcnt EXCEPT ![i] = n]
          /\ s1.flags = s.flags /\ s1.thrtab = s.thrtab /\ s1.dropped = s.dropped
          /\ s1.joined = s.joined /\ s1.stop = s.stop
        BY Zenon, <1>1, <2>1 DEF Tables, n
    <2>3. s1.refcnt[i] = n
        BY Zenon, <1>3, <1>4, <2>2
    <2>4. c = IF n = 0 /\ i \in File THEN [s1 EXCEPT !.flags[i] = 0] ELSE s1
        <3>1. c = IF s1.refcnt[i] = 0 THEN close(s1, i) ELSE s1
            BY Zenon, <1>5 DEF ioclose
        <3> HIDE DEF s1, c
        <3> QED BY Zenon, <2>3, <3>1 DEF close
    <2> HIDE DEF s1, c
    <2>5. CASE n = 0 /\ i \in File
        <3>1. [s.flags EXCEPT ![i] = 0] \in [File -> {0, 1}]
            BY Zenon, <1>3
        <3> QED BY Zenon, <2>2, <2>4, <2>5, <3>1 DEF Tables
    <2>6. CASE ~(n = 0 /\ i \in File)
        BY Zenon, <2>2, <2>4, <2>6
    <2> QED BY Zenon, <2>5, <2>6
<1> HIDE DEF c
<1>7. /\ r.proctab = WithFd(s.proctab, p, fd, NULL)
      /\ r.refcnt = c.refcnt /\ r.flags = c.flags /\ r.dropped = s.dropped
      /\ r.thrtab = s.thrtab /\ r.joined = s.joined /\ r.stop = s.stop
    BY Zenon, <1>6 DEF WithFd, Tables
<1>8. r \in Tables
    <2>1. WithFd(s.proctab, p, fd, NULL) \in [Pid -> Process \cup {NoProcess}]
        BY Zenon, <1>1, <1>2, WithFdType
    <2> QED BY Zenon, <1>6, <1>7, <2>1 DEF Tables
<1> HIDE DEF r
<1>9. ASSUME NEW j \in Intf
      PROVE  /\ Cardinality(Held(r, j)) = Cardinality(Held(s, j)) - (IF i = j THEN 1 ELSE 0)
             /\ Cardinality(Held(s, j)) \in Nat /\ s.dropped[j] \in Nat
             /\ s.refcnt[j] = Cardinality(Held(s, j)) + s.dropped[j]
    <2>1. Cardinality(Held(r, j)) =
            (Cardinality(Held(s, j)) - (IF i = j THEN 1 ELSE 0)) + (IF NULL = j THEN 1 ELSE 0)
        BY SMTT(60), <1>1, <1>2, <1>7, CountFd DEF i
    <2>2. Cardinality(Held(s, j)) \in Nat /\ NULL # j
        BY Zenon, HeldFinite, NotNull
    <2> QED BY <1>1, <1>3, <2>1, <2>2 DEF Counted
<1>10. Counted(r)
    <2> SUFFICES ASSUME NEW j \in Intf PROVE r.refcnt[j] = Cardinality(Held(r, j)) + r.dropped[j]
        BY Zenon DEF Counted
    <2>1. r.refcnt[j] = IF i = j THEN s.refcnt[j] - 1 ELSE s.refcnt[j]
        BY Zenon, <1>3, <1>6, <1>7 DEF n
    <2> QED BY SMTT(60), <1>7, <1>9, <2>1
<1>11. Flagged(r)
    <2> SUFFICES ASSUME NEW f \in File PROVE r.flags[f] = 1 <=> r.refcnt[f] > 0
        BY Zenon DEF Flagged
    <2>1. f \in Intf /\ (s.flags[f] = 1 <=> s.refcnt[f] > 0) /\ s.flags[f] \in {0, 1}
        BY Zenon, <1>1, <1>3 DEF Flagged, Intf
    <2>2. CASE f = i
        <3>1. r.refcnt[f] = n
            BY Zenon, <1>3, <1>4, <1>6, <1>7, <2>2
        <3>2. r.flags[f] = IF n = 0 THEN 0 ELSE s.flags[f]
            BY Zenon, <1>3, <1>6, <1>7, <2>2
        <3> QED BY <1>4, <1>5, <2>1, <2>2, <3>1, <3>2
    <2>3. CASE f # i
        <3>1. r.refcnt[f] = s.refcnt[f] /\ r.flags[f] = s.flags[f]
            BY Zenon, <1>3, <1>6, <1>7, <2>1, <2>3
        <3> QED BY Zenon, <2>1, <3>1
    <2> QED BY Zenon, <2>2, <2>3
<1>12. Sound(r)
    <2>1. /\ NULL \in Intf \cup {NULL}
          /\ r.proctab = WithFd(s.proctab, s.thrtab[t].proc, fd, NULL)
          /\ \A j \in Intf : r.dropped[j] >= s.dropped[j]
        BY SMTT(60), <1>3, <1>7 DEF p
    <2> QED BY Zenon, <1>7, <1>8, <1>10, <1>11, <2>1, FdOK
<1> QED BY Zenon, <1>7, <1>12 DEF r, c, i, p, cur

LEMMA ExecOK ==
  ASSUME NEW s, Sound(s), NEW t \in Tid, s.thrtab[t].at = "user", s.stop = "no",
         NEW fd \in Fd, cur(s, t).iotab[fd] # NULL
  PROVE  LET i == cur(s, t).iotab[fd]
         IN  Sound(Block([s EXCEPT !.proctab[s.thrtab[t].proc].iotab[fd] = NULL,
                                   !.dropped[i] = @ + 1], t, "exec", i))
<1> DEFINE p == s.thrtab[t].proc
           i == s.proctab[p].iotab[fd]
           r == [s EXCEPT !.proctab[p].iotab[fd] = NULL, !.dropped[i] = @ + 1]
<1>1. s \in Tables /\ Owned(s) /\ Live(s, t) /\ Counted(s) /\ Flagged(s)
    BY Zenon DEF Sound, Live
<1>2. p \in Pid /\ Busy(s, p)
    BY Zenon, <1>1, Caller
<1>3. /\ s.refcnt \in [Intf -> Nat] /\ s.flags \in [File -> {0, 1}] /\ s.dropped \in [Intf -> Nat]
    BY Zenon, <1>1, Parts
<1>4. i \in Intf /\ Cardinality(Held(s, i)) > 0 /\ s.refcnt[i] > 0
    BY Zenon, <1>2, FdCounts DEF cur
<1> HIDE DEF p, i
<1>5. /\ r.proctab = WithFd(s.proctab, p, fd, NULL) /\ r.dropped = [s.dropped EXCEPT ![i] = @ + 1]
      /\ r.refcnt = s.refcnt /\ r.flags = s.flags
      /\ r.thrtab = s.thrtab /\ r.joined = s.joined /\ r.stop = s.stop
    BY Zenon, <1>1 DEF WithFd, Tables
<1>6. r \in Tables
    <2>1. WithFd(s.proctab, p, fd, NULL) \in [Pid -> Process \cup {NoProcess}]
        BY Zenon, <1>1, <1>2, WithFdType
    <2>2. r.dropped \in [Intf -> Nat]
        BY <1>3, <1>4, <1>5
    <2> QED BY Zenon, <1>1, <1>5, <2>1, <2>2 DEF Tables
<1> HIDE DEF r
<1>7. Counted(r)
    <2> SUFFICES ASSUME NEW j \in Intf PROVE r.refcnt[j] = Cardinality(Held(r, j)) + r.dropped[j]
        BY Zenon DEF Counted
    <2>1. Cardinality(Held(r, j)) =
            (Cardinality(Held(s, j)) - (IF i = j THEN 1 ELSE 0)) + (IF NULL = j THEN 1 ELSE 0)
        BY SMTT(60), <1>1, <1>2, <1>5, CountFd DEF i
    <2>2. Cardinality(Held(s, j)) \in Nat /\ NULL # j
        BY Zenon, HeldFinite, NotNull
    <2>3. r.dropped[j] = IF i = j THEN s.dropped[j] + 1 ELSE s.dropped[j]
        BY Zenon, <1>3, <1>5
    <2> QED BY SMTT(60), <1>1, <1>3, <1>5, <2>1, <2>2, <2>3 DEF Counted
<1>8. Flagged(r)
    BY Zenon, <1>1, <1>5 DEF Flagged
<1>9. Sound(r)
    <2>1. /\ NULL \in Intf \cup {NULL}
          /\ r.proctab = WithFd(s.proctab, s.thrtab[t].proc, fd, NULL)
          /\ \A j \in Intf : r.dropped[j] >= s.dropped[j]
        BY <1>3, <1>5 DEF p
    <2> QED BY Zenon, <1>5, <1>6, <1>7, <1>8, <2>1, FdOK
<1>10. Sound(Block(r, t, "exec", i))
    <2>1. "exec" \in Place \ {"none", "exited"} /\ i \in Arg
        BY Zenon, <1>4 DEF Place, Arg
    <2>2. r.dropped[i] > 0 /\ Live(r, t)
        BY SMTT(60), <1>1, <1>3, <1>4, <1>5 DEF Live
    <2> QED BY Zenon, <1>4, <1>9, <2>1, <2>2, BlockOK
<1> QED BY Zenon, <1>10 DEF r, i, p, cur

-----------------------------------------------------------------------------
(* Threads end and begin. *)

\* r is s without thread c.
Recycled(s, r, c) ==
  /\ Sound(r) /\ r.stop = s.stop /\ r.joined = TRUE /\ r.proctab = s.proctab
  /\ \A u \in Tid : u # c => /\ r.thrtab[u].at = s.thrtab[u].at
                             /\ r.thrtab[u].proc = s.thrtab[u].proc
                             /\ r.thrtab[u].arg = s.thrtab[u].arg
  /\ r.thrtab[c].at = "none"

LEMMA RecycleOK ==
  ASSUME NEW s, Sound(s), NEW c \in Tid, s.thrtab[c].at = "exited"
  PROVE  Recycled(s, recycle_thread(s, c), c)
<1> DEFINE r == recycle_thread(s, c)
           new(u) == IF u = c THEN NoThread
                     ELSE IF s.thrtab[u].at # "none" /\ s.thrtab[u].parent = c
                          THEN [s.thrtab[u] EXCEPT !.parent = s.thrtab[c].parent] ELSE s.thrtab[u]
<1>1. s \in Tables /\ Counted(s) /\ Flagged(s) /\ Pinned(s) /\ Owned(s) /\ Emptied(s)
    BY Zenon DEF Sound
<1>2. s.thrtab \in [Tid -> Thread]
    BY Zenon, <1>1, Parts
<1>3. /\ r.thrtab = [u \in Tid |-> new(u)] /\ r.proctab = s.proctab /\ r.refcnt = s.refcnt
      /\ r.flags = s.flags /\ r.dropped = s.dropped /\ r.joined = TRUE /\ r.stop = s.stop
    BY Zenon, <1>1 DEF recycle_thread, Tables
<1>4. ASSUME NEW u \in Tid
      PROVE  /\ new(u) \in Thread
             /\ u # c => /\ new(u).at = s.thrtab[u].at /\ new(u).proc = s.thrtab[u].proc
                         /\ new(u).arg = s.thrtab[u].arg
             /\ u = c => new(u).at = "none"
    <2>1. s.thrtab[u] \in Thread /\ s.thrtab[c] \in Thread
        BY Zenon, <1>2
    <2>2. NoThread \in Thread /\ NoThread.at = "none"
        <3>1. 0 \in Pid /\ 0 \in Tid
            BY ProcessAssumption DEF IDLE_TID, Pid, Tid
        <3> QED BY Zenon, <3>1 DEF NoThread, Thread, Place
    <2>3. [s.thrtab[u] EXCEPT !.parent = s.thrtab[c].parent] \in Thread
        BY Zenon, <2>1 DEF Thread
    <2> QED BY Zenon, <2>1, <2>2, <2>3 DEF Thread
<1>5. r \in Tables
    <2>1. r.thrtab \in [Tid -> Thread]
        BY <1>3, <1>4
    <2> QED BY Zenon, <1>1, <2>1 DEF recycle_thread, Tables
<1> HIDE DEF r, new
<1>6. \A u \in Tid : /\ u # c => /\ r.thrtab[u].at = s.thrtab[u].at
                                 /\ r.thrtab[u].proc = s.thrtab[u].proc
                                 /\ r.thrtab[u].arg = s.thrtab[u].arg
                     /\ u = c => r.thrtab[u].at = "none"
    <2>1. \A u \in Tid : r.thrtab[u] = new(u)
        BY Zenon, <1>3
    <2> QED BY Zenon, <1>4, <2>1
<1>7. \A u \in Tid : /\ Live(r, u) <=> Live(s, u)
                     /\ Live(s, u) => u # c
    BY Zenon, <1>6 DEF Live
<1>8. \A i : Held(r, i) = Held(s, i)
    BY Zenon, <1>3 DEF Held
<1>9. Counted(r) /\ Flagged(r)
    BY ZenonT(60), <1>1, <1>3, <1>8 DEF Counted, Flagged
<1>10. Pinned(r)
    <2> SUFFICES ASSUME NEW u \in Tid, r.thrtab[u].at \in {"io", "exec", "boot"}
                 PROVE  /\ r.thrtab[u].at = "io" =>
                             \E fd \in Fd : /\ r.thrtab[u].arg \in Intf
                                            /\ s.proctab[r.thrtab[u].proc].iotab[fd] = r.thrtab[u].arg
                        /\ r.thrtab[u].at \in {"exec", "boot"} =>
                             r.thrtab[u].arg \in Intf /\ s.dropped[r.thrtab[u].arg] > 0
        BY <1>3 DEF Pinned
    <2>1. u # c
        BY Zenon, <1>6
    <2> QED BY Zenon, <1>1, <1>6, <2>1 DEF Pinned
<1>11. Owned(r)
    BY Zenon, <1>1, <1>3, <1>6, <1>7 DEF Owned
<1>12. Emptied(r)
    BY SMTT(60), <1>1, <1>3, <1>6, <1>7 DEF Emptied, Busy
<1>13. Numbered(r)
    BY Zenon, <1>3 DEF Numbered
<1>14. Sound(r)
    BY Zenon, <1>5, <1>9, <1>10, <1>11, <1>12, <1>13 DEF Sound
<1>15. Recycled(s, r, c)
    BY Zenon, <1>3, <1>6, <1>14 DEF Recycled
<1> QED BY Zenon, <1>15 DEF r

Child(c, tab, res) ==
  [tid |-> c, iotab |-> tab, pending |-> res.pending,
   blocked |-> res.blocked, handled |-> res.handled]

Forked(s, t, p, c, res) ==
  [ioref_all(s, cur(s, t).iotab) EXCEPT
     !.proctab[p] = Child(c, cur(s, t).iotab, res),
     !.thrtab[c] = [at |-> "user", proc |-> p, parent |-> t, arg |-> NULL],
     !.thrtab[t].at = "ret"]

LEMMA ForkOK ==
  ASSUME NEW s, Sound(s), NEW t \in Tid, s.thrtab[t].at = "user", s.stop = "no",
         NEW p \in Pid, ~ Busy(s, p), NEW c \in Tid, s.thrtab[c].at = "none",
         NEW res \in Residue, ~ s.joined => p = c
  PROVE  Sound(Forked(s, t, p, c, res))
<1> DEFINE me == s.thrtab[t].proc
           tab == s.proctab[me].iotab
           r == Forked(s, t, p, c, res)
           child == Child(c, tab, res)
           cthr == [at |-> "user", proc |-> p, parent |-> t, arg |-> NULL]
<1>1. /\ s \in Tables /\ Owned(s) /\ Live(s, t) /\ Counted(s) /\ Flagged(s)
      /\ Pinned(s) /\ Emptied(s) /\ Numbered(s)
    BY Zenon DEF Sound, Live
<1>2. me \in Pid /\ Busy(s, me)
    BY Zenon, <1>1, Caller
<1>3. /\ s.refcnt \in [Intf -> Nat] /\ s.dropped \in [Intf -> Nat]
      /\ s.proctab \in [Pid -> Process \cup {NoProcess}] /\ s.thrtab \in [Tid -> Thread]
    BY Zenon, <1>1, Parts
<1>4. tab \in [Fd -> Intf \cup {NULL}]
    BY Zenon, <1>1, <1>2, InUse
<1>5. c # t /\ p # me
    BY Zenon, <1>2
<1> HIDE DEF me, tab
<1>6. /\ r.proctab = [s.proctab EXCEPT ![p] = child]
      /\ r.thrtab = [s.thrtab EXCEPT ![c] = cthr, ![t] = [s.thrtab[t] EXCEPT !.at = "ret"]]
      /\ r.refcnt = [i \in Intf |-> s.refcnt[i] + Uses(tab, i)]
      /\ r.flags = s.flags /\ r.dropped = s.dropped /\ r.joined = s.joined /\ r.stop = s.stop
    <2>1. r = [ioref_all(s, tab) EXCEPT !.proctab[p] = child, !.thrtab[c] = cthr, !.thrtab[t].at = "ret"]
        BY Zenon DEF Forked, cur, tab, me
    <2> HIDE DEF child, cthr, r
    <2> QED BY Zenon, <1>1, <1>3, <1>5, <2>1 DEF ioref_all, Tables
<1>7. child \in Process /\ child.tid = c /\ child.iotab = tab
    BY Zenon, <1>4, ProcessAssumption DEF Child, Process
<1>8. cthr \in Thread
    BY Zenon DEF Thread, Place
<1>9. \A i \in Intf : Uses(tab, i) \in Nat
    BY Zenon, OwnCount
<1>10. [s.thrtab[t] EXCEPT !.at = "ret"] \in Thread
    BY Zenon, <1>3 DEF Thread, Place
<1> HIDE DEF child
<1>11. r \in Tables
    <2>1. r.proctab \in [Pid -> Process \cup {NoProcess}]
        BY ZenonT(60), <1>3, <1>6, <1>7
    <2>2. r.thrtab \in [Tid -> Thread]
        <3> HIDE DEF r, cthr
        <3> QED BY Zenon, <1>3, <1>6, <1>8, <1>10
    <2>3. r.refcnt \in [Intf -> Nat]
        BY <1>3, <1>6, <1>9
    <2> QED BY Zenon, <1>1, <2>1, <2>2, <2>3 DEF Forked, ioref_all, Tables
<1> HIDE DEF r
<1>12. /\ \A q \in Pid : q # p => r.proctab[q] = s.proctab[q]
       /\ r.proctab[p] = child
       /\ \A u \in Tid : u # c => /\ r.thrtab[u].proc = s.thrtab[u].proc
                                  /\ r.thrtab[u].arg = s.thrtab[u].arg
                                  /\ r.thrtab[u].at = IF u = t THEN "ret" ELSE s.thrtab[u].at
       /\ r.thrtab[c].at = "user" /\ r.thrtab[c].proc = p
    BY <1>3, <1>5, <1>6 DEF Thread
<1>13. Busy(r, p) /\ \A q \in Pid : q # p => (Busy(r, q) <=> Busy(s, q))
    <2>1. child.tid \in Tid
        BY Zenon, <1>7
    <2>2. Busy(r, p)
        BY Zenon, <1>11, <1>12, <2>1, InUse
    <2> QED BY Zenon, <1>12, <2>2 DEF Busy
<1>14. ASSUME NEW i \in Intf
       PROVE  /\ r.refcnt[i] = s.refcnt[i] + Uses(tab, i)
              /\ Cardinality(Held(r, i)) = Cardinality(Held(s, i)) + Uses(tab, i)
              /\ s.refcnt[i] = Cardinality(Held(s, i)) + s.dropped[i]
              /\ Uses(tab, i) <= Cardinality(Held(s, i))
              /\ Cardinality(Held(s, i)) \in Nat /\ s.dropped[i] \in Nat /\ Uses(tab, i) \in Nat
    <2>1. Cardinality(Held(r, i)) = Cardinality(Held(s, i)) + Uses(r.proctab[p].iotab, i)
        <3>1. \A q \in Pid \ {p} : /\ Busy(r, q) <=> Busy(s, q)
                                   /\ r.proctab[q].iotab = s.proctab[q].iotab
            BY Zenon, <1>12, <1>13
        <3> QED BY SMTT(60), <1>13, <3>1, CountNew
    <2>2. Uses(tab, i) <= Cardinality(Held(s, i))
        BY Zenon, <1>2, UsesFit DEF tab
    <2>3. Cardinality(Held(s, i)) \in Nat
        BY Zenon, HeldFinite
    <2> QED BY ZenonT(60), <1>1, <1>3, <1>6, <1>7, <1>9, <1>12, <2>1, <2>2, <2>3 DEF Counted
<1>15. Counted(r)
    BY <1>6, <1>14 DEF Counted
<1>16. Flagged(r)
    <2> SUFFICES ASSUME NEW f \in File PROVE r.flags[f] = 1 <=> r.refcnt[f] > 0
        BY Zenon DEF Flagged
    <2>1. f \in Intf /\ r.flags[f] = s.flags[f] /\ (s.flags[f] = 1 <=> s.refcnt[f] > 0)
        BY Zenon, <1>1, <1>6 DEF Flagged, Intf
    <2>2. s.refcnt[f] > 0 <=> r.refcnt[f] > 0
        BY <1>14, <2>1
    <2> QED BY Zenon, <2>1, <2>2
<1>17. \A u \in Tid : Live(s, u) => s.thrtab[u].proc \in Pid /\ s.thrtab[u].proc # p /\ u # c
    BY ZenonT(60), <1>1, Caller DEF Live
<1>18. Pinned(r)
    <2> SUFFICES ASSUME NEW u \in Tid, r.thrtab[u].at \in {"io", "exec", "boot"}
                 PROVE  /\ r.thrtab[u].at = "io" =>
                             \E fd \in Fd : /\ r.thrtab[u].arg \in Intf
                                            /\ r.proctab[r.thrtab[u].proc].iotab[fd] = r.thrtab[u].arg
                        /\ r.thrtab[u].at \in {"exec", "boot"} =>
                             r.thrtab[u].arg \in Intf /\ s.dropped[r.thrtab[u].arg] > 0
        BY Zenon, <1>6 DEF Pinned
    <2>1. u # c /\ u # t
        BY Zenon, <1>12
    <2>2. /\ r.thrtab[u].proc = s.thrtab[u].proc /\ r.thrtab[u].arg = s.thrtab[u].arg
          /\ r.thrtab[u].at = s.thrtab[u].at
        BY Zenon, <1>12, <2>1
    <2>3. r.proctab[s.thrtab[u].proc] = s.proctab[s.thrtab[u].proc]
        BY Zenon, <1>12, <1>17, <2>2 DEF Live
    <2>4. /\ s.thrtab[u].at = "io" =>
               \E fd \in Fd : /\ s.thrtab[u].arg \in Intf
                              /\ s.proctab[s.thrtab[u].proc].iotab[fd] = s.thrtab[u].arg
          /\ s.thrtab[u].at \in {"exec", "boot"} =>
               s.thrtab[u].arg \in Intf /\ s.dropped[s.thrtab[u].arg] > 0
        BY Zenon, <1>1 DEF Pinned
    <2> QED BY Zenon, <2>2, <2>3, <2>4
<1>19. \A u \in Tid : u # c => (Live(r, u) <=> Live(s, u))
    BY Zenon, <1>12 DEF Live
<1>20. Owned(r)
    <2> SUFFICES ASSUME NEW u \in Tid, Live(r, u) PROVE r.proctab[r.thrtab[u].proc].tid = u
        BY Zenon DEF Owned
    <2>1. CASE u = c
        BY Zenon, <1>7, <1>12, <2>1
    <2>2. CASE u # c
        BY SMTT(60), <1>1, <1>12, <1>17, <1>19, <2>2 DEF Owned
    <2> QED BY Zenon, <2>1, <2>2
<1>21. Emptied(r)
    <2> SUFFICES ASSUME NEW q \in Pid, Busy(r, q),
                        \A u \in Tid : Live(r, u) => r.thrtab[u].proc # q
                 PROVE  \A fd \in Fd : r.proctab[q].iotab[fd] = NULL
        BY Zenon DEF Emptied
    <2>1. q # p
        BY Zenon, <1>12 DEF Live
    <2>2. Busy(s, q) /\ r.proctab[q] = s.proctab[q]
        BY Zenon, <1>12, <1>13, <2>1
    <2>3. \A u \in Tid : Live(s, u) => s.thrtab[u].proc # q
        BY ZenonT(60), <1>12, <1>17, <1>19
    <2> QED BY ZenonT(60), <1>1, <2>2, <2>3 DEF Emptied
<1>22. Numbered(r)
    <2> SUFFICES ASSUME ~ r.joined
                 PROVE  /\ \A q \in Pid : Busy(r, q) => /\ q \in Tid /\ r.proctab[q].tid = q
                                                        /\ r.thrtab[q].at # "none"
                        /\ \A u \in Tid : /\ r.thrtab[u].at # "none" => u \in Pid /\ Busy(r, u)
                                          /\ u = 0 => r.thrtab[u].at # "none"
        BY Zenon DEF Numbered
    <2>1. p = c /\ ~ s.joined
        BY Zenon, <1>6
    <2>2. /\ \A q \in Pid : Busy(s, q) => q \in Tid /\ s.proctab[q].tid = q /\ s.thrtab[q].at # "none"
          /\ \A u \in Tid : /\ s.thrtab[u].at # "none" => u \in Pid /\ Busy(s, u)
                            /\ u = 0 => s.thrtab[u].at # "none"
        BY Zenon, <1>1, <2>1 DEF Numbered
    <2> QED BY SMTT(60), <1>7, <1>12, <1>13, <2>1, <2>2
<1>23. Sound(r)
    BY Zenon, <1>11, <1>15, <1>16, <1>18, <1>20, <1>21, <1>22 DEF Sound
<1> QED BY Zenon, <1>23 DEF r

-----------------------------------------------------------------------------
(* The first of several numbers. *)

LEMMA LeastNat ==
  ASSUME NEW T, T \subseteq Nat, T # {}
  PROVE  First(T) \in T /\ \A m \in T : First(T) <= m
<1> DEFINE R == {ss \in Nat \X Nat : ss[1] < ss[2]}
<1>1. IsWellFoundedOn(R, Nat)
    BY Zenon, NatLessThanWellFounded, Zenon DEF OpToRel
<1>2. PICK n \in T : \A m \in T : ~(<<m, n>> \in R)
    <2> HIDE DEF R
    <2> QED BY Zenon, <1>1, WFMin
<1>3. ASSUME NEW m \in T, m < n PROVE FALSE
    <2>1. <<m, n>> \in R
        BY Zenon, <1>3
    <2> QED BY Zenon, <1>2, <2>1
<1>4. n \in Nat /\ T \subseteq Nat
    BY Zenon
<1>5. \E x \in T : \A m \in T : x <= m
    BY <1>3, <1>4
<1> QED BY Zenon, <1>5 DEF First

(* What fs_open finds is a file nobody holds. *)
LEMMA OpensFree ==
  ASSUME NEW s, Sound(s), fs_open(s) # EBUSY
  PROVE  fs_open(s) \in Intf /\ s.refcnt[fs_open(s)] = 0
<1> DEFINE S == free_slots(s)
<1>1. S \subseteq Nat /\ S # {} /\ fs_open(s) = <<"file", First(S)>>
    <2>1. S \subseteq Nat
        BY ProcessAssumption DEF free_slots
    <2> HIDE DEF S
    <2>2. fs_open(s) = IF S = {} THEN EBUSY ELSE <<"file", First(S)>>
        BY Zenon DEF fs_open, First, S
    <2> QED BY Zenon, <2>1, <2>2
<1>2. First(S) \in S
    <2> HIDE DEF S
    <2> QED BY Zenon, <1>1, LeastNat
<1>3. First(S) \in 1..FS_MAXOPEN /\ s.flags[<<"file", First(S)>>] = 0
    BY Zenon, <1>2 DEF free_slots
<1>4. fs_open(s) \in File /\ s.flags[fs_open(s)] = 0
    <2> HIDE DEF S
    <2> QED BY Zenon, <1>1, <1>3 DEF File
<1>5. s \in Tables /\ (s.flags[fs_open(s)] = 1 <=> s.refcnt[fs_open(s)] > 0)
    BY Zenon, <1>4 DEF Sound, Flagged
<1>6. fs_open(s) \in Intf
    BY Zenon, <1>4 DEF Intf
<1>7. s.refcnt[fs_open(s)] \in Nat
    BY Zenon, <1>5, <1>6, Parts
<1> QED BY <1>4, <1>5, <1>6, <1>7

(* Before the first join fork finds the same number free in both tables. *)
LEMMA SameFirst ==
  ASSUME NEW s, Sound(s), ~ s.joined,
         NEW P, P = {p \in Pid : ~ Busy(s, p)}, P # {},
         NEW T, T = {c \in Tid \ {0} : s.thrtab[c].at = "none"}, T # {}
  PROVE  First(P) = First(T)
<1>1. P \subseteq Nat /\ T \subseteq Nat
    BY DEF Pid, Tid
<1>2. First(P) \in P /\ \A m \in P : First(P) <= m
    BY Zenon, <1>1, LeastNat
<1>3. First(T) \in T /\ \A m \in T : First(T) <= m
    BY Zenon, <1>1, LeastNat
<1>4. /\ \A p \in Pid : Busy(s, p) => p \in Tid /\ s.thrtab[p].at # "none"
      /\ \A t \in Tid : /\ s.thrtab[t].at # "none" => t \in Pid /\ Busy(s, t)
                        /\ t = 0 => s.thrtab[t].at # "none"
    BY Zenon DEF Sound, Numbered
<1> DEFINE fp == First(P)
           ft == First(T)
<1>5. /\ fp \in Pid /\ ~ Busy(s, fp) /\ ft \in Tid /\ ft # 0 /\ s.thrtab[ft].at = "none"
      /\ \A m \in Pid : ~ Busy(s, m) => fp <= m
      /\ \A m \in Tid : m # 0 /\ s.thrtab[m].at = "none" => ft <= m
    BY Zenon, <1>2, <1>3
<1> HIDE DEF fp, ft
<1>6. /\ fp \in Nat /\ ft \in Nat
      /\ \A i \in Nat : i <= fp => i \in Pid
      /\ \A i \in Nat : i <= ft => i \in Tid
    BY <1>5, ProcessAssumption DEF IDLE_TID, Pid, Tid
<1>7. 0 \in Tid /\ fp # 0
    BY <1>4, <1>5, ProcessAssumption DEF IDLE_TID, Tid
<1>8. ASSUME fp < ft PROVE FALSE
    <2>1. fp \in Tid
        BY <1>6, <1>8
    <2>2. ft <= fp
        BY Zenon, <1>4, <1>5, <1>7, <2>1
    <2> QED BY <1>6, <1>8, <2>2
<1>9. ASSUME ft < fp PROVE FALSE
    <2>1. ft \in Pid
        BY <1>6, <1>9
    <2>2. fp <= ft
        BY Zenon, <1>4, <1>5, <2>1
    <2> QED BY <1>6, <1>9, <2>2
<1>10. fp = ft
    BY <1>6, <1>8, <1>9
<1> QED BY Zenon, <1>10 DEF fp, ft

-----------------------------------------------------------------------------
(* System calls. *)

LEMMA CallReturns ==
  ASSUME NEW s, Sound(s), NEW t \in Tid, s.thrtab[t].at = "user", s.stop = "no"
  PROVE  Sound(Return(s, t))
BY Zenon, ReturnOK DEF Return, Live

LEMMA sysdevopenOK ==
  ASSUME Sound(k), NEW t \in Tid, NEW fd \in Fd, NEW name, NEW instno, sysdevopen(t, fd, name, instno)
  PROVE  Sound(k')
<1> DEFINE i == openfn(k, device_open(name, instno))
           r == set_iotab(k, t, fd, i)
<1>1. /\ k.stop = "no" /\ k.thrtab[t].at = "user" /\ k.opens < OPENS
      /\ k' = Return(IF i = EBUSY THEN k ELSE r, t)
    BY Zenon DEF sysdevopen, Calls
<1>2. CASE i = EBUSY
    BY Zenon, <1>1, <1>2, CallReturns
<1>3. CASE i # EBUSY
    <2>1. i \in Intf /\ k.refcnt[i] = 0
        BY Zenon, <1>3 DEF openfn, Intf, Device
    <2> HIDE DEF i
    <2>2. Sound(r) /\ r.thrtab = k.thrtab /\ r.stop = k.stop
        BY Zenon, <1>1, <2>1, OpenOK
    <2> HIDE DEF r
    <2> QED BY Zenon, <1>1, <1>3, <2>2, CallReturns
<1> QED BY Zenon, <1>2, <1>3

LEMMA sysfsopenOK ==
  ASSUME Sound(k), NEW t \in Tid, NEW fd \in Fd, sysfsopen(t, fd)
  PROVE  Sound(k')
<1> DEFINE i == fs_open(k)
           r == set_iotab(k, t, fd, i)
<1>1. /\ k.stop = "no" /\ k.thrtab[t].at = "user" /\ k.opens < OPENS
      /\ k' = Return(IF i = EBUSY THEN k ELSE r, t)
    BY Zenon DEF sysfsopen, Calls
<1>2. CASE i = EBUSY
    BY Zenon, <1>1, <1>2, CallReturns
<1>3. CASE i # EBUSY
    <2>1. i \in Intf /\ k.refcnt[i] = 0
        BY Zenon, <1>3, OpensFree
    <2> HIDE DEF i
    <2>2. Sound(r) /\ r.thrtab = k.thrtab /\ r.stop = k.stop
        BY Zenon, <1>1, <2>1, OpenOK
    <2> HIDE DEF r
    <2> QED BY Zenon, <1>1, <1>3, <2>2, CallReturns
<1> QED BY Zenon, <1>2, <1>3

LEMMA syscloseOK ==
  ASSUME Sound(k), NEW t \in Tid, NEW fd \in Fd, sysclose(t, fd)
  PROVE  Sound(k')
<1> DEFINE r == [ioclose(k, cur(k, t).iotab[fd]) EXCEPT !.proctab[k.thrtab[t].proc].iotab[fd] = NULL]
<1>1. /\ k.stop = "no" /\ k.thrtab[t].at = "user" /\ cur(k, t).iotab[fd] # NULL
      /\ k' = Return(r, t)
    BY Zenon DEF sysclose, Calls
<1>2. Sound(r) /\ r.thrtab = k.thrtab /\ r.stop = k.stop
    BY Zenon, <1>1, CloseOK
<1> HIDE DEF r
<1> QED BY Zenon, <1>1, <1>2, CallReturns

(* A call that blocks in the driver of a descriptor's object. *)
LEMMA IoBlocks ==
  ASSUME NEW s, Sound(s), NEW t \in Tid, s.thrtab[t].at = "user", NEW fd \in Fd,
         cur(s, t).iotab[fd] # NULL
  PROVE  Sound(Block(s, t, "io", cur(s, t).iotab[fd]))
<1> DEFINE p == s.thrtab[t].proc
           i == s.proctab[p].iotab[fd]
<1>1. Live(s, t) /\ p \in Pid /\ Busy(s, p)
    BY Zenon, Caller DEF Sound, Live
<1>2. i \in Intf
    BY Zenon, <1>1, FdCounts DEF cur
<1>3. "io" \in Place \ {"none", "exited"} /\ i \in Arg
    BY Zenon, <1>2 DEF Place, Arg
<1>4. i \in Intf /\ \E f \in Fd : s.proctab[s.thrtab[t].proc].iotab[f] = i
    BY Zenon, <1>2
<1> HIDE DEF i
<1>5. Sound(Block(s, t, "io", i))
    BY Zenon, <1>1, <1>3, <1>4, BlockOK
<1> QED BY Zenon, <1>5 DEF i, cur

LEMMA sysreadOK ==
  ASSUME Sound(k), NEW t \in Tid, NEW fd \in Fd, sysread(t, fd) \/ sysioctl(t, fd)
  PROVE  Sound(k')
<1>1. k.stop = "no" /\ k.thrtab[t].at = "user" /\ cur(k, t).iotab[fd] # NULL
    BY Zenon DEF sysread, sysioctl, Calls
<1>2. k' = Panic(k) \/ k' = Block(k, t, "io", cur(k, t).iotab[fd])
    BY Zenon DEF sysread, sysioctl
<1> QED BY Zenon, <1>1, <1>2, IoBlocks, StopOK DEF Panic

LEMMA sysexecOK ==
  ASSUME Sound(k), NEW t \in Tid, NEW fd \in Fd, sysexec(t, fd)
  PROVE  Sound(k')
BY Zenon, ExecOK DEF sysexec, Calls

LEMMA process_execOK ==
  ASSUME Sound(k), NEW t \in Tid, process_exec(t)
  PROVE  Sound(k')
<1>1. k.stop = "no" /\ Live(k, t)
    BY Zenon DEF process_exec, Live
<1>2. Sound(Block(k, t, "user", NULL))
    <2>1. "user" \in Place \ {"none", "exited"} /\ NULL \in Arg
        BY Zenon DEF Place, Arg
    <2> QED BY Zenon, <1>1, <2>1, BlockOK
<1> QED BY Zenon, <1>2 DEF process_exec

LEMMA process_exec_failsOK ==
  ASSUME Sound(k), NEW t \in Tid, process_exec_fails(t)
  PROVE  Sound(k')
<1>1. k.stop = "no" /\ Live(k, t)
    BY Zenon DEF process_exec_fails, Live
<1>2. Sound(Panic(k))
    BY Zenon, <1>1, StopOK DEF Panic
<1>3. \A at \in {"user", "faulting"} : Sound(umode_excp_handler(k, t, at))
    BY Zenon, <1>1, ReturnOK
<1> QED BY Zenon, <1>2, <1>3 DEF process_exec_fails

LEMMA ResumeOK ==
  ASSUME Sound(k), NEW t \in Tid, Fault(t) \/ Resume(t)
  PROVE  Sound(k')
BY Zenon, ReturnOK DEF Fault, Resume, Return, Live

(* A child that has exited is another thread. *)
LEMMA JoinOK ==
  ASSUME Sound(k), NEW t \in Tid, Live(k, t), k.stop = "no", NEW c \in Exited(t)
  PROVE  Sound(Return(recycle_thread(k, c), t))
<1> DEFINE r == recycle_thread(k, c)
<1>1. c \in Tid /\ k.thrtab[c].at = "exited"
    BY Zenon DEF Exited
<1>2. c # t
    BY Zenon, <1>1 DEF Live
<1>3. Sound(r) /\ r.stop = k.stop /\ r.thrtab[t].at = k.thrtab[t].at
    <2>1. Recycled(k, r, c)
        BY Zenon, <1>1, RecycleOK
    <2> QED BY Zenon, <1>2, <2>1 DEF Recycled
<1> HIDE DEF r
<1>4. Live(r, t)
    BY Zenon, <1>3 DEF Live
<1>5. Sound(Return(r, t))
    BY Zenon, <1>3, <1>4, ReturnOK DEF Return
<1> QED BY Zenon, <1>5 DEF r

LEMMA FirstExited ==
  ASSUME NEW t, Exited(t) # {}
  PROVE  First(Exited(t)) \in Exited(t)
<1>1. Exited(t) \subseteq Nat
    BY DEF Exited, Tid
<1> QED BY Zenon, <1>1, LeastNat

LEMMA syswaitOK ==
  ASSUME Sound(k), NEW t \in Tid, NEW tid \in 0..IDLE_TID, syswait(t, tid)
  PROVE  Sound(k')
<1>1. k.stop = "no" /\ k.thrtab[t].at = "user" /\ Live(k, t)
    BY Zenon DEF syswait, Calls, Live
<1>2. \/ Exited(t) # {} /\ k' = Return(recycle_thread(k, First(Exited(t))), t)
      \/ k' = Panic(k)
      \/ k' = Block(k, t, "joinany", NULL)
      \/ k' = Return(k, t)
      \/ tid \in Exited(t) /\ k' = Return(recycle_thread(k, tid), t)
      \/ tid # 0 /\ k' = Block(k, t, "join", <<tid>>)
    BY DEF syswait
<1>3. CASE Exited(t) # {} /\ k' = Return(recycle_thread(k, First(Exited(t))), t)
    BY Zenon, <1>1, <1>3, JoinOK, FirstExited
<1>4. CASE k' = Panic(k)
    BY Zenon, <1>1, <1>4, StopOK DEF Panic
<1>5. CASE k' = Block(k, t, "joinany", NULL)
    <2>1. "joinany" \in Place \ {"none", "exited"} /\ NULL \in Arg
        BY Zenon DEF Place, Arg
    <2> QED BY Zenon, <1>1, <1>5, <2>1, BlockOK
<1>6. CASE k' = Return(k, t)
    BY Zenon, <1>1, <1>6, CallReturns
<1>7. CASE tid \in Exited(t) /\ k' = Return(recycle_thread(k, tid), t)
    BY Zenon, <1>1, <1>7, JoinOK
<1>8. CASE tid # 0 /\ k' = Block(k, t, "join", <<tid>>)
    <2>1. tid \in 1..IDLE_TID
        BY <1>8, ProcessAssumption DEF IDLE_TID
    <2>2. "join" \in Place \ {"none", "exited"} /\ <<tid>> \in Arg
        BY Zenon, <2>1 DEF Place, Arg
    <2> QED BY Zenon, <1>1, <1>8, <2>2, BlockOK
<1> QED BY Zenon, <1>2, <1>3, <1>4, <1>5, <1>6, <1>7, <1>8

LEMMA thread_joinOK ==
  ASSUME Sound(k), NEW t \in Tid, thread_join(t)
  PROVE  Sound(k')
<1>1. k.stop = "no" /\ Live(k, t)
    BY Zenon DEF thread_join, Live
<1>2. \/ k.thrtab[t].arg[1] \in Exited(t) /\ k' = Return(recycle_thread(k, k.thrtab[t].arg[1]), t)
      \/ Exited(t) # {} /\ k' = Return(recycle_thread(k, First(Exited(t))), t)
    BY Zenon DEF thread_join
<1> QED BY Zenon, <1>1, <1>2, JoinOK, FirstExited

LEMMA sysforkOK ==
  ASSUME Sound(k), NEW t \in Tid, NEW res \in Residue, sysfork(t, res)
  PROVE  Sound(k')
<1> DEFINE P == {p \in Pid : ~ Busy(k, p)}
           T == {c \in Tid \ {0} : k.thrtab[c].at = "none"}
<1>1. k.stop = "no" /\ k.thrtab[t].at = "user"
    BY Zenon DEF sysfork, Calls
<1>2. P = {p \in Pid : ~ Used(p)}
    BY Zenon DEF Used, Busy
<1>3. \/ k' = Return(k, t) \/ k' = [k EXCEPT !.stop = "undefined"] \/ k' = Panic(k)
      \/ P # {} /\ T # {} /\ k' = Forked(k, t, First(P), First(T), res)
    BY Zenon, <1>2 DEF sysfork, Forked, Child
<1>4. CASE k' = Return(k, t) \/ k' = [k EXCEPT !.stop = "undefined"] \/ k' = Panic(k)
    BY Zenon, <1>1, <1>4, CallReturns, StopOK DEF Panic
<1>5. CASE P # {} /\ T # {} /\ k' = Forked(k, t, First(P), First(T), res)
    <2>1. P \subseteq Nat /\ T \subseteq Nat
        BY DEF Pid, Tid
    <2>2. First(P) \in P /\ First(T) \in T
        <3> HIDE DEF P, T
        <3> QED BY Zenon, <1>5, <2>1, LeastNat
    <2>3. ~ k.joined => First(P) = First(T)
        BY SMTT(60), <1>5, SameFirst
    <2>4. First(P) \in Pid /\ ~ Busy(k, First(P)) /\ First(T) \in Tid /\ k.thrtab[First(T)].at = "none"
        BY Zenon, <2>2
    <2> HIDE DEF P, T
    <2> QED BY Zenon, <1>1, <1>5, <2>3, <2>4, ForkOK
<1> QED BY Zenon, <1>3, <1>4, <1>5

LEMMA syssignalOK ==
  ASSUME Sound(k), NEW t \in Tid, NEW pid \in Pid, NEW sig \in Sig, syssignal(t, pid, sig)
  PROVE  Sound(k')
<1> DEFINE sigs == k.proctab[pid].pending \cup {sig}
           r == [k EXCEPT !.proctab[pid].pending = sigs]
<1>1. /\ k.stop = "no" /\ k.thrtab[t].at = "user" /\ Busy(k, pid)
      /\ k' = process_exit(k, t) \/ k' = Return(k, t) \/ k' = Return(r, t)
    BY Zenon DEF syssignal, Calls, Used, Busy
<1>2. CASE k' = process_exit(k, t)
    BY Zenon, <1>1, <1>2, ExitOK
<1>3. CASE k' = Return(k, t)
    BY Zenon, <1>1, <1>3, CallReturns
<1>4. CASE k' = Return(r, t)
    <2>1. k \in Tables
        BY Zenon DEF Sound
    <2>2. sigs \in SUBSET Nat
        BY Zenon, <1>1, <2>1, InUse, ProcessAssumption DEF Process
    <2>3. Sound(r)
        <3> HIDE DEF sigs
        <3> QED BY Zenon, <1>1, <2>2, PendOK
    <2>4. r.thrtab = k.thrtab /\ r.stop = k.stop
        BY Zenon, <2>1 DEF Tables
    <2> HIDE DEF r
    <2> QED BY Zenon, <1>1, <1>4, <2>3, <2>4, CallReturns
<1> QED BY Zenon, <1>1, <1>2, <1>3, <1>4

LEMMA OtherCallsOK ==
  ASSUME Sound(k), NEW t \in Tid, OtherCall(t) \/ sysexit(t) \/ sysrunningprocs(t)
  PROVE  Sound(k')
<1>1. k.stop = "no" /\ k.thrtab[t].at = "user"
    BY Zenon DEF OtherCall, sysexit, sysrunningprocs, Calls
<1>2. k' = Return(k, t) \/ k' = process_exit(k, t) \/ k' = Panic(k)
    BY Zenon DEF OtherCall, sysexit, sysrunningprocs
<1> QED BY Zenon, <1>1, <1>2, CallReturns, ExitOK, StopOK DEF Panic

LEMMA InitOK == Init => Sound(k)
<1> SUFFICES ASSUME Init PROVE Sound(k)
    BY Zenon
<1> DEFINE f1 == <<"file", 1>>
           main == [tid |-> 0, iotab |-> [fd \in Fd |-> NULL], pending |-> {},
                    blocked |-> {}, handled |-> {}]
           boot == [NoThread EXCEPT !.at = "boot", !.arg = f1]
<1>1. 0 \in Pid /\ 0 \in Tid /\ f1 \in File /\ f1 \in Intf /\ blk0 \in Intf
    BY ProcessAssumption DEF IDLE_TID, Pid, Tid, File, Intf, Device
<1>2. \A f \in File : f # blk0
    BY DEF File, blk0
<1>3. /\ k.proctab = [p \in Pid |-> IF p # 0 THEN NoProcess ELSE main]
      /\ k.thrtab = [t \in Tid |-> IF t # 0 THEN NoThread ELSE boot]
      /\ k.refcnt = [i \in Intf |-> IF i \in {blk0, f1} THEN 1 ELSE 0]
      /\ k.flags = [f \in File |-> IF f = f1 THEN 1 ELSE 0]
      /\ k.dropped = [i \in Intf |-> IF i \in {blk0, f1} THEN 1 ELSE 0]
      /\ k.joined = FALSE /\ k.opens = 0 /\ k.stop = "no"
    BY Zenon DEF Init
<1>4. k = [proctab |-> k.proctab, thrtab |-> k.thrtab, refcnt |-> k.refcnt, flags |-> k.flags,
           dropped |-> k.dropped, opens |-> k.opens, joined |-> k.joined, stop |-> k.stop]
    BY Zenon DEF Init
<1>5. main \in Process /\ main.tid = 0 /\ main.iotab = [fd \in Fd |-> NULL]
    BY Zenon, <1>1 DEF Process
<1> HIDE DEF f1
<1>6. /\ boot \in Thread /\ boot.at = "boot" /\ boot.arg = f1 /\ boot.proc = 0
      /\ NoThread \in Thread /\ NoThread.at = "none"
    BY Zenon, <1>1 DEF NoThread, Thread, Place
<1> HIDE DEF main, boot
<1>7. k \in Tables
    <2>1. k.proctab \in [Pid -> Process \cup {NoProcess}]
        BY Zenon, <1>3, <1>5
    <2>2. k.thrtab \in [Tid -> Thread]
        BY Zenon, <1>3, <1>6
    <2>3. k.refcnt \in [Intf -> Nat] /\ k.dropped \in [Intf -> Nat] /\ k.flags \in [File -> {0, 1}]
        BY <1>3
    <2>4. k.opens \in 0..OPENS
        BY <1>3, ProcessAssumption
    <2> QED BY Zenon, <1>3, <1>4, <2>1, <2>2, <2>3, <2>4 DEF Tables
<1>8. \A p \in Pid : Busy(k, p) <=> p = 0
    <2>1. main # NoProcess
        <3>1. NoProcess.tid # 0
            BY DEF NoProcess
        <3> QED BY Zenon, <1>5, <3>1
    <2> QED BY ZenonT(60), <1>3, <2>1 DEF Busy
<1>9. Counted(k)
    <2> SUFFICES ASSUME NEW i \in Intf PROVE k.refcnt[i] = Cardinality(Held(k, i)) + k.dropped[i]
        BY Zenon DEF Counted
    <2>1. \A fd \in Fd : main.iotab[fd] = NULL
        BY Zenon, <1>5
    <2>2. Held(k, i) = {}
        BY <1>1, <1>3, <1>8, <2>1, NotNull DEF Held, Busy
    <2>3. Cardinality(Held(k, i)) = 0
        BY Zenon, <2>2, FS_EmptySet
    <2> QED BY <1>3, <2>3
<1>10. Flagged(k)
    BY <1>2, <1>3 DEF Flagged, Intf
<1>11. \A t \in Tid : k.thrtab[t] = IF t # 0 THEN NoThread ELSE boot
    BY Zenon, <1>3
<1>12. Pinned(k)
    <2>1. \A t \in Tid : k.thrtab[t].at # "io" /\ (k.thrtab[t].at \in {"exec", "boot"} => k.thrtab[t].arg = f1)
        BY Zenon, <1>6, <1>11
    <2>2. k.dropped[f1] > 0
        BY <1>1, <1>3
    <2> QED BY Zenon, <1>1, <2>1, <2>2 DEF Pinned
<1>13. Owned(k)
    <2>1. \A t \in Tid : Live(k, t) => t = 0
        BY Zenon, <1>6, <1>11 DEF Live
    <2> QED BY <1>1, <1>3, <1>5, <1>6, <1>11, <2>1 DEF Owned
<1>14. Emptied(k)
    <2>1. \A fd \in Fd : main.iotab[fd] = NULL
        BY Zenon, <1>5
    <2> QED BY <1>3, <1>8, <2>1 DEF Emptied
<1>15. Numbered(k)
    BY ZenonT(60), <1>1, <1>3, <1>5, <1>6, <1>8, <1>11 DEF Numbered
<1> QED BY Zenon, <1>7, <1>9, <1>10, <1>12, <1>13, <1>14, <1>15 DEF Sound

LEMMA StepOK == IInv /\ [Next]_vars => IInv'
<1> SUFFICES ASSUME Sound(k), [Next]_vars PROVE Sound(k')
    BY Zenon DEF IInv
<1>1. CASE UNCHANGED vars
    BY Zenon, <1>1 DEF vars
<1>2. ASSUME NEW t \in Tid, Syscall(t) PROVE Sound(k')
    <2>1. CASE OtherCall(t) \/ sysexit(t) \/ sysrunningprocs(t)
        BY Zenon, <2>1, OtherCallsOK
    <2>2. CASE \E fd \in Fd : \/ sysfsopen(t, fd) \/ sysclose(t, fd) \/ sysread(t, fd)
                              \/ sysioctl(t, fd) \/ sysexec(t, fd)
        BY Zenon, <2>2, sysfsopenOK, syscloseOK, sysreadOK, sysexecOK
    <2>3. CASE \E fd \in Fd : \E name \in {"ser", "blk"}, instno \in 0..1 : sysdevopen(t, fd, name, instno)
        BY Zenon, <2>3, sysdevopenOK
    <2>4. CASE \E tid \in 0..IDLE_TID : syswait(t, tid)
        BY Zenon, <2>4, syswaitOK
    <2>5. CASE \E res \in Residue : sysfork(t, res)
        BY Zenon, <2>5, sysforkOK
    <2>6. CASE \E pid \in Pid, sig \in Sig : syssignal(t, pid, sig)
        BY Zenon, <2>6, syssignalOK
    <2> QED BY Zenon, <1>2, <2>1, <2>2, <2>3, <2>4, <2>5, <2>6 DEF Syscall
<1>3. ASSUME NEW t \in Tid, Trap(t) \/ process_exec(t) PROVE Sound(k')
    BY Zenon, <1>2, <1>3, process_execOK, process_exec_failsOK, ResumeOK, thread_joinOK DEF Trap
<1> QED BY Zenon, <1>1, <1>3 DEF Next

LEMMA Invariant == Spec => []IInv
<1>1. Init => IInv
    BY Zenon, InitOK DEF IInv
<1> QED BY <1>1, StepOK, PTL DEF Spec

-----------------------------------------------------------------------------
(* Theorems *)

(* No sequence of open, close, fork, exec, exit and signal miscounts an     *)
(* object's references: ioclose frees a file's slot exactly when the last   *)
(* descriptor goes, however many processes share it, and a call that blocks *)
(* keeps its object.                                                        *)
THEOREM ReferencesAreExact == Spec => []RefcntExact
<1>1. IInv => RefcntExact
    <2> SUFFICES ASSUME Sound(k) PROVE RefcntExact
        BY Zenon DEF IInv
    <2>1. k \in Tables /\ Counted(k) /\ Flagged(k) /\ Pinned(k) /\ Owned(k)
        BY Zenon DEF Sound
    <2>2. TypeOK
        <3>1. \A p \in Pid : k.proctab[p] = NoProcess \/ k.proctab[p] \in Process
            BY Zenon, <2>1, Parts
        <3> QED BY Zenon, <2>1, <3>1, Parts DEF TypeOK
    <2>3. \A i \in Intf : k.refcnt[i] = Holders(i) + k.dropped[i]
        BY Zenon, <2>1 DEF Counted, Holders
    <2>4. ASSUME NEW t \in Tid, k.thrtab[t].at \in {"io", "exec", "boot"}
          PROVE  k.refcnt[k.thrtab[t].arg] > 0
        <3>1. CASE k.thrtab[t].at = "io"
            <4> DEFINE p == k.thrtab[t].proc
            <4>1. PICK fd \in Fd : k.thrtab[t].arg \in Intf /\ k.proctab[p].iotab[fd] = k.thrtab[t].arg
                BY Zenon, <2>1, <3>1 DEF Pinned
            <4>2. p \in Pid /\ Busy(k, p)
                BY Zenon, <2>1, <3>1, Caller DEF Live
            <4>3. k.proctab[p].iotab[fd] # NULL
                BY Zenon, <4>1, NotNull
            <4> HIDE DEF p
            <4> QED BY Zenon, <4>1, <4>2, <4>3, FdCounts
        <3>2. CASE k.thrtab[t].at \in {"exec", "boot"}
            <4> DEFINE i == k.thrtab[t].arg
            <4>1. i \in Intf /\ k.dropped[i] > 0
                BY Zenon, <2>1, <3>2 DEF Pinned
            <4>2. k.refcnt[i] = Cardinality(Held(k, i)) + k.dropped[i] /\ k.dropped[i] \in Nat
                BY Zenon, <2>1, <4>1, Parts DEF Counted
            <4>3. Cardinality(Held(k, i)) \in Nat
                BY Zenon, HeldFinite
            <4> QED BY SMTT(60), <4>1, <4>2, <4>3
        <3> QED BY Zenon, <2>4, <3>1, <3>2
    <2> QED BY Zenon, <2>1, <2>2, <2>3, <2>4 DEF RefcntExact, Flagged
<1> QED BY <1>1, Invariant, PTL

(* However the tables are filled, emptied and reused, a thread runs the     *)
(* process that names it, no two threads run one process, and what an ended *)
(* process held is closed.                                                  *)
THEOREM ThreadsAndProcessesMatch == Spec => []ThreadsMatch
<1>1. IInv => ThreadsMatch
    BY Zenon DEF IInv, Sound, Owned, Emptied, ThreadsMatch, Alive, Live, Used, Busy, Running
<1> QED BY <1>1, Invariant, PTL

(* The process id that sysfork returns is the thread id that syswait takes, *)
(* as long as no thread has been joined.                                    *)
THEOREM ForkReturnsThread == Spec => []ForkNumbersThread
<1>1. IInv => ForkNumbersThread
    BY Zenon DEF IInv, Sound, Numbered, ForkNumbersThread, Used, Busy
<1> QED BY <1>1, Invariant, PTL

-----------------------------------------------------------------------------
(* What the way back to user mode does to SIGTERM. *)

Taken(s, t) == SIGTERM \notin cur(s, t).pending \ cur(s, t).blocked

Clear(s, t) == s.thrtab[t].at \in {"user", "faulting"} /\ s.stop = "no" => Taken(s, t)

LEMMA ExitClear ==
  ASSUME NEW s, Sound(s), NEW t \in Tid, Live(s, t)
  PROVE  Clear(process_exit(s, t), t)
<1> DEFINE p == s.thrtab[t].proc
           c == ioclose_all(s, p)
           r == process_exit(s, t)
<1>1. s \in Tables /\ Owned(s)
    BY Zenon DEF Sound
<1>2. p \in Pid /\ Busy(s, p)
    BY Zenon, <1>1, Caller
<1> HIDE DEF p
<1>3. c \in Tables
    BY Zenon, <1>2, CloseAll
<1>4. r = IF t = 0 THEN [c EXCEPT !.stop = "halt"]
          ELSE [c EXCEPT !.thrtab[t].at = "exited", !.thrtab[t].arg = NULL]
    BY Zenon DEF process_exit, p
<1>5. c.thrtab \in [Tid -> Thread]
    BY Zenon, <1>3, Parts
<1> HIDE DEF c, r
<1>6. r.stop = "halt" \/ r.thrtab[t].at = "exited"
    BY <1>3, <1>4, <1>5 DEF Tables, Thread
<1>7. Clear(r, t)
    BY Zenon, <1>6 DEF Clear
<1> QED BY Zenon, <1>7 DEF r

(* signal_deliver takes the lowest signal first. *)
LEMMA DeliverClear ==
  ASSUME NEW s, Sound(s), NEW t \in Tid, s.thrtab[t].at \in {"user", "faulting"}
  PROVE  Clear(signal_deliver(s, t), t)
<1> DEFINE p == s.thrtab[t].proc
           ready == (s.proctab[p].pending \ s.proctab[p].blocked) \cap 1..(NSIG - 1)
           sig == First(ready)
           s1 == [s EXCEPT !.proctab[p].pending = s.proctab[p].pending \ {sig}]
           r == signal_deliver(s, t)
<1>1. s \in Tables /\ Owned(s) /\ Live(s, t)
    BY Zenon DEF Sound, Live
<1>2. p \in Pid /\ Busy(s, p)
    BY Zenon, <1>1, Caller
<1>3. s.proctab[p] \in Process /\ s.proctab \in [Pid -> Process \cup {NoProcess}]
    BY ZenonT(60), <1>1, <1>2, InUse, Parts
<1>4. ready \subseteq Nat /\ SIGTERM \in 1..(NSIG - 1) /\ \A m \in ready : m >= 1
    BY SMTT(60) DEF NSIG, SIGTERM
<1>5. ready # {} => sig \in ready /\ \A m \in ready : sig <= m
    <2> HIDE DEF ready
    <2> QED BY Zenon, <1>4, LeastNat
<1>6. r = IF ready = {} THEN s ELSE signal_handle(s1, t, sig)
    BY Zenon DEF signal_deliver, First
<1>7. ASSUME SIGTERM \in ready PROVE sig = SIGTERM
    <2> HIDE DEF sig, ready
    <2>1. sig \in Nat /\ sig >= 1 /\ sig <= 1
        BY Zenon, <1>4, <1>5, <1>7 DEF SIGTERM
    <2> QED BY <2>1 DEF SIGTERM
<1>8. Taken(s, t) <=> SIGTERM \notin ready
    BY Zenon, <1>4 DEF Taken, cur
<1> HIDE DEF ready, sig
<1>9. /\ s1.thrtab = s.thrtab
      /\ s1.proctab[p].pending = s.proctab[p].pending \ {sig}
      /\ s1.proctab[p].blocked = s.proctab[p].blocked
    <2> HIDE DEF p
    <2> QED BY Zenon, <1>1, <1>2, <1>3 DEF Tables, Process
<1>10. Sound(s1)
    <2>1. s.proctab[p].pending \ {sig} \in SUBSET Nat
        BY Zenon, <1>3 DEF Process
    <2> HIDE DEF p
    <2> QED BY Zenon, <1>2, <2>1, PendOK
<1> HIDE DEF s1, r
<1>11. CASE ready = {}
    BY Zenon, <1>6, <1>8, <1>11 DEF Clear, r
<1>12. CASE r = s1
    <2>1. Taken(s1, t)
        BY Zenon, <1>7, <1>8, <1>9 DEF Taken, cur
    <2> QED BY Zenon, <1>12, <2>1 DEF Clear, r
<1>13. CASE r = process_exit(s1, t)
    BY Zenon, <1>1, <1>9, <1>10, <1>13, ExitClear DEF Live, r
<1>14. ready = {} \/ r = s1 \/ r = process_exit(s1, t)
    BY Zenon, <1>6 DEF signal_handle
<1> QED BY Zenon, <1>11, <1>12, <1>13, <1>14

LEMMA ReturnClear ==
  ASSUME NEW s, Sound(s), NEW t \in Tid, Live(s, t), NEW at \in {"user", "faulting"}
  PROVE  Clear(umode_excp_handler(s, t, at), t)
<1> DEFINE b == Block(s, t, at, NULL)
<1>1. at \in Place \ {"none", "exited"} /\ at \notin {"io", "exec", "boot"} /\ NULL \in Arg
    BY Zenon DEF Place, Arg
<1>2. Sound(b)
    BY Zenon, <1>1, BlockOK
<1>3. b.thrtab[t].at = at
    BY Parts DEF Sound, Tables, Block, Thread
<1>4. umode_excp_handler(s, t, at) = signal_deliver(b, t)
    BY Zenon DEF umode_excp_handler, Block
<1> HIDE DEF b
<1> QED BY Zenon, <1>2, <1>3, <1>4, DeliverClear

(* A call whose work left the threads as they were. *)
LEMMA CallClear ==
  ASSUME NEW s, Sound(s), NEW t \in Tid, k.thrtab[t].at = "user", s.thrtab = k.thrtab
  PROVE  Clear(Return(s, t), t)
BY Zenon, ReturnClear DEF Return, Live

(* A thread that blocks is not back, and a kernel that stopped has none. *)
LEMMA BlockClear ==
  ASSUME NEW s \in Tables, NEW t \in Tid, NEW at, at \notin {"user", "faulting"}, NEW arg
  PROVE  Clear(Block(s, t, at, arg), t)
<1>1. Block(s, t, at, arg).thrtab[t].at = at
    BY Parts DEF Tables, Block, Thread
<1> QED BY Zenon, <1>1 DEF Clear

LEMMA PanicClear ==
  ASSUME NEW s \in Tables, NEW t \in Tid
  PROVE  Clear(Panic(s), t)
<1>1. Panic(s).stop = "panic"
    BY Zenon DEF Panic, Tables
<1> QED BY Zenon, <1>1 DEF Clear

LEMMA JoinClear ==
  ASSUME Sound(k), NEW t \in Tid, Live(k, t), NEW c \in Exited(t)
  PROVE  Clear(Return(recycle_thread(k, c), t), t)
<1> DEFINE b == recycle_thread(k, c)
<1>1. c \in Tid /\ k.thrtab[c].at = "exited" /\ c # t
    BY Zenon DEF Exited, Live
<1>2. Sound(b) /\ b.thrtab[t].at = k.thrtab[t].at
    <2>1. Recycled(k, b, c)
        BY Zenon, <1>1, RecycleOK
    <2> HIDE DEF b
    <2> QED BY Zenon, <1>1, <2>1 DEF Recycled
<1> HIDE DEF b
<1>3. Clear(Return(b, t), t)
    BY Zenon, <1>2, ReturnClear DEF Return, Live
<1> QED BY Zenon, <1>3 DEF b

LEMMA OpenClear ==
  ASSUME Sound(k), NEW t \in Tid, NEW fd \in Fd,
         sysfsopen(t, fd) \/ \E name \in {"ser", "blk"}, instno \in 0..1 : sysdevopen(t, fd, name, instno)
  PROVE  Clear(k', t)
<1>1. k.stop = "no" /\ k.thrtab[t].at = "user" /\ k.opens < OPENS
    BY Zenon DEF sysfsopen, sysdevopen, Calls
<1>2. k' = Return(k, t) \/ \E i \in Intf : k.refcnt[i] = 0 /\ k' = Return(set_iotab(k, t, fd, i), t)
    <2>1. CASE sysfsopen(t, fd)
        BY Zenon, <2>1, OpensFree DEF sysfsopen
    <2>2. ASSUME NEW name, NEW instno, sysdevopen(t, fd, name, instno)
          PROVE  k' = Return(k, t) \/ \E i \in Intf : k.refcnt[i] = 0 /\ k' = Return(set_iotab(k, t, fd, i), t)
        <3> DEFINE i == openfn(k, device_open(name, instno))
        <3>1. i # EBUSY => i \in Intf /\ k.refcnt[i] = 0
            BY Zenon DEF openfn, Intf, Device
        <3> QED BY Zenon, <2>2, <3>1 DEF sysdevopen
    <2> QED BY Zenon, <2>1, <2>2
<1>3. CASE k' = Return(k, t)
    BY Zenon, <1>1, <1>3, CallClear
<1>4. ASSUME NEW i \in Intf, k.refcnt[i] = 0, k' = Return(set_iotab(k, t, fd, i), t)
      PROVE  Clear(k', t)
    <2> DEFINE r == set_iotab(k, t, fd, i)
    <2>1. Sound(r) /\ r.thrtab = k.thrtab
        BY Zenon, <1>1, <1>4, OpenOK
    <2> HIDE DEF r
    <2>2. Clear(Return(r, t), t)
        BY Zenon, <1>1, <2>1, CallClear
    <2> QED BY Zenon, <1>4, <2>2 DEF r
<1> QED BY Zenon, <1>2, <1>3, <1>4

LEMMA CloseClear ==
  ASSUME Sound(k), NEW t \in Tid, NEW fd \in Fd, sysclose(t, fd)
  PROVE  Clear(k', t)
<1> DEFINE r == [ioclose(k, cur(k, t).iotab[fd]) EXCEPT !.proctab[k.thrtab[t].proc].iotab[fd] = NULL]
<1>1. /\ k.stop = "no" /\ k.thrtab[t].at = "user" /\ cur(k, t).iotab[fd] # NULL
      /\ k' = Return(r, t)
    BY Zenon DEF sysclose, Calls
<1>2. Sound(r) /\ r.thrtab = k.thrtab
    BY Zenon, <1>1, CloseOK
<1> HIDE DEF r
<1> QED BY Zenon, <1>1, <1>2, CallClear

LEMMA SignalClear ==
  ASSUME Sound(k), NEW t \in Tid, NEW pid \in Pid, NEW sig \in Sig, syssignal(t, pid, sig)
  PROVE  Clear(k', t)
<1> DEFINE sigs == k.proctab[pid].pending \cup {sig}
           r == [k EXCEPT !.proctab[pid].pending = sigs]
<1>1. /\ k.thrtab[t].at = "user" /\ Busy(k, pid)
      /\ k' = process_exit(k, t) \/ k' = Return(k, t) \/ k' = Return(r, t)
    BY Zenon DEF syssignal, Calls, Used, Busy
<1>2. CASE k' = process_exit(k, t)
    BY Zenon, <1>1, <1>2, ExitClear DEF Live
<1>3. CASE k' = Return(k, t)
    BY Zenon, <1>1, <1>3, CallClear
<1>4. CASE k' = Return(r, t)
    <2>1. k \in Tables
        BY Zenon DEF Sound
    <2>2. sigs \in SUBSET Nat
        BY Zenon, <1>1, <2>1, InUse, ProcessAssumption DEF Process
    <2>3. Sound(r)
        <3> HIDE DEF sigs
        <3> QED BY Zenon, <1>1, <2>2, PendOK
    <2>4. r.thrtab = k.thrtab
        BY Zenon, <2>1 DEF Tables
    <2> HIDE DEF r
    <2> QED BY Zenon, <1>1, <1>4, <2>3, <2>4, CallClear
<1> QED BY Zenon, <1>1, <1>2, <1>3, <1>4

LEMMA SyscallClear ==
  ASSUME Sound(k), NEW t \in Tid, Syscall(t)
  PROVE  Clear(k', t)
<1>1. k \in Tables /\ Live(k, t) /\ k.thrtab[t].at = "user"
    BY Zenon DEF Sound, Syscall, OtherCall, sysexit, sysrunningprocs, sysfsopen, sysclose, sysread, sysioctl,
           sysexec, sysdevopen, syswait, sysfork, syssignal, Calls, Live
<1>2. CASE OtherCall(t) \/ sysexit(t) \/ sysrunningprocs(t)
    <2>1. k' = Return(k, t) \/ k' = process_exit(k, t) \/ k' = Panic(k)
        BY Zenon, <1>2 DEF OtherCall, sysexit, sysrunningprocs
    <2> QED BY Zenon, <1>1, <2>1, CallClear, ExitClear, PanicClear
<1>3. ASSUME NEW fd \in Fd, sysread(t, fd) \/ sysioctl(t, fd) PROVE Clear(k', t)
    <2>1. k' = Panic(k) \/ k' = Block(k, t, "io", cur(k, t).iotab[fd])
        BY Zenon, <1>3 DEF sysread, sysioctl
    <2>2. "io" \notin {"user", "faulting"}
        BY Zenon
    <2> QED BY Zenon, <1>1, <2>1, <2>2, BlockClear, PanicClear
<1>4. ASSUME NEW fd \in Fd, sysexec(t, fd) PROVE Clear(k', t)
    <2> DEFINE i == cur(k, t).iotab[fd]
               r == [k EXCEPT !.proctab[k.thrtab[t].proc].iotab[fd] = NULL, !.dropped[i] = @ + 1]
    <2>1. k' = [r EXCEPT !.thrtab[t].at = "exec", !.thrtab[t].arg = i]
        BY Zenon, <1>4 DEF sysexec, Block
    <2>2. k.thrtab \in [Tid -> Thread]
        BY Zenon, <1>1, Parts
    <2> HIDE DEF i
    <2>3. k'.thrtab[t].at = "exec"
        BY <1>1, <2>1, <2>2 DEF Tables, Thread
    <2> QED BY Zenon, <2>3 DEF Clear
<1>5. ASSUME NEW tid \in 0..IDLE_TID, syswait(t, tid) PROVE Clear(k', t)
    <2>1. \/ Exited(t) # {} /\ k' = Return(recycle_thread(k, First(Exited(t))), t)
          \/ k' = Panic(k)
          \/ k' = Block(k, t, "joinany", NULL)
          \/ k' = Return(k, t)
          \/ tid \in Exited(t) /\ k' = Return(recycle_thread(k, tid), t)
          \/ k' = Block(k, t, "join", <<tid>>)
        BY <1>5 DEF syswait
    <2>2. CASE \E c \in Exited(t) : k' = Return(recycle_thread(k, c), t)
        BY Zenon, <1>1, <2>2, JoinClear
    <2>3. CASE k' = Panic(k) \/ k' = Return(k, t)
        BY Zenon, <1>1, <2>3, PanicClear, CallClear
    <2>4. CASE k' = Block(k, t, "joinany", NULL) \/ k' = Block(k, t, "join", <<tid>>)
        <3>1. "joinany" \notin {"user", "faulting"} /\ "join" \notin {"user", "faulting"}
            BY Zenon
        <3> QED BY Zenon, <1>1, <2>4, <3>1, BlockClear
    <2> QED BY Zenon, <2>1, <2>2, <2>3, <2>4, FirstExited
<1>6. ASSUME NEW res \in Residue, sysfork(t, res) PROVE Clear(k', t)
    <2>1. \/ k' = Return(k, t) \/ k' = [k EXCEPT !.stop = "undefined"] \/ k' = Panic(k)
          \/ \E p, c : k' = Forked(k, t, p, c, res)
        BY Zenon, <1>6 DEF sysfork, Forked, Child
    <2>2. ASSUME NEW p, NEW c PROVE Forked(k, t, p, c, res).thrtab[t].at = "ret"
        BY <1>1, Parts DEF Forked, ioref_all, Tables, Thread
    <2>3. ASSUME NEW p, NEW c PROVE Clear(Forked(k, t, p, c, res), t)
        BY Zenon, <2>2 DEF Clear
    <2>4. Clear([k EXCEPT !.stop = "undefined"], t)
        <3>1. [k EXCEPT !.stop = "undefined"].stop = "undefined"
            BY Zenon, <1>1 DEF Tables
        <3> QED BY Zenon, <3>1 DEF Clear
    <2> QED BY Zenon, <1>1, <2>1, <2>3, <2>4, CallClear, PanicClear
<1> QED BY Zenon, <1>1, <1>2, <1>3, <1>4, <1>5, <1>6, OpenClear, CloseClear, SignalClear DEF Syscall

LEMMA TrapClear ==
  ASSUME Sound(k), NEW t \in Tid, Trap(t)
  PROVE  Clear(k', t)
<1>1. CASE process_exec_fails(t) \/ Fault(t) \/ Resume(t)
    <2>1. k \in Tables /\ Live(k, t)
        BY Zenon, <1>1 DEF process_exec_fails, Fault, Resume, Live, Sound
    <2>2. k' = Panic(k) \/ \E at \in {"user", "faulting"} : k' = umode_excp_handler(k, t, at)
        BY Zenon, <1>1 DEF process_exec_fails, Fault, Resume, Return
    <2> QED BY Zenon, <2>1, <2>2, ReturnClear, PanicClear
<1>2. CASE thread_join(t)
    <2>1. Live(k, t) /\ \E c \in Exited(t) : k' = Return(recycle_thread(k, c), t)
        BY Zenon, <1>2, FirstExited DEF thread_join, Live
    <2> QED BY Zenon, <2>1, JoinClear
<1> QED BY Zenon, <1>1, <1>2, SyscallClear DEF Trap

(* A thread that returns from a call or a fault has taken a SIGTERM that it *)
(* does not block, for every number of processes and threads: signal_deliver*)
(* takes the lowest signal first, whatever else is pending, and every way   *)
(* through umode_excp_handler calls it last (excp.c).  An exec that         *)
(* succeeds and a forked child enter user mode another way.                 *)
THEOREM TermIsDelivered == Spec => TermAtReturn
<1> DEFINE Step == \A t \in Tid :
                     /\ k' # k /\ k'.stop = "no" /\ k'.thrtab[t].at \in {"user", "faulting"}
                     /\ Due(k', t) /\ OthersStay(t)
                     => ~ Trap(t)
<1>1. ASSUME Sound(k) PROVE Step
    BY Zenon, <1>1, TrapClear DEF Clear, Taken, Due
<1>2. IInv /\ [Next]_vars => [Step]_vars
    BY Zenon, <1>1 DEF IInv
<1> QED BY <1>2, Invariant, PTL DEF Spec, TermAtReturn
=============================================================================
