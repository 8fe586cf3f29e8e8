------------------------------ MODULE Process -------------------------------
(***************************************************************************)
(* Processes, their descriptors and their signals: the system calls of     *)
(* syscall.c, process.c and signals.c, the reference counts of io.h and    *)
(* the device table of device.c.                                           *)
(*                                                                         *)
(* Everything is one record k of kernel tables and every operation an      *)
(* operator from tables to tables, so that a call is composed as the code  *)
(* composes it: the call itself, then signal_deliver on the way back to    *)
(* user mode.  Kernel code gives up the hart only where it blocks: in a    *)
(* read, a write, a load or a wait.  In user mode a thread is preempted    *)
(* anywhere, so any thread may be the next to make a call.                 *)
(*                                                                         *)
(* Memory spaces are in Memory, the scheduler is in Threads, and what a    *)
(* file holds is in Kfs; here an open file is a slot of file_structs.      *)
(*                                                                         *)
(* An operator X_Y, defined before X, is X with the fault Y.               *)
(***************************************************************************)
EXTENDS Integers, FiniteSets, Sequences

CONSTANTS
  NPROC, NTHR,          \* entries of proctab and of thrtab
  FS_MAXOPEN,           \* entries of file_structs
  Fd,                   \* descriptors: indices of iotab
  Sig,                  \* signals a program sends
  Residue,              \* what a new process may find in its signal fields
  OPENS                 \* bound: successful opens

ASSUME ProcessAssumption ==
  /\ NPROC \in Nat \ {0} /\ NTHR \in Nat /\ NTHR > 2
  /\ FS_MAXOPEN \in Nat \ {0} /\ IsFiniteSet(Fd)
  /\ Sig \subseteq Nat /\ OPENS \in Nat
  /\ Residue \subseteq [pending : SUBSET Nat, blocked : SUBSET Nat, handled : SUBSET Nat]

SIGTERM == 1
SIGKILL == 2
NSIG == 10
NULL == <<>>

Pid == 0..(NPROC - 1)
IDLE_TID == NTHR - 1
Tid == 0..(IDLE_TID - 1)
File == {<<"file", i>> : i \in 1..FS_MAXOPEN}

(***************************************************************************)
(* The device table as main fills it.  The first serial port is the        *)
(* console's and always refuses; the disk is opened by main for fs_mount.  *)
(* A full table, on which device_register panics, is out of reach: main    *)
(* registers fewer devices than the table has entries.                     *)
(***************************************************************************)
EBUSY == <<"ebusy">>
blk0 == <<"blk", 0>>
ser1 == <<"ser", 1>>

device_register(tab, name, intf) == Append(tab, [name |-> name, intf |-> intf])

devtab ==
  device_register(device_register(device_register(
    <<>>, "ser", EBUSY), "ser", ser1), "blk", blk0)

Device == {blk0, ser1}
Intf == File \cup Device

VARIABLES
  k                     \* the kernel's tables

vars == <<k>>

(* Where a thread is: running or ready in user mode, blocked in a call, or  *)
(* taking a fault at every instruction since its program could not be       *)
(* loaded.  At "ret" a call has done its work and its thread is ready.      *)
Place == {"none", "boot", "user", "faulting", "io", "ret", "exec", "join", "joinany",
          "exited"}

Process == [tid : Tid, iotab : [Fd -> Intf \cup {NULL}], pending : SUBSET Nat,
            blocked : SUBSET Nat, handled : SUBSET Nat]
Thread == [at : Place, proc : Pid, parent : Tid, arg : Intf \cup {<<t>> : t \in 1..IDLE_TID} \cup {NULL}]
NoThread == [at |-> "none", proc |-> 0, parent |-> 0, arg |-> NULL]
NoProcess == [tid |-> -1]

TypeOK ==
  /\ \A p \in Pid : k.proctab[p] = NoProcess \/ k.proctab[p] \in Process
  /\ k.thrtab \in [Tid -> Thread]
  /\ k.refcnt \in [Intf -> Nat]
  /\ k.flags \in [File -> {0, 1}]
  /\ k.dropped \in [Intf -> Nat]
  /\ k.opens \in 0..OPENS
  /\ k.joined \in BOOLEAN
  /\ k.stop \in {"no", "halt", "panic", "undefined"}

Used(p) == k.proctab[p] # NoProcess
Alive(t) == k.thrtab[t].at \notin {"none", "exited"}
Running(p) == \E t \in Tid : Alive(t) /\ k.thrtab[t].proc = p

-----------------------------------------------------------------------------
(* I/O objects and the tables that hold them. *)

(* How many descriptors of a table hold an object. *)
Uses(tab, i) == Cardinality({fd \in Fd : tab[fd] = i})

(* ioref on every descriptor of a table. *)
ioref_all(s, tab) == [s EXCEPT !.refcnt = [i \in Intf |-> @[i] + Uses(tab, i)]]

(* The close operation of the object: fs_close frees the slot.  uart_close *)
(* only silences the device.                                               *)
close(s, i) == IF i \in File THEN [s EXCEPT !.flags[i] = 0] ELSE s

ioclose_Early(s, i) ==
  IF s.refcnt[i] = 0 THEN s
  ELSE [close(s, i) EXCEPT !.refcnt[i] = @ - 1]

ioclose(s, i) ==
  IF s.refcnt[i] = 0 THEN s
  ELSE LET s1 == [s EXCEPT !.refcnt[i] = @ - 1]
       IN  IF s1.refcnt[i] = 0 THEN close(s1, i) ELSE s1

(* ioclose on every descriptor in use of a process.  Each takes a          *)
(* reference while there is one, and the one that takes the last closes    *)
(* the object.                                                             *)
ioclose_all(s, p) ==
  LET tab == s.proctab[p].iotab
  IN  [s EXCEPT !.proctab[p].iotab = [fd \in Fd |-> NULL],
                !.refcnt = [i \in Intf |-> IF Uses(tab, i) < @[i] THEN @[i] - Uses(tab, i) ELSE 0],
                !.flags = [f \in File |-> IF s.refcnt[f] > 0 /\ Uses(tab, f) >= s.refcnt[f]
                                          THEN 0 ELSE @[f]]]

(* The instno-th device of that name, or nothing. *)
device_open(name, instno) ==
  LET named == SelectSeq(devtab, LAMBDA d : d.name = name)
  IN  IF instno < Len(named) THEN named[instno + 1].intf ELSE NULL

(* uart_open refuses a port with references, uart_open_ebusy and, for the  *)
(* disk that main keeps open, vioblk_open refuse always.                   *)
openfn(s, i) == IF i = ser1 /\ s.refcnt[i] = 0 THEN i ELSE EBUSY

(* fs_open takes the first slot that is not flagged. *)
free_slots(s) == {i \in 1..FS_MAXOPEN : s.flags[<<"file", i>>] = 0}
fs_open(s) == LET free == free_slots(s)
              IN  IF free = {} THEN EBUSY
                  ELSE <<"file", CHOOSE i \in free : \A j \in free : i <= j>>

cur(s, t) == s.proctab[s.thrtab[t].proc]

(* The new object gets its one reference; what the descriptor held before  *)
(* is forgotten, not closed.                                               *)
set_iotab(s, t, fd, i) ==
  LET p == s.thrtab[t].proc
      old == s.proctab[p].iotab[fd]
      s1 == IF old = NULL THEN s ELSE [s EXCEPT !.dropped[old] = @ + 1]
  IN  [s1 EXCEPT !.proctab[p].iotab[fd] = i, !.refcnt[i] = 1,
                 !.flags = IF i \in File THEN [@ EXCEPT ![i] = 1] ELSE @,
                 !.opens = @ + 1]

-----------------------------------------------------------------------------
(* The end of a process and the way back to user mode. *)

(* Closes every descriptor and ends the thread; the entry of proctab stays. *)
process_exit_Keep(s, t) ==
  [s EXCEPT !.thrtab[t].at = "exited", !.thrtab[t].arg = NULL]

process_exit_Free(s, t) ==
  LET p == s.thrtab[t].proc
  IN  [s EXCEPT !.thrtab[t] = NoThread, !.proctab[p].iotab = [fd \in Fd |-> NULL],
                !.refcnt = [i \in Intf |-> @[i] - Uses(s.proctab[p].iotab, i)]]

process_exit(s, t) ==
  LET s1 == ioclose_all(s, s.thrtab[t].proc)
  IN  IF t = 0 THEN [s1 EXCEPT !.stop = "halt"]
      ELSE [s1 EXCEPT !.thrtab[t].at = "exited", !.thrtab[t].arg = NULL]

(* Only the default action of SIGTERM does anything. *)
signal_handle(s, t, sig) ==
  IF sig = SIGTERM /\ sig \notin cur(s, t).handled THEN process_exit(s, t) ELSE s

(* One signal for each return: the lowest that is pending and not blocked. *)
signal_deliver_Last(s, t) ==
  LET p == s.thrtab[t].proc
      ready == (s.proctab[p].pending \ s.proctab[p].blocked) \cap 1..(NSIG - 1)
      sig == CHOOSE x \in ready : \A y \in ready : x >= y
  IN  IF ready = {} THEN s
      ELSE signal_handle([s EXCEPT !.proctab[p].pending = @ \ {sig}], t, sig)

signal_deliver(s, t) ==
  LET p == s.thrtab[t].proc
      ready == (s.proctab[p].pending \ s.proctab[p].blocked) \cap 1..(NSIG - 1)
      sig == CHOOSE x \in ready : \A y \in ready : x <= y
  IN  IF ready = {} THEN s
      ELSE signal_handle([s EXCEPT !.proctab[p].pending = @ \ {sig}], t, sig)

(* syscall_handler has stored the result: the thread goes to place at.     *)
umode_excp_handler(s, t, at) ==
  signal_deliver([s EXCEPT !.thrtab[t].at = at, !.thrtab[t].arg = NULL], t)

Return(s, t) == umode_excp_handler(s, t, "user")
Block(s, t, at, arg) == [s EXCEPT !.thrtab[t].at = at, !.thrtab[t].arg = arg]
Panic(s) == [s EXCEPT !.stop = "panic"]

-----------------------------------------------------------------------------
(* The system calls of a thread t in user mode. *)

Calls(t) == k.stop = "no" /\ k.thrtab[t].at = "user"

(* A call that is refused, or that touches none of these tables. *)
OtherCall(t) ==
  /\ Calls(t)
  /\ k' = Return(k, t)

sysdevopen(t, fd, name, instno) ==
  /\ Calls(t) /\ k.opens < OPENS
  /\ LET i == openfn(k, device_open(name, instno))
     IN  k' = Return(IF i = EBUSY THEN k ELSE set_iotab(k, t, fd, i), t)

(* fs_open sleeps in the disk with fs_lock held, so that no other open     *)
(* takes the slot before it is flagged: Kfs has the steps.                 *)
sysfsopen(t, fd) ==
  /\ Calls(t) /\ k.opens < OPENS
  /\ LET i == fs_open(k)
     IN  k' = Return(IF i = EBUSY THEN k ELSE set_iotab(k, t, fd, i), t)

sysclose(t, fd) ==
  /\ Calls(t) /\ cur(k, t).iotab[fd] # NULL
  /\ k' = Return([ioclose(k, cur(k, t).iotab[fd])
                    EXCEPT !.proctab[k.thrtab[t].proc].iotab[fd] = NULL], t)

(* sysread and syswrite may block in the driver, with the object in hand.  *)
sysread(t, fd) ==
  /\ Calls(t) /\ cur(k, t).iotab[fd] # NULL
  /\ k' = Block(k, t, "io", cur(k, t).iotab[fd])

(* The ctl operation is called through the table unchecked, and the serial *)
(* ports have none: the jump to address 0 is an exception in the kernel.   *)
sysioctl(t, fd) ==
  /\ Calls(t) /\ cur(k, t).iotab[fd] # NULL
  /\ k' = IF cur(k, t).iotab[fd] = ser1 THEN Panic(k)
          ELSE Block(k, t, "io", cur(k, t).iotab[fd])

(* The descriptor is taken out of the table and its object is closed by    *)
(* nobody; elf_load reads it, and the process may block there.             *)
sysexec(t, fd) ==
  /\ Calls(t) /\ cur(k, t).iotab[fd] # NULL
  /\ LET i == cur(k, t).iotab[fd]
     IN  k' = Block([k EXCEPT !.proctab[k.thrtab[t].proc].iotab[fd] = NULL,
                              !.dropped[i] = @ + 1], t, "exec", i)

(* process_exec ends in _thread_finish_jump, without signal_deliver. *)
process_exec(t) ==
  /\ k.stop = "no" /\ k.thrtab[t].at \in {"boot", "exec"}
  /\ k' = Block(k, t, "user", NULL)

(* Or it returns: to a program that is no longer mapped, or to whatever of *)
(* the new one was mapped in its place before the load failed.  main has   *)
(* none to return to.                                                      *)
process_exec_fails(t) ==
  /\ k.stop = "no"
  /\ \/ /\ k.thrtab[t].at = "boot"
        /\ k' = Panic(k)
     \/ /\ k.thrtab[t].at = "exec"
        /\ \E at \in {"user", "faulting"} : k' = umode_excp_handler(k, t, at)

Fault(t) ==
  /\ k.stop = "no" /\ k.thrtab[t].at = "faulting"
  /\ k' = umode_excp_handler(k, t, "faulting")

(* A call that blocked, or a fork whose child ran first, is resumed. *)
Resume(t) ==
  /\ k.stop = "no" /\ k.thrtab[t].at \in {"io", "ret"}
  /\ k' = Return(k, t)

(* recycle_thread: the children of the thread become its parent's. *)
recycle_thread(s, c) ==
  [s EXCEPT !.thrtab = [t \in Tid |->
       IF t = c THEN NoThread
       ELSE IF @[t].at # "none" /\ @[t].parent = c
            THEN [@[t] EXCEPT !.parent = s.thrtab[c].parent] ELSE @[t]],
     !.joined = TRUE]

(* The idle thread is a child of main, and never exits. *)
Children(t) ==
  {c \in Tid \ {0} : k.thrtab[c].at # "none" /\ k.thrtab[c].parent = t}
    \cup {c \in {IDLE_TID} : t = 0}
Exited(t) == {c \in Tid \ {0} : k.thrtab[c].at = "exited" /\ k.thrtab[c].parent = t}
First(S) == CHOOSE c \in S : \A d \in S : c <= d

(* thread_join_any takes the first child that has exited, waits for one,   *)
(* or stops the kernel if there is no child: main always has one.          *)
(* thread_join refuses a thread that is not a child.                       *)
syswait(t, tid) ==
  /\ Calls(t)
  /\ k' = IF tid = 0
          THEN CASE Exited(t) # {} -> Return(recycle_thread(k, First(Exited(t))), t)
                 [] Children(t) = {} -> Panic(k)
                 [] OTHER -> Block(k, t, "joinany", NULL)
          ELSE CASE tid \notin Children(t) -> Return(k, t)
                 [] tid \in Exited(t) -> Return(recycle_thread(k, tid), t)
                 [] OTHER -> Block(k, t, "join", <<tid>>)

(* An exited child wakes its parent out of the wait. *)
thread_join(t) ==
  /\ k.stop = "no"
  /\ \/ /\ k.thrtab[t].at = "join" /\ k.thrtab[t].arg[1] \in Exited(t)
        /\ k' = Return(recycle_thread(k, k.thrtab[t].arg[1]), t)
     \/ /\ k.thrtab[t].at = "joinany" /\ Exited(t) # {}
        /\ k' = Return(recycle_thread(k, First(Exited(t))), t)

(* The first empty entry of proctab, whose signal fields come from kmalloc *)
(* as they are, and the first empty entry of thrtab.  The child runs at    *)
(* once and the parent is ready.  With no empty entry the pointer to the   *)
(* child is never assigned: it may be NULL, which is refused, or anything. *)
sysfork(t, res) ==
  /\ Calls(t)
  /\ LET freep == {p \in Pid : ~ Used(p)}
         freet == {c \in Tid \ {0} : k.thrtab[c].at = "none"}
         p == First(freep)
         c == First(freet)
         tab == cur(k, t).iotab
     IN  \/ /\ freep = {}
            /\ \/ k' = Return(k, t)
               \/ k' = [k EXCEPT !.stop = "undefined"]
         \/ /\ freep # {} /\ freet = {}
            /\ k' = Panic(k)
         \/ /\ freep # {} /\ freet # {}
            /\ k' = [ioref_all(k, tab) EXCEPT
                 !.proctab[p] = [tid |-> c, iotab |-> tab, pending |-> res.pending,
                                 blocked |-> res.blocked, handled |-> res.handled],
                 !.thrtab[c] = [at |-> "user", proc |-> p, parent |-> t, arg |-> NULL],
                 !.thrtab[t].at = "ret"]

(* SIGKILL ends the caller itself and no other; other signals are recorded *)
(* whether or not the process still runs.                                  *)
syssignal(t, pid, sig) ==
  /\ Calls(t) /\ Used(pid)
  /\ k' = IF sig = SIGKILL
          THEN IF pid = k.thrtab[t].proc THEN process_exit(k, t) ELSE Return(k, t)
          ELSE Return([k EXCEPT !.proctab[pid].pending = @ \cup {sig}], t)

sysexit(t) ==
  /\ Calls(t)
  /\ k' = process_exit(k, t)

(* Every entry in use is listed, with the name of its thread, which is     *)
(* read through an empty entry of thrtab once the thread is joined.        *)
Listed == {p \in Pid : Used(p)}

sysrunningprocs(t) ==
  /\ Calls(t)
  /\ \/ k' = Return(k, t)
     \/ /\ \E p \in Listed : k.thrtab[k.proctab[p].tid].at = "none"
        /\ k' = Panic(k)

-----------------------------------------------------------------------------
(* main has opened the disk and the first program, which it executes. *)
Init ==
  k = [proctab |-> [p \in Pid |-> IF p # 0 THEN NoProcess
                      ELSE [tid |-> 0, iotab |-> [fd \in Fd |-> NULL], pending |-> {},
                            blocked |-> {}, handled |-> {}]],
       thrtab  |-> [t \in Tid |-> IF t # 0 THEN NoThread
                      ELSE [NoThread EXCEPT !.at = "boot", !.arg = <<"file", 1>>]],
       refcnt  |-> [i \in Intf |-> IF i \in {blk0, <<"file", 1>>} THEN 1 ELSE 0],
       flags   |-> [f \in File |-> IF f = <<"file", 1>> THEN 1 ELSE 0],
       dropped |-> [i \in Intf |-> IF i \in {blk0, <<"file", 1>>} THEN 1 ELSE 0],
       opens |-> 0, joined |-> FALSE, stop |-> "no"]

Syscall(t) ==
  \/ OtherCall(t) \/ sysexit(t) \/ sysrunningprocs(t)
  \/ \E fd \in Fd :
       \/ sysfsopen(t, fd) \/ sysclose(t, fd) \/ sysread(t, fd)
       \/ sysioctl(t, fd) \/ sysexec(t, fd)
       \/ \E name \in {"ser", "blk"}, instno \in 0..1 : sysdevopen(t, fd, name, instno)
  \/ \E tid \in 0..IDLE_TID : syswait(t, tid)
  \/ \E res \in Residue : sysfork(t, res)
  \/ \E pid \in Pid, sig \in Sig : syssignal(t, pid, sig)

(* What leaves the kernel through umode_excp_handler. *)
Trap(t) ==
  Syscall(t) \/ process_exec_fails(t) \/ Fault(t) \/ Resume(t) \/ thread_join(t)

Next == \E t \in Tid : Trap(t) \/ process_exec(t)

Spec == Init /\ [][Next]_vars

-----------------------------------------------------------------------------
(* Properties *)

Held(s, i) ==
  {d \in Pid \X Fd : s.proctab[d[1]] # NoProcess /\ s.proctab[d[1]].iotab[d[2]] = i}
Holders(i) == Cardinality(Held(k, i))

(* Every object has exactly as many references as descriptors of running   *)
(* or ended processes hold it, plus the ones that an open on a descriptor  *)
(* in use, an exec or the boot dropped without closing them: sysclose,     *)
(* fork, exec and exit in any order never close a file another process     *)
(* still has open, and a file's slot is free exactly when nobody holds it. *)
RefcntExact ==
  /\ TypeOK
  /\ \A i \in Intf : k.refcnt[i] = Holders(i) + k.dropped[i]
  /\ \A f \in File : k.flags[f] = 1 <=> k.refcnt[f] > 0
  /\ \A t \in Tid : k.thrtab[t].at \in {"io", "exec", "boot"}
                      => k.refcnt[k.thrtab[t].arg] > 0

(* A thread that has not exited is the thread its process names, so two    *)
(* threads never run one process, and a process whose thread has exited    *)
(* holds no descriptor, although its entry of proctab stays for ever.      *)
ThreadsMatch ==
  /\ \A t \in Tid : Alive(t) => k.proctab[k.thrtab[t].proc].tid = t
  /\ \A p \in Pid : Used(p) /\ ~ Running(p) /\ k.stop # "halt"
       => \A fd \in Fd : k.proctab[p].iotab[fd] = NULL

(* Until the first thread is joined, what fork returns is a number that    *)
(* wait takes for the same child: process and thread ids part only when an *)
(* entry of thrtab is reused and the entry of proctab is not.              *)
ForkNumbersThread ==
  ~ k.joined => \A p \in Pid : Used(p) => k.proctab[p].tid = p

(* A SIGTERM that signal_deliver would act on. *)
Due(s, t) == SIGTERM \in cur(s, t).pending \ (cur(s, t).blocked \cup cur(s, t).handled)

(* A call that returns moves no other thread, but for one it joined. *)
OthersStay(t) == \A u \in Tid \ {t} : k'.thrtab[u].at \in {k.thrtab[u].at, "none"}

(* No call or fault returns to user mode over a SIGTERM it could deliver:  *)
(* a thread that leaves the kernel through umode_excp_handler has handled  *)
(* it, whether or not the call blocked on its way and whoever sent it      *)
(* meanwhile.  signals.c:10 says signal_deliver is "called on way back to  *)
(* returning from a syscall"; two ways into user mode do not call it, and  *)
(* are not Traps of the thread: the jump of an exec that succeeds, and the *)
(* first entry of a forked child.  There a signal waits for the next call. *)
TermAtReturn ==
  [][\A t \in Tid :
       /\ k' # k /\ k'.stop = "no" /\ k'.thrtab[t].at \in {"user", "faulting"}
       /\ Due(k', t) /\ OthersStay(t)
       => ~ Trap(t)]_vars
=============================================================================
