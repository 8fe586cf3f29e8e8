------------------------------- MODULE Threads -------------------------------
(***************************************************************************)
(* The thread manager of the kernel (src/kern/thread.c with the context    *)
(* switch of thrasm.s): the thread table, the ready list, condition        *)
(* variables, suspension, exit, join and fork, on one hart.                *)
(*                                                                         *)
(* Kernel code is never preempted by another thread: intr_handler yields   *)
(* only when the interrupt came from user mode.  It is interrupted by      *)
(* service routines wherever sstatus.SIE is 1, and a service routine may   *)
(* wake the waiters of a condition.  A step of this module is a stretch of *)
(* thread.c that no service routine can observe half way: the code between *)
(* two points where SIE is 1, or code that touches no shared list.         *)
(*                                                                         *)
(* A local variable that has gone out of scope is set back to its initial  *)
(* value, which keeps states that differ only in dead values together.     *)
(*                                                                         *)
(* The callers of the thread manager (system calls, drivers, locks) appear *)
(* as the most general client: a thread in kernel mode may call any of the *)
(* exported functions, with interrupts on or off.                          *)
(*                                                                         *)
(* A definition X_Y placed before X is X with a plausible mistake; the     *)
(* properties are tested against it, and it is used nowhere else.          *)
(***************************************************************************)
EXTENDS Integers, Sequences, Functions

CONSTANTS
    NTHR,   \* size of thrtab
    Conds   \* conditions other than the child_exit ones: devices, locks, alarms

ASSUME ThreadsAssumption ==
    /\ NTHR \in Nat
    /\ NTHR >= 2
    /\ Conds \cap (0 .. NTHR) = {}

Tid == 0 .. (NTHR - 1)
MAIN_TID == 0
IDLE_TID == NTHR - 1
NULL == NTHR        \* no thread, no condition

\* The condition child_exit of thread t is named by t itself.
Condition == Tid \cup Conds

VARIABLES
    state,       \* thrtab[t]->state; UNINITIALIZED for an empty slot of thrtab
    parent,      \* thrtab[t]->parent
    wait_cond,   \* thrtab[t]->wait_cond
    stack_base,  \* thrtab[t] owns a stack page
    ready_list,  \* threads ready to run, oldest first
    wait_list,   \* cond->wait_list of each condition
    CURTHR,      \* the tp register
    sie,         \* sstatus.SIE
    pc,          \* where each thread is in the thread manager, or its caller
    cont,        \* where suspend_self or condition_wait returns to
    jtid,        \* argument of the thread_join in progress
    saved_intr_state,  \* local of suspend_self, one per thread
    next_thread, \* local of suspend_self of the thread about to switch
    prev_thread, \* what _thread_swtch returned to the thread just resumed
    halted       \* "no", "success" (halt_success) or "panic"

lists == <<ready_list, wait_list, wait_cond>>
swtch == <<saved_intr_state, next_thread, prev_thread>>
vars == <<state, parent, stack_base, lists, CURTHR, sie, pc, cont, jtid, swtch, halted>>

ThreadState == {"UNINITIALIZED", "WAITING", "RUNNING", "READY", "EXITED"}

(***************************************************************************)
(* user, kern    executing the program, or kernel code that calls us       *)
(* wait          in condition_wait, not yet on the wait list               *)
(* susp          in suspend_self, before it takes a thread off ready_list  *)
(* swtch         in suspend_self, past intr_enable: about to switch while  *)
(*               it is CURTHR, switched out otherwise                      *)
(* resumed       _thread_swtch has returned, SIE not yet restored          *)
(* fork, start   switched out by _thread_finish_fork, set up by            *)
(*               _thread_setup                                             *)
(* join, joinany in the loop of thread_join, after the wait of             *)
(*               thread_join_any                                           *)
(* idle, mask, wfi   the loop of idle_thread_func                          *)
(***************************************************************************)
Place == {"none", "user", "kern", "wait", "susp", "swtch", "resumed", "fork",
          "start", "join", "joinany", "idle", "mask", "wfi"}

Return == {"user", "kern", "join", "joinany", "idle"}

TypeOK ==
    /\ state \in [Tid -> ThreadState]
    /\ parent \in [Tid -> Tid \cup {NULL}]
    /\ wait_cond \in [Tid -> Condition \cup {NULL}]
    /\ stack_base \in [Tid -> BOOLEAN]
    /\ ready_list \in Seq(Tid)
    /\ wait_list \in [Condition -> Seq(Tid)]
    /\ CURTHR \in Tid
    /\ sie \in BOOLEAN
    /\ pc \in [Tid -> Place]
    /\ cont \in [Tid -> Return]
    /\ jtid \in [Tid -> Tid]
    /\ saved_intr_state \in [Tid -> BOOLEAN]
    /\ next_thread \in Tid \cup {NULL}
    /\ prev_thread \in Tid \cup {NULL}
    /\ halted \in {"no", "success", "panic"}

-----------------------------------------------------------------------------
\* thrtab statically holds main, running, and idle, ready and a child of main;
\* thread_init puts idle on the ready list with interrupts still off.
Init ==
    /\ state = [t \in Tid |-> IF t = MAIN_TID THEN "RUNNING"
                              ELSE IF t = IDLE_TID THEN "READY" ELSE "UNINITIALIZED"]
    /\ parent = [t \in Tid |-> IF t = IDLE_TID THEN MAIN_TID ELSE NULL]
    /\ wait_cond = [t \in Tid |-> NULL]
    /\ stack_base = [t \in Tid |-> t \in {MAIN_TID, IDLE_TID}]
    /\ ready_list = <<IDLE_TID>>
    /\ wait_list = [c \in Condition |-> <<>>]
    /\ CURTHR = MAIN_TID
    /\ sie = FALSE
    /\ pc = [t \in Tid |-> IF t = MAIN_TID THEN "kern"
                           ELSE IF t = IDLE_TID THEN "start" ELSE "none"]
    /\ cont = [t \in Tid |-> "kern"]
    /\ jtid = [t \in Tid |-> MAIN_TID]
    /\ saved_intr_state = [t \in Tid |-> FALSE]
    /\ next_thread = NULL
    /\ prev_thread = NULL
    /\ halted = "no"

At(place) == halted = "no" /\ pc[CURTHR] = place
Goto(place) == pc' = [pc EXCEPT ![CURTHR] = place]

Halt(how) ==
    /\ halted' = how
    /\ UNCHANGED <<state, parent, stack_base, lists, CURTHR, sie, pc, cont, jtid, swtch>>

-----------------------------------------------------------------------------
(* Thread lists; list_next links are abstracted to the order of the list *)

tlinsert_AtHead(list, t) == <<t>> \o list
tlinsert(list, t) == Append(list, t)

tlappend_AtHead(l0, l1) == l1 \o l0
tlappend(l0, l1) == l0 \o l1

-----------------------------------------------------------------------------
(* Conditions *)

condition_broadcast_NoClear(c, st) ==
    LET woken == Range(wait_list[c]) IN
    /\ state' = [t \in Tid |-> IF t \in woken THEN "READY" ELSE st[t]]
    /\ wait_cond' = [t \in Tid |-> IF t \in woken THEN NULL ELSE wait_cond[t]]
    /\ ready_list' = tlappend(ready_list, wait_list[c])
    /\ UNCHANGED wait_list

\* Every waiter of c becomes READY and the wait list is appended, in order, to
\* the ready list.  st is the state of the threads when the call is made.
condition_broadcast(c, st) ==
    LET woken == Range(wait_list[c]) IN
    /\ state' = [t \in Tid |-> IF t \in woken THEN "READY" ELSE st[t]]
    /\ wait_cond' = [t \in Tid |-> IF t \in woken THEN NULL ELSE wait_cond[t]]
    /\ ready_list' = tlappend(ready_list, wait_list[c])
    /\ wait_list' = [wait_list EXCEPT ![c] = <<>>]

\* condition_wait up to its intr_disable: the thread is WAITING but on no list.
BeginWait(c, return) ==
    /\ state' = [state EXCEPT ![CURTHR] = "WAITING"]
    /\ wait_cond' = [wait_cond EXCEPT ![CURTHR] = c]
    /\ cont' = [cont EXCEPT ![CURTHR] = return]
    /\ Goto("wait")

\* The part of condition_wait between intr_disable and intr_restore.
WaitInsert ==
    /\ At("wait")
    /\ wait_list' = [wait_list EXCEPT ![wait_cond[CURTHR]] = tlinsert(@, CURTHR)]
    /\ Goto("susp")
    /\ UNCHANGED <<state, parent, wait_cond, stack_base, ready_list, CURTHR, sie, cont, jtid, swtch, halted>>

condition_wait(c) ==
    /\ At("kern")
    /\ BeginWait(c, "kern")
    /\ UNCHANGED <<parent, stack_base, ready_list, wait_list, CURTHR, sie, jtid, swtch, halted>>

\* A thread wakes the waiters of a condition, as lock_release does.
ThreadBroadcast(c) ==
    /\ At("kern")
    /\ condition_broadcast(c, state)
    /\ UNCHANGED <<parent, stack_base, CURTHR, sie, pc, cont, jtid, swtch, halted>>

-----------------------------------------------------------------------------
(* Suspension and the context switch *)

\* suspend_self puts its caller back on the ready list only in this state.
StillRunning(st) == st[CURTHR] = "RUNNING"

\* suspend_self from its intr_disable to its intr_enable: the head of the
\* ready list becomes RUNNING, and the caller, if it still is RUNNING, goes to
\* the tail.
SuspendSelf ==
    LET next == Head(ready_list)
        picked == [state EXCEPT ![next] = "RUNNING"]
        requeue == StillRunning(picked)
    IN
    /\ At("susp")
    /\ ready_list # <<>>
    /\ state[next] = "READY"
    /\ state' = IF requeue THEN [picked EXCEPT ![CURTHR] = "READY"] ELSE picked
    /\ ready_list' = IF requeue THEN tlinsert(Tail(ready_list), CURTHR) ELSE Tail(ready_list)
    /\ next_thread' = next
    /\ saved_intr_state' = [saved_intr_state EXCEPT ![CURTHR] = sie]
    /\ sie' = TRUE
    /\ Goto("swtch")
    /\ UNCHANGED <<parent, wait_cond, stack_base, wait_list, CURTHR, cont, jtid,
                   prev_thread, halted>>

\* What _thread_swtch leaves in a0, its return value, when it returns in the
\* resumed thread: the routine copies a0 to tp and does not write a0.
swtch_result(suspending, resuming) == resuming

\* The code at the ra a thread was switched out with.
ResumePlace(t) ==
    CASE pc[t] = "swtch" -> "resumed"
      [] pc[t] = "start" -> IF t = IDLE_TID THEN "idle" ELSE "kern"
      [] OTHER -> "kern"

thread_swtch ==
    /\ At("swtch")
    /\ CURTHR' = next_thread
    /\ pc' = [pc EXCEPT ![next_thread] = ResumePlace(next_thread)]
    /\ IF pc[next_thread] = "swtch"
       THEN /\ prev_thread' = swtch_result(CURTHR, next_thread)
       ELSE UNCHANGED prev_thread
    /\ next_thread' = NULL
    /\ UNCHANGED <<state, parent, stack_base, lists, sie, cont, jtid, saved_intr_state, halted>>

\* The end of suspend_self: the stack of an exited predecessor is freed and SIE
\* restored.  A thread suspended by an interrupt from user mode goes on to the
\* end of the trap handler, whose sret sets SIE.
Resume ==
    /\ At("resumed")
    /\ stack_base' = [t \in Tid |-> stack_base[t] /\ ~(t = prev_thread /\ state[t] = "EXITED")]
    /\ sie' = (saved_intr_state[CURTHR] \/ cont[CURTHR] = "user")
    /\ Goto(cont[CURTHR])
    /\ cont' = [cont EXCEPT ![CURTHR] = "kern"]
    /\ saved_intr_state' = [saved_intr_state EXCEPT ![CURTHR] = FALSE]
    /\ prev_thread' = NULL
    /\ UNCHANGED <<state, parent, lists, CURTHR, jtid, next_thread, halted>>

Suspend(return) ==
    /\ cont' = [cont EXCEPT ![CURTHR] = return]
    /\ Goto("susp")

thread_yield ==
    /\ At("kern")
    /\ Suspend("kern")
    /\ UNCHANGED <<state, parent, stack_base, lists, CURTHR, sie, jtid, swtch, halted>>

-----------------------------------------------------------------------------
(* Creation, exit and join *)

Children(t) == {c \in Tid \ {MAIN_TID} : state[c] # "UNINITIALIZED" /\ parent[c] = t}
Zombies(t) == {c \in Children(t) : state[c] = "EXITED"}
FreeSlots_OffByOne == {c \in (Tid \ {MAIN_TID}) \cup {NTHR} : c = NTHR \/ state[c] = "UNINITIALIZED"}
FreeSlots == {c \in Tid \ {MAIN_TID} : state[c] = "UNINITIALIZED"}

\* The loops over thrtab stop at the lowest tid.
IsFirst(c, S) == c \in S /\ \A d \in S : c <= d

\* "Too many threads"
SpawnPanic ==
    /\ At("kern") \/ At("user")
    /\ FreeSlots = {}
    /\ Halt("panic")

thread_spawn ==
    /\ At("kern")
    /\ \E c \in FreeSlots :
          /\ IsFirst(c, FreeSlots)
          /\ state' = [state EXCEPT ![c] = "READY"]
          /\ parent' = [parent EXCEPT ![c] = CURTHR]
          /\ stack_base' = [stack_base EXCEPT ![c] = TRUE]
          /\ ready_list' = tlinsert(ready_list, c)
          /\ pc' = [pc EXCEPT ![c] = "start"]
    /\ UNCHANGED <<wait_cond, wait_list, CURTHR, sie, cont, jtid, swtch, halted>>

\* The system call traps with SIE off and stays off until the sret into the
\* child, so sysfork and thread_fork_to_user are one step.  The parent is left
\* READY, switched out inside _thread_finish_fork.
thread_fork_to_user ==
    /\ At("user")
    /\ \E c \in FreeSlots :
          /\ IsFirst(c, FreeSlots)
          /\ state' = [state EXCEPT ![c] = "RUNNING", ![CURTHR] = "READY"]
          /\ parent' = [parent EXCEPT ![c] = CURTHR]
          /\ stack_base' = [stack_base EXCEPT ![c] = TRUE]
          /\ ready_list' = tlinsert(ready_list, CURTHR)
          /\ pc' = [pc EXCEPT ![c] = "user", ![CURTHR] = "fork"]
          /\ CURTHR' = c
    /\ UNCHANGED <<wait_cond, wait_list, sie, cont, jtid, swtch, halted>>

\* The thread whose child_exit an exiting thread t signals.
ExitSignal_Own(t) == t
ExitSignal(t) == parent[t]

thread_exit ==
    /\ At("kern")
    /\ \/ /\ CURTHR = MAIN_TID
          /\ Halt("success")
       \/ /\ CURTHR # MAIN_TID
          /\ condition_broadcast(ExitSignal(CURTHR), [state EXCEPT ![CURTHR] = "EXITED"])
          /\ Goto("susp")
          /\ UNCHANGED <<parent, stack_base, CURTHR, sie, cont, jtid, swtch, halted>>

\* parent of each thread once c is recycled: the children of c pass to its parent.
Adopted_Orphans(c) == [parent EXCEPT ![c] = NULL]
Adopted(c) ==
    [t \in Tid |-> IF t = c THEN NULL ELSE IF parent[t] = c THEN parent[c] ELSE parent[t]]

\* The slot of c becomes free.
recycle_thread(c) ==
    /\ state' = [state EXCEPT ![c] = "UNINITIALIZED"]
    /\ parent' = Adopted(c)
    /\ pc' = [pc EXCEPT ![c] = "none", ![CURTHR] = "kern"]
    /\ stack_base' = [stack_base EXCEPT ![c] = FALSE]
    /\ saved_intr_state' = [saved_intr_state EXCEPT ![c] = FALSE]
    /\ jtid' = [jtid EXCEPT ![CURTHR] = MAIN_TID]
    /\ UNCHANGED <<lists, CURTHR, sie, cont, next_thread, prev_thread, halted>>

\* The tids thread_join waits for.
Joinable_AnyThread == {c \in Tid \ {MAIN_TID} : state[c] # "UNINITIALIZED"}
Joinable == Children(CURTHR)

\* A tid that names no child of the caller returns -1 and changes nothing.
thread_join(c) ==
    /\ At("kern")
    /\ c \in Joinable
    /\ jtid' = [jtid EXCEPT ![CURTHR] = c]
    /\ Goto("join")
    /\ UNCHANGED <<state, parent, stack_base, lists, CURTHR, sie, cont, swtch, halted>>

\* One turn of the loop of thread_join.
JoinLoop ==
    /\ At("join")
    /\ \/ /\ state[jtid[CURTHR]] # "EXITED"
          /\ BeginWait(CURTHR, "join")
          /\ UNCHANGED <<parent, stack_base, ready_list, wait_list, CURTHR, sie, jtid, swtch, halted>>
       \/ /\ state[jtid[CURTHR]] = "EXITED"
          /\ recycle_thread(jtid[CURTHR])

thread_join_any ==
    /\ At("kern")
    /\ \/ \E c \in Zombies(CURTHR) : IsFirst(c, Zombies(CURTHR)) /\ recycle_thread(c)
       \/ /\ Children(CURTHR) = {}
          /\ Halt("panic")
       \/ /\ Children(CURTHR) # {}
          /\ Zombies(CURTHR) = {}
          /\ BeginWait(CURTHR, "joinany")
          /\ UNCHANGED <<parent, stack_base, ready_list, wait_list, CURTHR, sie, jtid, swtch, halted>>

\* The second scan of thread_join_any, after its wait.
JoinAnyWoken ==
    /\ At("joinany")
    /\ \E c \in Zombies(CURTHR) : IsFirst(c, Zombies(CURTHR)) /\ recycle_thread(c)

-----------------------------------------------------------------------------
(* The idle thread *)

IdleLoop_NoTest ==
    /\ At("idle")
    /\ Suspend("idle")
    /\ UNCHANGED <<state, parent, stack_base, lists, CURTHR, sie, jtid, swtch, halted>>

IdleLoop ==
    /\ At("idle")
    /\ \/ /\ ready_list # <<>>
          /\ Suspend("idle")
       \/ /\ ready_list = <<>>
          /\ Goto("mask")
          /\ UNCHANGED cont
    /\ UNCHANGED <<state, parent, stack_base, lists, CURTHR, sie, jtid, swtch, halted>>

IdleMask_NoTest ==
    /\ At("mask")
    /\ Goto("wfi")
    /\ sie' = FALSE
    /\ UNCHANGED <<state, parent, stack_base, lists, CURTHR, cont, jtid, swtch, halted>>

\* intr_disable and the second test of the ready list.
IdleMask ==
    /\ At("mask")
    /\ \/ ready_list = <<>> /\ Goto("wfi") /\ sie' = FALSE
       \/ ready_list # <<>> /\ Goto("idle") /\ sie' = TRUE
    /\ UNCHANGED <<state, parent, stack_base, lists, CURTHR, cont, jtid, swtch, halted>>

\* wfi returns when an interrupt is pending; intr_enable lets it in.
IdleWake ==
    /\ At("wfi")
    /\ Goto("idle")
    /\ sie' = TRUE
    /\ UNCHANGED <<state, parent, stack_base, lists, CURTHR, cont, jtid, swtch, halted>>

-----------------------------------------------------------------------------
(* Interrupts, system calls and the callers *)

\* An interrupt taken in kernel mode: its service routine may broadcast, and
\* the interrupted code goes on.
KernelInterrupt(c) ==
    /\ halted = "no"
    /\ sie
    /\ pc[CURTHR] # "user"
    /\ condition_broadcast(c, state)
    /\ UNCHANGED <<parent, stack_base, CURTHR, sie, pc, cont, jtid, swtch, halted>>

\* An interrupt taken in user mode ends with thread_yield, SIE off throughout.
UserInterrupt(c) ==
    /\ At("user")
    /\ condition_broadcast(c, state)
    /\ sie' = FALSE
    /\ Suspend("user")
    /\ UNCHANGED <<parent, stack_base, CURTHR, jtid, swtch, halted>>

\* A timer tick that wakes nobody.
Tick ==
    /\ At("user")
    /\ sie' = FALSE
    /\ Suspend("user")
    /\ UNCHANGED <<state, parent, stack_base, lists, CURTHR, jtid, swtch, halted>>

Syscall ==
    /\ At("user")
    /\ sie' = FALSE
    /\ Goto("kern")
    /\ UNCHANGED <<state, parent, stack_base, lists, CURTHR, cont, jtid, swtch, halted>>

\* The end of a system call, or thread_jump_to_user; sret sets SIE.
ReturnToUser ==
    /\ At("kern")
    /\ sie' = TRUE
    /\ Goto("user")
    /\ UNCHANGED <<state, parent, stack_base, lists, CURTHR, cont, jtid, swtch, halted>>

\* The caller turns interrupts on or off with intr_enable, intr_disable.
SetIntr ==
    /\ At("kern")
    /\ sie' = ~sie
    /\ UNCHANGED <<state, parent, stack_base, lists, CURTHR, pc, cont, jtid, swtch, halted>>

\* halt_success and panic end in an endless loop.
HaltLoop == halted # "no" /\ UNCHANGED vars

ThreadManager ==
    \/ WaitInsert \/ SuspendSelf \/ thread_swtch \/ Resume
    \/ JoinLoop \/ JoinAnyWoken
    \/ IdleLoop \/ IdleMask \/ IdleWake

Caller ==
    \/ \E c \in Conds : condition_wait(c) \/ ThreadBroadcast(c)
    \/ thread_yield \/ thread_spawn \/ thread_fork_to_user \/ SpawnPanic
    \/ thread_exit \/ thread_join_any \/ \E c \in Tid : thread_join(c)
    \/ Syscall \/ ReturnToUser \/ SetIntr

Interrupt == Tick \/ \E c \in Conds : KernelInterrupt(c) \/ UserInterrupt(c)

Next == ThreadManager \/ Caller \/ Interrupt \/ HaltLoop

Spec == Init /\ [][Next]_vars

(***************************************************************************)
(* The thread manager's own code runs to its end, kernel code eventually   *)
(* returns to user mode (or suspends), and a timer interrupt that finds    *)
(* interrupts off stays pending until user mode, hence strong fairness.    *)
(***************************************************************************)
Fairness ==
    /\ WF_vars(ThreadManager)
    /\ WF_vars(ReturnToUser)
    /\ SF_vars(Tick)

FairSpec == Spec /\ Fairness

-----------------------------------------------------------------------------
(* Properties *)

\* The threads that hold the CPU: in suspend_self the next thread is RUNNING
\* before the switch, and a thread that waits or exits gives up RUNNING first.
Running == {t \in Tid : state[t] = "RUNNING"}

\* At most one thread is RUNNING: the current one, or from the intr_enable of
\* suspend_self to the switch the one it switches to.
OneRunning ==
    Running \subseteq (IF pc[CURTHR] = "swtch" THEN {next_thread} ELSE {CURTHR})

\* A thread is on the ready list iff it is READY, on the list of one condition
\* iff it is WAITING there and past the insertion, and nowhere twice, whatever
\* service routine ran between the steps of condition_wait and suspend_self.
ListsAgree ==
    /\ \A t \in Tid : t \in Range(ready_list) <=> state[t] = "READY"
    /\ \A t \in Tid, c \in Condition :
          t \in Range(wait_list[c]) <=>
              state[t] = "WAITING" /\ wait_cond[t] = c /\ pc[t] # "wait"
    /\ IsInjective(ready_list)
    /\ \A c \in Condition : IsInjective(wait_list[c])

\* The assertions of thread.c hold where they are made (lines 355, 378, 481,
\* 512, 513, 600, 611), and the panic "spurious child_exit signal" of
\* thread_join_any cannot be reached.
AssertsHold ==
    /\ pc[CURTHR] \in {"kern", "user", "join", "idle"} => state[CURTHR] = "RUNNING"
    /\ pc[CURTHR] = "susp" => ready_list # <<>> /\ state[Head(ready_list)] = "READY"
    /\ \A c \in Condition : \A t \in Range(wait_list[c]) :
          state[t] = "WAITING" /\ wait_cond[t] = c
    /\ pc[CURTHR] = "kern" /\ CURTHR # MAIN_TID => parent[CURTHR] # NULL
    /\ pc[CURTHR] = "joinany" => Zombies(CURTHR) # {}

\* suspend_self never switches a thread to itself.  A thread woken by a service
\* routine before it has suspended is READY and on the ready list; were it the
\* head, it would be marked RUNNING, then READY again and run while on the list.
NoSelfSwitch ==
    pc[CURTHR] = "swtch" => next_thread # CURTHR

\* The idle thread is always runnable, so a thread that suspends finds one.
IdleRunnable ==
    /\ state[IDLE_TID] \in {"READY", "RUNNING"}
    /\ CURTHR # IDLE_TID /\ pc[CURTHR] # "swtch" => IDLE_TID \in Range(ready_list)

\* The idle thread executes wfi only when no thread is ready.
IdleSleepsWhenIdle ==
    pc[IDLE_TID] = "wfi" => ready_list = <<>>

\* The CPU passes from one runnable thread to another: suspend_self and
\* idle_thread_func together never leave two threads RUNNING, a thread handed
\* to itself, no thread to hand to, or the hart asleep over a ready thread.
CpuHandover == OneRunning /\ NoSelfSwitch /\ IdleRunnable /\ IdleSleepsWhenIdle

Live == {t \in Tid \ {MAIN_TID} : state[t] # "UNINITIALIZED"}

\* The threads of thrtab form a tree rooted at main: recycle_thread leaves no
\* dangling parent, so thread_exit signals a thread that exists, and no cycle,
\* so passing children up always ends at a thread that can collect them.
FamilyTree ==
    /\ \A t \in Live : parent[t] \in Tid /\ state[parent[t]] # "UNINITIALIZED"
    /\ \A S \in SUBSET Live : S # {} => \E t \in S : parent[t] \notin S

\* No thread waits in thread_join for a child that has exited, nor in
\* thread_join_any when any child has: an exit is never missed.
NoMissedExit ==
    \A t \in Tid : state[t] = "WAITING" =>
        /\ cont[t] = "join" => state[jtid[t]] \in {"READY", "RUNNING", "WAITING"}
        /\ cont[t] = "joinany" => Zombies(t) = {}

Before(s, a, b) == \E i, j \in DOMAIN s : i < j /\ s[i] = a /\ s[j] = b

\* Threads run in the order they became ready, and the waiters of a condition
\* become ready in the order they began to wait: a step that leaves a and b on
\* the ready list keeps ahead the one that was ahead, or was already there.
FifoOrder ==
    [][\A a, b \in Tid :
          /\ \/ Before(ready_list, a, b)
             \/ a \in Range(ready_list) /\ b \notin Range(ready_list)
             \/ \E c \in Condition : Before(wait_list[c], a, b)
          /\ {a, b} \subseteq Range(ready_list')
          => Before(ready_list', a, b)]_vars

\* A thread slot is freed only by the parent of an exited thread.
FreedByParent ==
    [][\A t \in Tid : state[t] # "UNINITIALIZED" /\ state'[t] = "UNINITIALIZED" =>
          state[t] = "EXITED" /\ parent[t] = CURTHR]_vars

\* Every ready thread gets the CPU, unless the kernel halts.
ReadyRuns ==
    \A t \in Tid : state[t] = "READY" ~> (state[t] = "RUNNING" \/ halted # "no")

-----------------------------------------------------------------------------
(* The inductive invariant behind the safety properties *)

SwitchedOut(t) ==
    /\ pc[t] \in {"none", "swtch", "fork", "start"}
    /\ pc[t] = "none" <=> state[t] = "UNINITIALIZED"
    /\ pc[t] \in {"fork", "start"} => state[t] \in {"READY", "RUNNING"}
    /\ state[t] = "RUNNING" => pc[CURTHR] = "swtch" /\ t = next_thread

\* What the place of the current thread says of its state; nobody else is on
\* the CPU, and the switch in progress has a target that can be resumed.
CpuInv ==
    /\ pc[CURTHR] \notin {"none", "fork", "start"}
    /\ pc[CURTHR] = "wait" => state[CURTHR] = "WAITING"
    /\ pc[CURTHR] \notin {"wait", "susp", "swtch"} => state[CURTHR] = "RUNNING"
    /\ pc[CURTHR] = "susp" => state[CURTHR] # "UNINITIALIZED"
    /\ pc[CURTHR] = "swtch" =>
          /\ next_thread \in Tid \ {CURTHR}
          /\ state[CURTHR] \notin {"UNINITIALIZED", "RUNNING"}
          /\ state[next_thread] = "RUNNING"
    /\ \A t \in Tid \ {CURTHR} : SwitchedOut(t)

\* The head of the ready list is never the thread that is about to suspend.
HeadInv ==
    pc[CURTHR] # "swtch" /\ ready_list # <<>> => Head(ready_list) # CURTHR

IdleInv ==
    /\ state[IDLE_TID] \in {"READY", "RUNNING"}
    /\ pc[IDLE_TID] \in {"start", "susp", "swtch", "resumed", "idle", "mask", "wfi"}
    /\ pc[IDLE_TID] \in {"susp", "swtch", "resumed"} => cont[IDLE_TID] = "idle"
    /\ pc[IDLE_TID] = "susp" => ready_list # <<>> /\ state[IDLE_TID] = "RUNNING"
    /\ pc[IDLE_TID] = "wfi" => ready_list = <<>> /\ ~sie
    /\ \A t \in Tid \ {IDLE_TID} : pc[t] \notin {"idle", "mask", "wfi"} /\ cont[t] # "idle"

\* The family tree: main is never gone, and an empty slot has no parent.
TreeInv ==
    /\ state[MAIN_TID] \notin {"EXITED", "UNINITIALIZED"}
    /\ FamilyTree
    /\ \A t \in Tid : state[t] = "UNINITIALIZED" => parent[t] = NULL

Joining(t) == pc[t] = "join" \/ cont[t] = "join"

\* A join of t in progress: the child is still the caller's, an exit has woken
\* the caller, and what woke a caller of thread_join_any is still there to be
\* collected.
JoinOf(t) ==
    /\ cont[t] # "kern" => pc[t] \in {"wait", "susp", "swtch", "resumed"} /\ state[t] # "EXITED"
    /\ Joining(t) => jtid[t] \in Children(t)
    /\ state[t] = "WAITING" /\ cont[t] = "join" =>
          wait_cond[t] = t /\ state[jtid[t]] # "EXITED"
    /\ state[t] = "WAITING" /\ cont[t] = "joinany" =>
          wait_cond[t] = t /\ Zombies(t) = {}
    /\ state[t] = "WAITING" => cont[t] # "user" /\ wait_cond[t] # NULL
    /\ cont[t] = "joinany" /\ state[t] # "WAITING" => Zombies(t) # {}
    /\ pc[t] = "joinany" => Zombies(t) # {}

JoinInv == \A t \in Tid : JoinOf(t)

IInv == TypeOK /\ ListsAgree /\ CpuInv /\ HeadInv /\ IdleInv /\ TreeInv /\ JoinInv

=============================================================================
