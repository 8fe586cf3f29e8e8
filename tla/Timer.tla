-------------------------------- MODULE Timer --------------------------------
(***************************************************************************)
(* Alarms, timer.c, and the machine-mode half of the timer interrupt in    *)
(* trapasm.s.  The hardware timer raises a machine-mode interrupt once     *)
(* mtime reaches mtcmp; its handler masks it (MTIE) and makes a            *)
(* supervisor-mode interrupt pending (STIP), which stays pending until     *)
(* interrupts are on.  Supervisor mode re-arms it with an ecall that       *)
(* clears STIP and sets MTIE.                                              *)
(*                                                                         *)
(* Every thread has one alarm (a local variable of sysusleep), named by    *)
(* the thread.  One thread at a time is inside alarm_sleep, and time and   *)
(* interrupts go on between its steps.                                     *)
(*                                                                         *)
(* A definition X_Y placed before X is X with a plausible mistake.         *)
(***************************************************************************)
EXTENDS Integers, Sequences, Functions

CONSTANTS
    Threads,
    TICK_PERIOD,
    TMAX,           \* bound: time stops here
    UINT64_MAX,     \* the largest wake-up time, scaled down
    Sleeps          \* the tick counts a thread may sleep

ASSUME TimerAssumption ==
    /\ TICK_PERIOD \in Nat \ {0}
    /\ TMAX \in Nat /\ UINT64_MAX \in Nat /\ TMAX < UINT64_MAX
    /\ Sleeps \subseteq 0 .. UINT64_MAX

VARIABLES
    mtime, mtcmp,
    mtie,       \* machine-mode timer interrupt enabled
    stip,       \* supervisor-mode timer interrupt pending
    sleep_list, next_tick,
    twake,      \* al->twake
    pc          \* where each thread is in alarm_sleep

hardware == <<mtime, mtcmp, mtie, stip>>
vars == <<hardware, sleep_list, next_tick, twake, pc>>

TypeOK ==
    /\ mtime \in 0 .. TMAX
    /\ mtcmp \in Nat
    /\ mtie \in BOOLEAN /\ stip \in BOOLEAN
    /\ sleep_list \in Seq(Threads)
    /\ next_tick \in Nat
    /\ twake \in [Threads -> 0 .. UINT64_MAX]
    /\ pc \in [Threads -> {"out", "insert", "wait", "sleep"}]

\* The first tick is due at TICK_PERIOD, though next_tick starts at 0.
timer_init ==
    /\ mtime = 0 /\ mtcmp = TICK_PERIOD
    /\ mtie = TRUE /\ stip = FALSE
    /\ sleep_list = <<>> /\ next_tick = 0
    /\ twake = [t \in Threads |-> 0]
    /\ pc = [t \in Threads |-> "out"]

-----------------------------------------------------------------------------
(* Threads *)

Inside == {t \in Threads : pc[t] \in {"insert", "wait"}}

\* alarm_init, and alarm_reset which has the same effect on the wake-up time.
alarm_reset(t) ==
    /\ pc[t] = "out" /\ Inside = {}
    /\ twake' = [twake EXCEPT ![t] = mtime]
    /\ UNCHANGED <<hardware, sleep_list, next_tick, pc>>

\* A wake-up time past the end of time is the end of time.
later_Wraps(t, tcnt) == (twake[t] + tcnt) % (UINT64_MAX + 1)
later(t, tcnt) == IF UINT64_MAX - twake[t] < tcnt THEN UINT64_MAX ELSE twake[t] + tcnt

\* alarm_sleep up to intr_disable; a wake-up time that has passed returns.
alarm_sleep(t, tcnt) ==
    /\ pc[t] = "out" /\ Inside = {}
    /\ twake' = [twake EXCEPT ![t] = later(t, tcnt)]
    /\ pc' = [pc EXCEPT ![t] = IF twake'[t] < mtime THEN "out" ELSE "insert"]
    /\ UNCHANGED <<hardware, sleep_list, next_tick>>

\* sleep_list with t after the alarms that are strictly earlier.
insert_Tail(list, t) == Append(list, t)

insert(list, t) ==
    LET k == CHOOSE i \in 0 .. Len(list) :
                 /\ \A j \in 1 .. i : twake[list[j]] < twake[t]
                 /\ i < Len(list) => twake[t] <= twake[list[i + 1]]
    IN SubSeq(list, 1, k) \o <<t>> \o SubSeq(list, k + 1, Len(list))

\* An alarm that comes first, and before the next tick, re-arms the timer; that
\* clears a pending interrupt.
Insert(t) ==
    LET first == sleep_list # <<>> => twake[t] <= twake[Head(sleep_list)] IN
    /\ pc[t] = "insert"
    /\ sleep_list' = insert(sleep_list, t)
    /\ \/ /\ first /\ twake[t] < next_tick
          /\ mtcmp' = twake[t] /\ mtie' = TRUE /\ stip' = FALSE
       \/ /\ ~(first /\ twake[t] < next_tick)
          /\ UNCHANGED <<mtcmp, mtie, stip>>
    /\ pc' = [pc EXCEPT ![t] = "wait"]
    /\ UNCHANGED <<mtime, next_tick, twake>>

\* condition_wait, still with interrupts off.
Wait(t) ==
    /\ pc[t] = "wait"
    /\ pc' = [pc EXCEPT ![t] = "sleep"]
    /\ UNCHANGED <<hardware, sleep_list, next_tick, twake>>

-----------------------------------------------------------------------------
(* Time and interrupts *)

Time ==
    /\ mtime < TMAX
    /\ mtime' = mtime + 1
    /\ UNCHANGED <<mtcmp, mtie, stip, sleep_list, next_tick, twake, pc>>

mmode_intr_handler ==
    /\ mtie /\ mtime >= mtcmp
    /\ stip' = TRUE /\ mtie' = FALSE
    /\ UNCHANGED <<mtime, mtcmp, sleep_list, next_tick, twake, pc>>

\* Interrupts are off between the insertion and the wait.
Masked_Never == FALSE
Masked == \E t \in Threads : pc[t] = "wait"

\* How many alarms at the head of the list the handler takes: it stops at the
\* first that is not due.
due ==
    CHOOSE i \in 0 .. Len(sleep_list) :
        /\ \A j \in 1 .. i : twake[sleep_list[j]] <= mtime
        /\ i < Len(sleep_list) => twake[sleep_list[i + 1]] > mtime

\* The next interrupt: the head of the remaining list or the next tick.
rearm_Tick(list, tick) == tick
rearm(list, tick) ==
    IF list # <<>> /\ twake[Head(list)] < tick THEN twake[Head(list)] ELSE tick

timer_intr_handler ==
    LET tick == IF next_tick < mtime THEN next_tick + TICK_PERIOD ELSE next_tick
        rest == SubSeq(sleep_list, due + 1, Len(sleep_list))
        woken == Range(SubSeq(sleep_list, 1, due))
    IN
    /\ stip /\ ~Masked
    /\ sleep_list' = rest
    /\ next_tick' = tick
    /\ mtcmp' = rearm(rest, tick)
    /\ stip' = FALSE /\ mtie' = TRUE
    /\ pc' = [t \in Threads |-> IF t \in woken /\ pc[t] = "sleep" THEN "out" ELSE pc[t]]
    /\ UNCHANGED <<mtime, twake>>

ThreadStep == \E t \in Threads : Insert(t) \/ Wait(t)

Next ==
    \/ \E t \in Threads : alarm_reset(t) \/ \E k \in Sleeps : alarm_sleep(t, k)
    \/ ThreadStep
    \/ Time \/ mmode_intr_handler \/ timer_intr_handler

Spec == timer_init /\ [][Next]_vars

\* Time passes, the machine-mode handler is never masked, a pending interrupt
\* is taken when interrupts come on, and a thread leaves alarm_sleep.
FairSpec ==
    /\ Spec
    /\ WF_vars(Time) /\ WF_vars(mmode_intr_handler) /\ WF_vars(ThreadStep)
    /\ SF_vars(timer_intr_handler)

-----------------------------------------------------------------------------
(* Properties *)

\* The handler stops at the first alarm that is not due, so the list must be
\* in the order of the wake-up times.
Sorted ==
    \A i, j \in DOMAIN sleep_list : i < j => twake[sleep_list[i]] <= twake[sleep_list[j]]

\* Exactly the alarms of waiting threads are on the list, once: a thread that
\* waits will be found, and no alarm stays on the list when the stack frame it
\* lives in is gone.
SleepersListed ==
    /\ \A t \in Threads : t \in Range(sleep_list) <=> pc[t] \in {"wait", "sleep"}
    /\ IsInjective(sleep_list)

\* Once the first tick has been taken, a due alarm has an interrupt pending or
\* about to be, although inserting an alarm clears a pending one.
DueIsPending ==
    next_tick > 0 =>
        \A t \in Range(sleep_list) :
            twake[t] <= mtime => stip \/ (mtie /\ mtcmp <= mtime)

\* The sleep list is what timer_intr_handler relies on: the alarms of exactly
\* the waiting threads, soonest first.
ListSound == TypeOK /\ Sorted /\ SleepersListed

\* Alarms keep time: a thread is woken only when its wake-up time has come, and
\* no wake-up time moves back, as a sleep does not wrap and a thread that resets
\* its alarm was not woken early.
KeepsTime ==
    [][\A t \in Threads :
          /\ pc[t] = "sleep" /\ pc'[t] # "sleep" => twake[t] <= mtime
          /\ twake'[t] >= twake[t]]_vars

\* A sleeping thread whose time comes is woken.
SleeperWakes ==
    \A t \in Threads : (pc[t] = "sleep" /\ twake[t] <= TMAX) ~> pc[t] = "out"
=============================================================================
