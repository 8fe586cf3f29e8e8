------------------------------- MODULE Vioblk -------------------------------
(***************************************************************************)
(* The block device driver, vioblk.c, and the sleep lock of lock.h that    *)
(* lets one thread at a time drive the device.  A call works block by      *)
(* block: it makes a request, sleeps until the service routine broadcasts, *)
(* and goes on with the one block buffer that all calls share.             *)
(*                                                                         *)
(* A thread in the kernel runs until it waits or returns.  The service     *)
(* routine runs when no thread is in the driver, and between two steps of  *)
(* one that has interrupts on: callers from main.c have, callers from a    *)
(* system call have not.  The request descriptors and rings are abstracted *)
(* to the one request outstanding.                                         *)
(*                                                                         *)
(* An operator X_Y, defined before X, is X with the fault Y.               *)
(***************************************************************************)
EXTENDS Naturals, FiniteSets

CONSTANTS
  Thread, NULL,
  BLKSZ, BLKCNT,        \* bytes in a block, blocks of the device
  Byte,
  Sizes,                \* lengths a caller may ask for
  Setting,              \* the callers and devices considered
  CALLS                 \* bound: calls each thread makes

ASSUME VioblkAssumption ==
  /\ BLKSZ \in Nat \ {0} /\ BLKCNT \in Nat \ {0}
  /\ Sizes \subseteq Nat /\ 0 \in Byte
  /\ Setting \subseteq [SIE : SUBSET BOOLEAN, InRange : BOOLEAN, MayFail : BOOLEAN]
  /\ NULL \notin Thread

size == BLKSZ * BLKCNT
Addr == 0..(size - 1)
Offset == 0..(BLKSZ - 1)

(* A setting says in which interrupt states calls are made, whether the    *)
(* callers write within the device, and whether the device may report an   *)
(* error.  kfs.c writes within the device unless a file of the image fills *)
(* its last block (see Kfs).                                               *)
VARIABLES
  env,                  \* the setting, fixed from the start
  opened, pos,          \* fields of struct vioblk_device
  blkbuf,               \* the block buffer
  tid,                  \* io_lock: its holder
  disk,                 \* the bytes of the device
  req,                  \* the request outstanding at the device
  isr,                  \* interrupt_status bit 0
  cur,                  \* the thread running in the driver
  sie,                  \* sstatus.SIE while it runs
  pc,                   \* where each thread is
  call,                 \* the call each thread makes or made last
  total,                \* bytes it has moved
  ret,                  \* what it returned
  saved,                \* intr_state across the wait
  calls                 \* calls made so far

dev == <<opened, pos, blkbuf, tid>>
device == <<disk, req, isr>>
locals == <<call, total, ret, saved, calls>>
vars == <<env, dev, device, cur, sie, pc, locals>>

NoReq == [type |-> "none", sector |-> 0]
Call ==
  [op : {"read"}, n : Sizes, byte : {0}]
    \cup [op : {"write"}, n : Sizes, byte : Byte]
    \cup [op : {"setpos"}, n : 0..(size + 1), byte : {0}]
    \cup [op : {"open", "close"}, n : {0}, byte : {0}]
NoCall == [op |-> "none", n |-> 0, byte |-> 0]

TypeOK ==
  /\ env \in Setting
  /\ opened \in BOOLEAN
  /\ pos \in 0..size
  /\ blkbuf \in [Offset -> Byte]
  /\ tid \in Thread \cup {NULL}
  /\ disk \in [Addr -> Byte]
  /\ req \in [type : {"none", "in", "out"}, sector : 0..(BLKCNT - 1)]
  /\ isr \in BOOLEAN
  /\ cur \in Thread \cup {NULL}
  /\ sie \in BOOLEAN
  /\ pc \in [Thread -> {"idle", "acquire", "lockwait", "start", "loop",
                        "notified_in", "sleep_in", "woken_in", "put",
                        "notified_out", "sleep_out", "woken_out", "release"}]
  /\ call \in [Thread -> Call \cup {NoCall}]
  /\ \A t \in Thread : total[t] <= call[t].n
  /\ saved \in [Thread -> BOOLEAN]

-----------------------------------------------------------------------------
Init ==
  /\ env \in Setting
  /\ opened = FALSE /\ pos = 0
  /\ blkbuf = [o \in Offset |-> 0]
  /\ tid = NULL
  /\ disk = [a \in Addr |-> 0]
  /\ req = NoReq /\ isr = FALSE
  /\ cur = NULL /\ sie = FALSE
  /\ pc = [t \in Thread |-> "idle"]
  /\ call = [t \in Thread |-> NoCall]
  /\ total = [t \in Thread |-> 0]
  /\ ret = [t \in Thread |-> 0]
  /\ saved = [t \in Thread |-> FALSE]
  /\ calls = [t \in Thread |-> 0]

Goto(t, place) == pc' = [pc EXCEPT ![t] = place]
At(t, place) == cur = t /\ pc[t] = place

(* A call is made on an open device and closes it only when no other is in *)
(* progress.  Callers that are InRange leave the position alone while a    *)
(* transfer is in progress and ask for no write past the end: Owed is the  *)
(* bytes that the transfers in progress have still to move.                *)
Busy == {t \in Thread : pc[t] # "idle"}
Transferring == {t \in Busy : call[t].op \in {"read", "write"}}
Left(t) == {t} \X (total[t]..(call[t].n - 1))
Owed == UNION {Left(t) : t \in Transferring}
Outstanding == Cardinality(Owed)

Legal(c) ==
  /\ c.op # "open" => opened
  /\ c.op = "close" => Busy = {}
  /\ env.InRange =>
       /\ c.op = "setpos" => Busy = {}
       /\ c.op = "write" \/ (c.op = "read" /\ \E t \in Busy : call[t].op = "write")
            => pos + Outstanding + c.n <= size

Enter(t) ==
  /\ cur = NULL /\ pc[t] = "idle"
  /\ calls[t] < CALLS /\ calls' = [calls EXCEPT ![t] = @ + 1]
  /\ \E c \in Call, s \in env.SIE :
       /\ Legal(c)
       /\ call' = [call EXCEPT ![t] = c]
       /\ sie' = s
  /\ cur' = t
  /\ total' = [total EXCEPT ![t] = 0]
  /\ ret' = [ret EXCEPT ![t] = 0]
  /\ Goto(t, "acquire")
  /\ UNCHANGED <<env, dev, device, saved>>

(* lock_acquire takes the lock or waits for a release. *)
lock_acquire_NoTest(t) ==
  /\ At(t, "acquire")
  /\ tid' = t /\ Goto(t, "start") /\ UNCHANGED <<cur, sie>>
  /\ UNCHANGED <<opened, pos, blkbuf, device, locals>>

lock_acquire(t) ==
  /\ At(t, "acquire")
  /\ \/ tid = NULL /\ tid' = t /\ Goto(t, "start") /\ UNCHANGED <<cur, sie>>
     \/ tid # NULL /\ Goto(t, "lockwait") /\ cur' = NULL /\ sie' = FALSE /\ UNCHANGED tid
  /\ UNCHANGED <<opened, pos, blkbuf, device, locals>>

(* lock_release wakes the threads that wait for the lock. *)
lock_release_NoWake(t) ==
  /\ At(t, "release") /\ tid = t
  /\ tid' = NULL
  /\ Goto(t, "idle")
  /\ cur' = NULL /\ sie' = FALSE
  /\ UNCHANGED <<opened, pos, blkbuf, device, locals>>

lock_release(t) ==
  /\ At(t, "release") /\ tid = t
  /\ tid' = NULL
  /\ pc' = [u \in Thread |-> IF u = t THEN "idle"
                             ELSE IF pc[u] = "lockwait" THEN "acquire" ELSE pc[u]]
  /\ cur' = NULL /\ sie' = FALSE
  /\ UNCHANGED <<opened, pos, blkbuf, device, locals>>

Return(t, r) == ret' = [ret EXCEPT ![t] = r] /\ Goto(t, "release")

(* vioblk_open refuses a second opening. *)
vioblk_open(t) ==
  /\ At(t, "start") /\ call[t].op = "open"
  /\ opened' = TRUE
  /\ Return(t, IF opened THEN 1 ELSE 0)
  /\ UNCHANGED <<pos, blkbuf, tid, device, cur, sie, call, total, saved, calls>>

vioblk_close(t) ==
  /\ At(t, "start") /\ call[t].op = "close"
  /\ opened' = FALSE
  /\ Return(t, 0)
  /\ UNCHANGED <<pos, blkbuf, tid, device, cur, sie, call, total, saved, calls>>

(* Of vioblk_ioctl; the commands that report a value change nothing.  Its  *)
(* callers know all its commands, so the return for an unknown one, which  *)
(* keeps the lock, is out of reach: kfs.c only sets the position, and no   *)
(* process gets a descriptor of the disk, which main keeps open.           *)
vioblk_setpos(t) ==
  /\ At(t, "start") /\ call[t].op = "setpos"
  /\ pos' = IF call[t].n > size THEN pos ELSE call[t].n
  /\ Return(t, IF call[t].n > size THEN 1 ELSE 0)
  /\ UNCHANGED <<opened, blkbuf, tid, device, cur, sie, call, total, saved, calls>>

Transfer(t) ==
  /\ At(t, "start") /\ call[t].op \in {"read", "write"}
  /\ Goto(t, "loop")
  /\ UNCHANGED <<dev, device, cur, sie, locals>>

-----------------------------------------------------------------------------
(* One turn of the loops of vioblk_read and vioblk_write. *)

sector_index == pos \div BLKSZ
sector_offset == pos % BLKSZ
MinOf(a, b) == IF a < b THEN a ELSE b
this_time(t) == MinOf(BLKSZ - sector_offset, call[t].n - total[t])
Chunk(t) == sector_offset..(sector_offset + this_time(t) - 1)

(* A write of part of a block reads the block first. *)
reads_first_Never(t) == call[t].op = "read"

reads_first(t) == call[t].op = "read" \/ this_time(t) # BLKSZ

Request(t) ==
  /\ At(t, "loop") /\ total[t] < call[t].n /\ pos < size
  /\ \/ /\ reads_first(t)
        /\ req' = [type |-> "in", sector |-> sector_index]
        /\ Goto(t, "notified_in")
     \/ /\ ~reads_first(t)
        /\ Goto(t, "put")
        /\ UNCHANGED req
  /\ UNCHANGED <<dev, disk, isr, cur, sie, locals>>

(* The caller's bytes go over the block buffer, and out. *)
Put(t) ==
  /\ At(t, "put")
  /\ blkbuf' = [o \in Offset |-> IF o \in Chunk(t) THEN call[t].byte ELSE blkbuf[o]]
  /\ req' = [type |-> "out", sector |-> sector_index]
  /\ Goto(t, "notified_out")
  /\ UNCHANGED <<opened, pos, tid, disk, isr, cur, sie, locals>>

(* A read ends at the end of the device; a write there returns 0 at once,  *)
(* without releasing the lock.                                             *)
EndLoop(t) ==
  /\ At(t, "loop")
  /\ \/ /\ total[t] = call[t].n \/ (call[t].op = "read" /\ pos >= size)
        /\ Return(t, total[t])
        /\ UNCHANGED <<cur, sie>>
     \/ /\ total[t] < call[t].n /\ call[t].op = "write" /\ pos >= size
        /\ ret' = [ret EXCEPT ![t] = 0]
        /\ Goto(t, "idle")
        /\ cur' = NULL /\ sie' = FALSE
  /\ UNCHANGED <<dev, device, call, total, saved, calls>>

(* intr_disable and condition_wait: a step after the request was made. *)
Sleeping == {"sleep_in", "sleep_out"}
Asleep(place) == IF place = "notified_in" THEN "sleep_in" ELSE "sleep_out"
Awake(place) == IF place = "sleep_in" THEN "woken_in" ELSE "woken_out"

Wait(t) ==
  /\ cur = t /\ pc[t] \in {"notified_in", "notified_out"}
  /\ saved' = [saved EXCEPT ![t] = sie]
  /\ Goto(t, Asleep(pc[t]))
  /\ cur' = NULL /\ sie' = FALSE
  /\ UNCHANGED <<dev, device, call, total, ret, calls>>

(* A woken thread gets the hart again: in lock_acquire with interrupts     *)
(* off, after a transfer as they were before the wait.                     *)
Ready(t) == pc[t] \in {"acquire", "woken_in", "woken_out"}

Resume(t) ==
  /\ cur = NULL /\ Ready(t)
  /\ cur' = t
  /\ sie' = (pc[t] # "acquire" /\ saved[t])
  /\ UNCHANGED <<env, dev, device, pc, locals>>

(* The block was read, to be copied to the caller or written over; or it   *)
(* was written.  The status byte of the device is not looked at.           *)
Advance(t) ==
  /\ pos' = pos + this_time(t)
  /\ total' = [total EXCEPT ![t] = @ + this_time(t)]
  /\ Goto(t, "loop")

Continue_NoPut(t) ==
  /\ cur = t /\ pc[t] \in {"woken_in", "woken_out"}
  /\ Advance(t)
  /\ UNCHANGED <<opened, blkbuf, tid, device, cur, sie, call, ret, saved, calls>>

Continue(t) ==
  /\ cur = t /\ pc[t] \in {"woken_in", "woken_out"}
  /\ \/ /\ pc[t] = "woken_out" \/ call[t].op = "read"
        /\ Advance(t)
     \/ /\ pc[t] = "woken_in" /\ call[t].op = "write"
        /\ Goto(t, "put")
        /\ UNCHANGED <<pos, total>>
  /\ UNCHANGED <<opened, blkbuf, tid, device, cur, sie, call, ret, saved, calls>>

-----------------------------------------------------------------------------
(* The device serves the request, or fails it, and raises an interrupt.    *)
DiskAddr(sector, o) == sector * BLKSZ + o

Serve ==
  /\ req.type # "none"
  /\ \/ /\ req.type = "in"
        /\ blkbuf' = [o \in Offset |-> disk[DiskAddr(req.sector, o)]]
        /\ UNCHANGED disk
     \/ /\ req.type = "out"
        /\ disk' = [a \in Addr |-> IF a \div BLKSZ = req.sector
                                   THEN blkbuf[a % BLKSZ] ELSE disk[a]]
        /\ UNCHANGED blkbuf
     \/ /\ env.MayFail
        /\ UNCHANGED <<blkbuf, disk>>
  /\ req' = NoReq /\ isr' = TRUE
  /\ UNCHANGED <<env, opened, pos, tid, cur, sie, pc, locals>>

(* The service routine wakes the sleeper and acknowledges. *)
vioblk_isr ==
  /\ isr /\ (cur # NULL => sie)
  /\ isr' = FALSE
  /\ pc' = [t \in Thread |-> IF pc[t] \in Sleeping THEN Awake(pc[t]) ELSE pc[t]]
  /\ UNCHANGED <<env, dev, disk, req, cur, sie, locals>>

Step(t) ==
  /\ UNCHANGED env
  /\ \/ lock_acquire(t)
     \/ vioblk_open(t)
     \/ vioblk_close(t)
     \/ vioblk_setpos(t)
     \/ Transfer(t)
     \/ Request(t)
     \/ Put(t)
     \/ EndLoop(t)
     \/ Wait(t)
     \/ Continue(t)
     \/ lock_release(t)

Next ==
  \/ \E t \in Thread : Enter(t)
  \/ \E t \in Thread : Step(t)
  \/ \E t \in Thread : Resume(t)
  \/ Serve
  \/ vioblk_isr

Spec == Init /\ [][Next]_vars

(* The running thread goes on, the device answers, its interrupt is taken  *)
(* once it can be, and the ready list lets every ready thread run.         *)
Fairness ==
  /\ \A t \in Thread : WF_vars(Step(t)) /\ SF_vars(Resume(t))
  /\ WF_vars(Serve)
  /\ SF_vars(vioblk_isr)

FairSpec == Spec /\ Fairness

-----------------------------------------------------------------------------
(* A thread woken from a read request finds the block it asked for in the  *)
(* shared buffer, as it is on the disk: no other call, and no interrupt    *)
(* for another request, came in between.  It never looks at the status, so *)
(* the device must not fail.                                               *)
CopyIsFresh ==
  ~env.MayFail => \A t \in Thread : pc[t] = "woken_in" =>
    /\ sector_index < BLKCNT
    /\ \A o \in Offset : blkbuf[o] = disk[DiskAddr(sector_index, o)]

(* The disk changes only where the thread that holds the lock is writing,  *)
(* and to the bytes its caller gave: the rest of a block that is written   *)
(* in part keeps its contents, unless the device failed to read it.        *)
WritesOnlyChunk ==
  [][\A a \in Addr : ~env.MayFail /\ disk'[a] # disk[a] =>
        /\ tid # NULL /\ call[tid].op = "write"
        /\ a \div BLKSZ = sector_index /\ a % BLKSZ \in Chunk(tid)
        /\ disk'[a] = call[tid].byte]_vars

(* Only the holder of the lock has a request at the device, or an          *)
(* interrupt on its way.  Callers that write within the device, however    *)
(* their transfers share the position, leave no lock behind: its holder is *)
(* in the driver.                                                          *)
OneRequest ==
  /\ TypeOK
  /\ req.type # "none" \/ isr =>
       /\ tid # NULL
       /\ pc[tid] \in Sleeping \cup {"notified_in", "notified_out"}
       /\ req.type = "none" \/ ~isr
  /\ env.InRange /\ tid # NULL => pc[tid] # "idle"

(* vioblk.c:443, 364: a transfer returns "the number of bytes successfully *)
(* written to the disk", or read.  When it is about to release the lock it *)
(* has moved all it was asked for, unless a read met the end of the device *)
(* on its way; and as many bytes as a write counts are on the disk, up to  *)
(* the position, whatever blocks it had to read and write and to sleep     *)
(* for.  A device that fails a request goes unnoticed and must be sound    *)
(* for that.                                                               *)
CountIsOnDisk ==
  \A t \in Thread : pc[t] = "release" /\ call[t].op \in {"read", "write"} =>
    /\ ret[t] = call[t].n \/ (call[t].op = "read" /\ pos = size)
    /\ ~env.MayFail /\ call[t].op = "write" =>
         /\ ret[t] <= pos
         /\ \A a \in (pos - ret[t])..(pos - 1) : disk[a] = call[t].byte

(* vioblk.c:582: the service routine "wakes the thread up after waiting    *)
(* for the disk to finish servicing a request", so every call returns.     *)
CallReturns == \A t \in Thread : pc[t] # "idle" ~> pc[t] = "idle"

(* It does for callers in a system call, interrupts off, that ask for no   *)
(* write past the end: as the calls of the other threads come to an end,   *)
(* whether or not the device fails.                                        *)
SyscallReturns ==
  \A t \in Thread :
    env.InRange /\ env.SIE = {FALSE} /\ pc[t] # "idle" ~> pc[t] = "idle"
=============================================================================
