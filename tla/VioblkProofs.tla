---------------------------- MODULE VioblkProofs ----------------------------
(***************************************************************************)
(* Proofs about Vioblk, for any number of threads, any geometry of the     *)
(* device, any callers and any interleaving with the service routine.      *)
(***************************************************************************)
EXTENDS Vioblk, FiniteSetTheorems, TLAPS

(* The places of a thread that went through lock_acquire; of one in the    *)
(* middle of the transfer of a block; and of one that is off the hart.     *)
ReadIn == {"notified_in", "sleep_in"}
WriteOut == {"notified_out", "sleep_out"}
InBlock == ReadIn \cup WriteOut \cup {"woken_in", "put", "woken_out"}
Held == InBlock \cup {"start", "loop", "release"}
Parked == {"idle", "acquire", "lockwait", "woken_in", "woken_out"} \cup Sleeping

Types ==
  /\ TypeOK
  /\ total \in [Thread -> Nat]
  /\ ret \in [Thread -> Nat]

(* Who went through lock_acquire holds the lock. *)
HolderInside == \A t \in Thread : pc[t] \in Held => tid = t

(* A thread off the hart is waiting or has nothing to do. *)
OneRuns ==
  /\ \A t \in Thread : t # cur => pc[t] \in Parked
  /\ cur # NULL => pc[cur] \notin {"idle", "lockwait"} \cup Sleeping

(* A block in transfer is one of the device and wanted by the call. *)
BlockWanted ==
  \A t \in Thread :
    /\ pc[t] \in InBlock =>
         /\ pos < size /\ total[t] < call[t].n
         /\ call[t].op \in {"read", "write"}
    /\ pc[t] = "loop" => call[t].op \in {"read", "write"}
    /\ pc[t] \in WriteOut \cup {"put", "woken_out"} => call[t].op = "write"

(* The request at the device is the one its holder waits for. *)
RequestMatches ==
  /\ req.type # "none" \/ isr =>
       /\ tid # NULL
       /\ pc[tid] \in ReadIn \cup WriteOut
       /\ req.type = "none" \/ ~isr
  /\ req.type = "in" => pc[tid] \in ReadIn /\ req.sector = sector_index
  /\ req.type = "out" => pc[tid] \in WriteOut /\ req.sector = sector_index

Fresh == \A o \in Offset : blkbuf[o] = disk[DiskAddr(sector_index, o)]

(* What the buffer holds: the block that was read, until the caller's      *)
(* bytes go over it; then these bytes, and around them the block.          *)
BufferRight ==
  ~env.MayFail =>
    \A t \in Thread :
      /\ pc[t] \in ReadIn /\ req.type = "none" => Fresh
      /\ pc[t] = "woken_in" => Fresh
      /\ pc[t] = "put" /\ reads_first(t) => Fresh
      /\ pc[t] \in WriteOut /\ req.type = "out" =>
           \A o \in Offset :
             blkbuf[o] = IF o \in Chunk(t) THEN call[t].byte
                         ELSE disk[DiskAddr(sector_index, o)]

IInv ==
  /\ Types
  /\ HolderInside
  /\ OneRuns
  /\ BlockWanted
  /\ RequestMatches
  /\ BufferRight

-----------------------------------------------------------------------------
(* Sectors and offsets. *)

LEMMA Quotient ==
  ASSUME NEW b \in Nat \ {0}, NEW p \in Nat
  PROVE  /\ p \div b \in Nat /\ p % b \in 0..(b - 1)
         /\ p = (p \div b) * b + (p % b)
OBVIOUS

LEMMA QuotientUnique ==
  ASSUME NEW b \in Nat \ {0}, NEW s \in Nat, NEW o \in 0..(b - 1)
  PROVE  /\ (s * b + o) \div b = s
         /\ (s * b + o) % b = o
OBVIOUS

(* A product is monotonic in its first factor. *)
LEMMA Product ==
  ASSUME NEW b \in Nat, NEW s \in Nat, NEW u \in Nat, s <= u
  PROVE  s * b <= u * b
OBVIOUS

LEMMA SizeType == size \in Nat /\ size = BLKCNT * BLKSZ /\ 0 < size
BY VioblkAssumption DEF size

LEMMA Sectors ==
  ASSUME NEW p \in Nat, p < size
  PROVE  /\ p \div BLKSZ \in 0..(BLKCNT - 1)
         /\ p % BLKSZ \in Offset
         /\ p + (BLKSZ - (p % BLKSZ)) <= size
<1> DEFINE s == p \div BLKSZ
           o == p % BLKSZ
<1>1. s \in Nat /\ o \in 0..(BLKSZ - 1) /\ p = s * BLKSZ + o
    BY Zenon, Quotient, VioblkAssumption
<1> HIDE DEF s, o
<1>2. s < BLKCNT
    <2> SUFFICES ASSUME BLKCNT <= s PROVE FALSE
        BY <1>1, VioblkAssumption
    <2>1. BLKCNT * BLKSZ <= s * BLKSZ
        BY Zenon, <1>1, Product, VioblkAssumption
    <2> QED BY <1>1, <2>1, SizeType, VioblkAssumption
<1>3. (s + 1) * BLKSZ <= BLKCNT * BLKSZ
    BY <1>1, <1>2, Product, VioblkAssumption
<1>4. (s + 1) * BLKSZ = s * BLKSZ + BLKSZ
    BY <1>1, VioblkAssumption
<1> QED
    BY <1>1, <1>2, <1>3, <1>4, SizeType, VioblkAssumption DEF Offset, s, o

LEMMA Addresses ==
  ASSUME NEW s \in 0..(BLKCNT - 1), NEW o \in Offset
  PROVE  /\ DiskAddr(s, o) \in Addr
         /\ DiskAddr(s, o) \div BLKSZ = s
         /\ DiskAddr(s, o) % BLKSZ = o
<1>1. DiskAddr(s, o) \div BLKSZ = s /\ DiskAddr(s, o) % BLKSZ = o
    BY QuotientUnique, VioblkAssumption DEF DiskAddr, Offset
<1>2. (s + 1) * BLKSZ <= BLKCNT * BLKSZ
    BY Product, VioblkAssumption
<1>3. (s + 1) * BLKSZ = s * BLKSZ + BLKSZ /\ s * BLKSZ \in Nat
    BY VioblkAssumption
<1> QED
    BY <1>1, <1>2, <1>3, SizeType, VioblkAssumption DEF DiskAddr, Offset, Addr

LEMMA CallType ==
  ASSUME NEW c \in Call \cup {NoCall}
  PROVE  /\ c.n \in Nat
         /\ c.op = "write" => c.byte \in Byte
<1>1. CASE c = NoCall
    BY Zenon, <1>1 DEF NoCall
<1>2. CASE c \in [op : {"read"}, n : Sizes, byte : {0}]
    BY Zenon, <1>2, VioblkAssumption
<1>3. CASE c \in [op : {"write"}, n : Sizes, byte : Byte]
    BY Zenon, <1>3, VioblkAssumption
<1>4. CASE c \in [op : {"setpos"}, n : 0..(size + 1), byte : {0}]
    BY <1>4, SizeType
<1>5. CASE c \in [op : {"open", "close"}, n : {0}, byte : {0}]
    BY <1>5
<1> QED BY Zenon, <1>1, <1>2, <1>3, <1>4, <1>5 DEF Call

(* The part of a block that one turn moves lies within the block, within   *)
(* the device and within what the caller wants.                            *)
LEMMA Turn ==
  ASSUME Types, NEW t \in Thread, pos < size, total[t] < call[t].n
  PROVE  /\ sector_index \in 0..(BLKCNT - 1) /\ sector_offset \in Offset
         /\ this_time(t) \in Nat \ {0} /\ this_time(t) <= BLKSZ
         /\ pos + this_time(t) <= size
         /\ total[t] + this_time(t) <= call[t].n
         /\ this_time(t) = BLKSZ => Chunk(t) = Offset
<1>1. pos \in Nat /\ total[t] \in Nat /\ call[t].n \in Nat
    BY SizeType, CallType DEF Types, TypeOK
<1>2. /\ sector_index \in 0..(BLKCNT - 1) /\ sector_offset \in Offset
      /\ pos + (BLKSZ - sector_offset) <= size
    BY Zenon, <1>1, Sectors DEF sector_index, sector_offset
<1>3. sector_offset \in 0..(BLKSZ - 1)
    BY Zenon, <1>2 DEF Offset
<1> QED
    BY <1>1, <1>2, <1>3, SizeType, VioblkAssumption DEF this_time, MinOf, Chunk, Offset

-----------------------------------------------------------------------------
LEMMA InitOK == Init => IInv
<1> SUFFICES ASSUME Init PROVE IInv
    BY Zenon
<1>1. Types
    <2>1. pos \in 0..size /\ blkbuf \in [Offset -> Byte] /\ disk \in [Addr -> Byte]
        BY SizeType, VioblkAssumption DEF Init
    <2>2. req \in [type : {"none", "in", "out"}, sector : 0..(BLKCNT - 1)]
        BY VioblkAssumption DEF Init, NoReq
    <2>3. call \in [Thread -> Call \cup {NoCall}]
        BY Zenon DEF Init
    <2>4. \A t \in Thread : total[t] <= call[t].n
        BY DEF Init, NoCall
    <2> QED BY Zenon, <2>1, <2>2, <2>3, <2>4 DEF Init, Types, TypeOK
<1> QED
    BY Zenon, <1>1 DEF Init, IInv, HolderInside, OneRuns, BlockWanted, RequestMatches,
      BufferRight, Held, InBlock, ReadIn, WriteOut, Parked, Sleeping, NoReq

LEMMA EnterOK ==
  ASSUME IInv, NEW t \in Thread, Enter(t)
  PROVE  IInv'
<1> USE DEF IInv
<1>1. Types'
    <2>1. PICK c \in Call, s \in env.SIE : call' = [call EXCEPT ![t] = c] /\ sie' = s
        BY Zenon DEF Enter
    <2>2. s \in BOOLEAN
        BY Zenon, VioblkAssumption DEF Types, TypeOK
    <2>3. \A u \in Thread : (total[u] <= call[u].n)'
        BY <2>1, CallType DEF Enter, Types, TypeOK
    <2> QED BY Zenon, <2>1, <2>2, <2>3 DEF Enter, Goto, dev, device, Types, TypeOK
<1>2. pc[t] = "idle" /\ cur = NULL /\ cur' = t /\ pc' = [pc EXCEPT ![t] = "acquire"]
    BY Zenon DEF Enter, Goto
<1>3. \A u \in Thread : u # t => pc'[u] = pc[u] /\ call'[u] = call[u] /\ total'[u] = total[u]
    BY Zenon DEF Enter, Goto, Types, TypeOK
<1>4. pc'[t] = "acquire"
    BY Zenon, <1>2 DEF Types, TypeOK
<1>5. UNCHANGED <<env, dev, device, sector_index, sector_offset, Fresh>>
    BY Zenon DEF Enter, dev, device, sector_index, sector_offset, Fresh, DiskAddr
<1> USE DEF Held, InBlock, ReadIn, WriteOut, Parked, Sleeping
<1>6. HolderInside'
    BY Zenon, <1>3, <1>4, <1>5 DEF HolderInside, dev
<1>7. OneRuns'
    BY Zenon, <1>2, <1>3, <1>4, VioblkAssumption DEF OneRuns
<1>8. BlockWanted'
    BY Zenon, <1>3, <1>4, <1>5 DEF BlockWanted, dev
<1>9. RequestMatches'
    BY Zenon, <1>2, <1>3, <1>4, <1>5 DEF RequestMatches, Types, TypeOK, dev, device
<1>10. BufferRight'
    BY Zenon, <1>3, <1>4, <1>5 DEF BufferRight, dev, device, reads_first, Chunk, this_time
<1> QED BY Zenon, <1>1, <1>6, <1>7, <1>8, <1>9, <1>10

(* A step that leaves alone the position, the buffer and the device, and   *)
(* that neither enters nor leaves the transfer of a block.                 *)
LEMMA Quiet ==
  ASSUME IInv, Types', HolderInside', OneRuns',
         UNCHANGED <<env, pos, blkbuf, device, call, total>>,
         \A u \in Thread : pc'[u] # pc[u] =>
            /\ pc[u] \notin ReadIn \cup WriteOut
            /\ pc'[u] \notin InBlock
            /\ pc'[u] = "loop" => call[u].op \in {"read", "write"},
         tid' = tid \/ tid = NULL \/ pc[tid] \notin ReadIn \cup WriteOut
  PROVE  IInv'
<1> USE DEF IInv
<1>1. UNCHANGED <<sector_index, sector_offset, Fresh>>
    BY Zenon DEF device, sector_index, sector_offset, Fresh, DiskAddr
<1> USE DEF InBlock, ReadIn, WriteOut
<1>2. BlockWanted'
    BY Zenon DEF BlockWanted
<1>3. RequestMatches'
    BY Zenon, <1>1 DEF RequestMatches, Types, TypeOK, device
<1>4. BufferRight'
    BY Zenon, <1>1 DEF BufferRight, device, reads_first, Chunk, this_time
<1> QED BY Zenon, <1>2, <1>3, <1>4

LEMMA ResumeOK ==
  ASSUME IInv, NEW t \in Thread, Resume(t)
  PROVE  IInv'
<1> USE DEF IInv
<1>1. UNCHANGED <<env, dev, device, pc, locals>> /\ cur = NULL /\ cur' = t /\ Ready(t)
    BY Zenon DEF Resume
<1>2. Types'
    BY Zenon, <1>1 DEF Resume, Types, TypeOK, dev, device, locals
<1>3. HolderInside'
    BY Zenon, <1>1 DEF HolderInside, dev
<1>4. OneRuns'
    BY Zenon, <1>1, VioblkAssumption DEF OneRuns, Ready, Sleeping, Parked
<1> QED BY Zenon, <1>1, <1>2, <1>3, <1>4, Quiet DEF dev, locals

LEMMA AcquireOK ==
  ASSUME IInv, NEW t \in Thread, lock_acquire(t), UNCHANGED env
  PROVE  IInv'
<1> USE DEF IInv
<1>1. /\ UNCHANGED <<opened, pos, blkbuf, device, locals>>
      /\ cur = t /\ pc[t] = "acquire"
      /\ \A u \in Thread : u # t => pc'[u] = pc[u]
    BY Zenon DEF lock_acquire, At, Goto, Types, TypeOK
<1>2. \/ tid = NULL /\ tid' = t /\ pc'[t] = "start" /\ cur' = t
      \/ tid # NULL /\ tid' = tid /\ pc'[t] = "lockwait" /\ cur' = NULL
    BY Zenon DEF lock_acquire, At, Goto, Types, TypeOK
<1>3. Types'
    BY Zenon DEF lock_acquire, Goto, Types, TypeOK, device, locals
<1> USE DEF Held, InBlock, ReadIn, WriteOut, Parked, Sleeping
<1>4. HolderInside'
    BY Zenon, <1>1, <1>2, VioblkAssumption DEF HolderInside
<1>5. OneRuns'
    BY Zenon, <1>1, <1>2, VioblkAssumption DEF OneRuns
<1>6. \A u \in Thread : pc'[u] # pc[u] => u = t
    BY Zenon, <1>1
<1> QED BY Zenon, <1>1, <1>2, <1>3, <1>4, <1>5, <1>6, Quiet DEF locals

LEMMA ReleaseOK ==
  ASSUME IInv, NEW t \in Thread, lock_release(t), UNCHANGED env
  PROVE  IInv'
<1> USE DEF IInv
<1>1. /\ UNCHANGED <<opened, pos, blkbuf, device, locals>>
      /\ cur = t /\ pc[t] = "release" /\ tid = t /\ tid' = NULL /\ cur' = NULL
      /\ pc'[t] = "idle"
      /\ \A u \in Thread : u # t =>
           pc'[u] = pc[u] \/ (pc[u] = "lockwait" /\ pc'[u] = "acquire")
    BY Zenon DEF lock_release, At, Types, TypeOK
<1>2. Types'
    BY Zenon DEF lock_release, Types, TypeOK, device, locals
<1> USE DEF Held, InBlock, ReadIn, WriteOut, Parked, Sleeping
<1>3. HolderInside'
    BY Zenon, <1>1, VioblkAssumption DEF HolderInside
<1>4. OneRuns'
    BY Zenon, <1>1, VioblkAssumption DEF OneRuns
<1>5. \A u \in Thread : pc'[u] # pc[u] =>
        pc[u] \in {"release", "lockwait"} /\ pc'[u] \in {"idle", "acquire"}
    BY Zenon, <1>1
<1> QED BY Zenon, <1>1, <1>2, <1>3, <1>4, <1>5, Quiet DEF locals

(* vioblk_open, vioblk_close, and the start and the end of a transfer,     *)
(* where t, which runs with the lock, goes on to another place.            *)
Moves(t) ==
  /\ UNCHANGED <<pos, blkbuf, tid, device, call, total, saved>>
  /\ opened' \in BOOLEAN /\ sie' \in {sie, FALSE} /\ ret' \in [Thread -> Nat]
  /\ cur = t /\ pc[t] \in {"start", "loop"}
  /\ \/ Goto(t, "release") /\ cur' = t
     \/ Goto(t, "idle") /\ cur' = NULL
     \/ Goto(t, "loop") /\ cur' = t /\ call[t].op \in {"read", "write"}

LEMMA MovesOK ==
  ASSUME IInv, NEW t \in Thread, Moves(t), UNCHANGED env
  PROVE  IInv'
<1> USE DEF IInv
<1>1. pc'[t] \in {"release", "idle", "loop"} /\ \A u \in Thread : u # t => pc'[u] = pc[u]
    BY Zenon DEF Moves, Goto, Types, TypeOK
<1>2. Types'
    BY Zenon DEF Moves, Goto, Types, TypeOK, device
<1> USE DEF Held, InBlock, ReadIn, WriteOut, Parked, Sleeping
<1>3. HolderInside'
    BY Zenon, <1>1, VioblkAssumption DEF HolderInside, Moves
<1>4. OneRuns'
    BY ZenonT(60), <1>1, VioblkAssumption DEF OneRuns, Moves, Goto, Types, TypeOK
<1>5. \A u \in Thread : pc'[u] # pc[u] => u = t
    BY Zenon, <1>1
<1>6. pc'[t] = "loop" => call[t].op \in {"read", "write"}
    BY Zenon DEF Moves, Goto, Types, TypeOK
<1> QED BY Zenon, <1>1, <1>2, <1>3, <1>4, <1>5, <1>6, Quiet DEF Moves

LEMMA MoveOK ==
  ASSUME IInv, NEW t \in Thread, UNCHANGED env,
         vioblk_open(t) \/ vioblk_close(t) \/ Transfer(t) \/ EndLoop(t)
  PROVE  IInv'
<1> USE DEF At, Goto, Return, Moves, device
<1>1. Types
    BY Zenon DEF IInv
<1>2. ASSUME NEW r \in Nat PROVE [ret EXCEPT ![t] = r] \in [Thread -> Nat]
    BY Zenon, <1>1 DEF Types
<1>3. CASE vioblk_open(t)
    <2>1. Moves(t)
        BY Zenon, <1>2, <1>3 DEF vioblk_open
    <2> QED BY Zenon, <2>1, MovesOK
<1>4. CASE vioblk_close(t)
    <2>1. Moves(t)
        BY Zenon, <1>2, <1>4 DEF vioblk_close
    <2> QED BY Zenon, <2>1, MovesOK
<1>5. CASE Transfer(t)
    <2>1. Moves(t)
        BY Zenon, <1>1, <1>5 DEF Transfer, dev, locals, Types, TypeOK
    <2> QED BY Zenon, <2>1, MovesOK
<1>6. CASE EndLoop(t)
    <2>1. total[t] \in Nat /\ opened \in BOOLEAN
        BY Zenon, <1>1 DEF Types, TypeOK
    <2>2. ret' \in [Thread -> Nat]
        BY Zenon, <1>2, <1>6, <2>1 DEF EndLoop
    <2>3. Moves(t)
        BY Zenon, <1>6, <2>1, <2>2 DEF EndLoop, dev
    <2> QED BY Zenon, <2>3, MovesOK
<1> QED BY Zenon, <1>3, <1>4, <1>5, <1>6

LEMMA SetposOK ==
  ASSUME IInv, NEW t \in Thread, vioblk_setpos(t), UNCHANGED env
  PROVE  IInv'
<1> USE DEF IInv
<1>1. /\ UNCHANGED <<opened, blkbuf, tid, device, cur, sie, call, total, saved>>
      /\ cur = t /\ pc[t] = "start" /\ pc'[t] = "release" /\ tid = t
      /\ \A u \in Thread : u # t => pc'[u] = pc[u] /\ pc[u] \notin Held
    BY Zenon DEF vioblk_setpos, At, Return, Goto, Types, TypeOK, HolderInside, Held
<1>2. Types'
    <2>1. pos' \in 0..size
        BY CallType, SizeType DEF vioblk_setpos, Types, TypeOK
    <2> QED BY Zenon, <2>1 DEF vioblk_setpos, Return, Goto, Types, TypeOK, device
<1> USE DEF Held, InBlock, ReadIn, WriteOut, Parked, Sleeping
<1>3. HolderInside' /\ OneRuns' /\ BlockWanted' /\ BufferRight'
    BY Zenon, <1>1, VioblkAssumption DEF HolderInside, OneRuns, BlockWanted, BufferRight
<1>4. RequestMatches'
    BY Zenon, <1>1 DEF RequestMatches, device
<1> QED BY Zenon, <1>2, <1>3, <1>4

LEMMA RequestOK ==
  ASSUME IInv, NEW t \in Thread, Request(t), UNCHANGED env
  PROVE  IInv'
<1> USE DEF IInv
<1>1. /\ UNCHANGED <<dev, disk, isr, cur, sie, locals>>
      /\ cur = t /\ pc[t] = "loop" /\ tid = t
      /\ pos < size /\ total[t] < call[t].n
      /\ \A u \in Thread : u # t => pc'[u] = pc[u] /\ pc[u] \notin Held
    BY Zenon DEF Request, At, Goto, Types, TypeOK, HolderInside, Held
<1>2. \/ reads_first(t) /\ pc'[t] = "notified_in" /\ req' = [type |-> "in", sector |-> sector_index]
      \/ ~reads_first(t) /\ pc'[t] = "put" /\ req' = req
    BY Zenon DEF Request, Goto, Types, TypeOK
<1>3. sector_index \in 0..(BLKCNT - 1)
    BY Zenon, <1>1, Turn
<1>4. UNCHANGED <<sector_index, sector_offset>> /\ reads_first(t)' = reads_first(t)
    BY Zenon, <1>1 DEF sector_index, sector_offset, reads_first, this_time, dev, locals
<1>5. Types'
    BY <1>1, <1>3 DEF Request, Goto, Types, TypeOK, dev, locals
<1> USE DEF Held, InBlock, ReadIn, WriteOut, Parked, Sleeping
<1>6. HolderInside' /\ OneRuns'
    BY Zenon, <1>1, <1>2, VioblkAssumption DEF HolderInside, OneRuns, dev
<1>7. BlockWanted'
    BY Zenon, <1>1, <1>2 DEF BlockWanted, dev, locals, reads_first
<1>8. req.type = "none" /\ ~isr
    BY Zenon, <1>1 DEF RequestMatches, Types, TypeOK
<1>9. RequestMatches'
    BY <1>1, <1>2, <1>4, <1>8, VioblkAssumption DEF RequestMatches, dev
<1>10. BufferRight'
    BY SMTT(60), <1>1, <1>2, <1>4, <1>8 DEF BufferRight
<1> QED BY Zenon, <1>5, <1>6, <1>7, <1>9, <1>10

LEMMA PutOK ==
  ASSUME IInv, NEW t \in Thread, Put(t), UNCHANGED env
  PROVE  IInv'
<1> USE DEF IInv
<1>1. /\ UNCHANGED <<opened, pos, tid, disk, isr, cur, sie, locals>>
      /\ cur = t /\ pc[t] = "put" /\ tid = t
      /\ pc'[t] = "notified_out" /\ req' = [type |-> "out", sector |-> sector_index]
      /\ \A u \in Thread : u # t => pc'[u] = pc[u] /\ pc[u] \notin Held
    BY Zenon DEF Put, At, Goto, Types, TypeOK, HolderInside, Held, InBlock
<1>2. pos < size /\ total[t] < call[t].n /\ call[t].op = "write"
    BY Zenon, <1>1 DEF BlockWanted, InBlock
<1>3. /\ sector_index \in 0..(BLKCNT - 1) /\ call[t].byte \in Byte
      /\ this_time(t) = BLKSZ => Chunk(t) = Offset
    BY Zenon, <1>1, <1>2, Turn, CallType DEF Types, TypeOK
<1>4. UNCHANGED <<sector_index, sector_offset>> /\ Chunk(t)' = Chunk(t)
    BY Zenon, <1>1 DEF sector_index, sector_offset, Chunk, this_time, locals
<1>5. Types'
    BY <1>1, <1>3 DEF Put, Goto, Types, TypeOK, locals
<1> USE DEF Held, InBlock, ReadIn, WriteOut, Parked, Sleeping
<1>6. HolderInside' /\ OneRuns' /\ BlockWanted'
    BY Zenon, <1>1, <1>2, VioblkAssumption DEF HolderInside, OneRuns, BlockWanted, locals
<1>7. ~isr
    BY Zenon, <1>1 DEF RequestMatches
<1>8. RequestMatches'
    BY Zenon, <1>1, <1>4, <1>7, VioblkAssumption DEF RequestMatches
<1>9. ~env.MayFail => \A o \in Offset :
        blkbuf'[o] = IF o \in Chunk(t) THEN call[t].byte ELSE disk[DiskAddr(sector_index, o)]
    <2>1. ~env.MayFail /\ reads_first(t) => Fresh
        BY Zenon, <1>1 DEF BufferRight
    <2>2. reads_first(t) \/ Chunk(t) = Offset
        BY Zenon, <1>3 DEF reads_first
    <2> QED BY Zenon, <2>1, <2>2 DEF Put, Fresh
<1>10. BufferRight'
    BY ZenonT(60), <1>1, <1>4, <1>9 DEF BufferRight, locals, DiskAddr
<1> QED BY Zenon, <1>5, <1>6, <1>8, <1>10

LEMMA WaitOK ==
  ASSUME IInv, NEW t \in Thread, Wait(t), UNCHANGED env
  PROVE  IInv'
<1> USE DEF IInv
<1>1. /\ UNCHANGED <<dev, device, call, total, ret>>
      /\ cur = t /\ cur' = NULL /\ tid = t
      /\ \/ pc[t] = "notified_in" /\ pc'[t] = "sleep_in"
         \/ pc[t] = "notified_out" /\ pc'[t] = "sleep_out"
      /\ \A u \in Thread : u # t => pc'[u] = pc[u] /\ pc[u] \notin Held
    BY Zenon DEF Wait, Goto, Asleep, Types, TypeOK, HolderInside, Held, InBlock, ReadIn, WriteOut
<1>2. UNCHANGED <<sector_index, sector_offset, Fresh>> /\ Chunk(t)' = Chunk(t)
    BY Zenon, <1>1 DEF sector_index, sector_offset, Chunk, this_time, dev, device, Fresh, DiskAddr
<1>3. Types'
    BY Zenon, <1>1 DEF Wait, Asleep, Goto, Types, TypeOK, dev, device
<1> USE DEF Held, InBlock, ReadIn, WriteOut, Parked, Sleeping
<1>4. HolderInside' /\ OneRuns' /\ BlockWanted'
    BY Zenon, <1>1, VioblkAssumption DEF HolderInside, OneRuns, BlockWanted, dev
<1>5. RequestMatches'
    BY Zenon, <1>1, <1>2 DEF RequestMatches, dev, device
<1>6. BufferRight'
    BY SMTT(60), <1>1, <1>2 DEF BufferRight, dev, device, DiskAddr
<1> QED BY Zenon, <1>3, <1>4, <1>5, <1>6

LEMMA ContinueOK ==
  ASSUME IInv, NEW t \in Thread, Continue(t), UNCHANGED env
  PROVE  IInv'
<1> USE DEF IInv
<1>1. /\ UNCHANGED <<opened, blkbuf, tid, device, cur, sie, call, ret, saved>>
      /\ cur = t /\ pc[t] \in {"woken_in", "woken_out"} /\ tid = t
      /\ \A u \in Thread : u # t => pc'[u] = pc[u] /\ pc[u] \notin Held
    BY Zenon DEF Continue, Advance, Goto, Types, TypeOK, HolderInside, Held, InBlock
<1>2. pos < size /\ total[t] < call[t].n /\ call[t].op \in {"read", "write"}
    BY Zenon, <1>1 DEF BlockWanted, InBlock
<1>3. req.type = "none" /\ ~isr
    BY Zenon, <1>1 DEF RequestMatches, ReadIn, WriteOut, Types, TypeOK
<1> USE DEF Held, InBlock, ReadIn, WriteOut, Parked, Sleeping
<1>4. CASE Advance(t)
    <2>1. pc'[t] = "loop" /\ pos' = pos + this_time(t)
          /\ total' = [total EXCEPT ![t] = @ + this_time(t)]
        BY Zenon, <1>4 DEF Advance, Goto, Types, TypeOK
    <2>2. Types'
        <3>1. /\ this_time(t) \in Nat /\ pos + this_time(t) <= size
              /\ total[t] + this_time(t) <= call[t].n
            BY Zenon, <1>2, Turn
        <3>2. pos' \in 0..size
            BY <2>1, <3>1, SizeType DEF Types, TypeOK
        <3>3. total' \in [Thread -> Nat]
            BY <2>1, <3>1 DEF Types
        <3>4. \A u \in Thread : (total[u] <= call[u].n)'
            BY Zenon, <1>1, <2>1, <3>1 DEF Types, TypeOK
        <3> QED BY Zenon, <1>1, <1>4, <3>2, <3>3, <3>4 DEF Advance, Goto, Types, TypeOK, device
    <2>3. HolderInside' /\ OneRuns' /\ BlockWanted' /\ BufferRight'
        BY Zenon, <1>1, <1>2, <2>1, VioblkAssumption DEF HolderInside, OneRuns, BlockWanted, BufferRight
    <2>4. RequestMatches'
        BY Zenon, <1>1, <1>3 DEF RequestMatches, device
    <2> QED BY Zenon, <2>2, <2>3, <2>4
<1>5. CASE pc[t] = "woken_in" /\ call[t].op = "write" /\ Goto(t, "put") /\ UNCHANGED <<pos, total>>
    <2>1. pc'[t] = "put"
        BY Zenon, <1>5 DEF Goto, Types, TypeOK
    <2>2. UNCHANGED <<sector_index, sector_offset, Fresh>>
        BY Zenon, <1>1, <1>5 DEF sector_index, sector_offset, device, Fresh, DiskAddr
    <2>3. Types'
        BY Zenon, <1>1, <1>5 DEF Goto, Types, TypeOK, device
    <2>4. HolderInside' /\ OneRuns' /\ BlockWanted'
        BY Zenon, <1>1, <1>2, <1>5, <2>1, VioblkAssumption DEF HolderInside, OneRuns, BlockWanted
    <2>5. RequestMatches'
        BY Zenon, <1>1, <1>3 DEF RequestMatches, device
    <2>6. BufferRight'
        BY Zenon, <1>1, <1>5, <2>1, <2>2 DEF BufferRight
    <2> QED BY Zenon, <2>3, <2>4, <2>5, <2>6
<1> QED BY Zenon, <1>4, <1>5 DEF Continue

LEMMA IsrOK ==
  ASSUME IInv, vioblk_isr
  PROVE  IInv'
<1> USE DEF IInv
<1>1. /\ UNCHANGED <<env, dev, disk, req, cur, sie, locals>>
      /\ isr /\ isr' = FALSE /\ req.type = "none"
      /\ pc' = [t \in Thread |-> IF pc[t] \in Sleeping THEN Awake(pc[t]) ELSE pc[t]]
    BY Zenon DEF vioblk_isr, RequestMatches
<1>2. \A u \in Thread : \/ pc'[u] = pc[u] /\ pc[u] \notin Sleeping
                        \/ pc[u] = "sleep_in" /\ pc'[u] = "woken_in"
                        \/ pc[u] = "sleep_out" /\ pc'[u] = "woken_out"
    BY Zenon, <1>1 DEF Awake, Sleeping
<1>3. UNCHANGED <<sector_index, sector_offset, Fresh>> /\ \A u \in Thread : reads_first(u)' = reads_first(u)
    BY Zenon, <1>1 DEF sector_index, sector_offset, reads_first, this_time, dev, locals, Fresh, DiskAddr
<1>4. Types'
    BY Zenon, <1>1 DEF Awake, Sleeping, Types, TypeOK, dev, locals
<1> USE DEF Held, InBlock, ReadIn, WriteOut, Parked, Sleeping
<1>5. HolderInside' /\ OneRuns'
    BY Zenon, <1>1, <1>2 DEF HolderInside, OneRuns, dev, Types, TypeOK
<1>6. BlockWanted'
    BY Zenon, <1>1, <1>2 DEF BlockWanted, dev, locals
<1>7. RequestMatches'
    BY Zenon, <1>1 DEF RequestMatches
<1>8. BufferRight'
    BY Zenon, <1>1, <1>2, <1>3 DEF BufferRight
<1> QED BY Zenon, <1>4, <1>5, <1>6, <1>7, <1>8

(* The holder of the lock, when a request is at the device. *)
LEMMA Asks ==
  ASSUME IInv, req.type # "none"
  PROVE  /\ tid \in Thread /\ req.sector = sector_index /\ ~isr
         /\ pc[tid] \in IF req.type = "in" THEN ReadIn ELSE WriteOut
         /\ pos < size /\ total[tid] < call[tid].n
         /\ sector_index \in 0..(BLKCNT - 1)
         /\ \A u \in Thread : u # tid => pc[u] \notin Held
<1> USE DEF IInv
<1>1. req.type \in {"in", "out"} /\ tid \in Thread /\ req.sector = sector_index /\ ~isr
      /\ pc[tid] \in IF req.type = "in" THEN ReadIn ELSE WriteOut
    BY Zenon DEF RequestMatches, Types, TypeOK
<1>2. pos < size /\ total[tid] < call[tid].n
    BY Zenon, <1>1 DEF BlockWanted, InBlock, ReadIn, WriteOut
<1>3. \A u \in Thread : u # tid => pc[u] \notin Held
    BY Zenon DEF HolderInside
<1> QED BY Zenon, <1>1, <1>2, <1>3, Turn

LEMMA ServeOK ==
  ASSUME IInv, Serve
  PROVE  IInv'
<1> USE DEF IInv
<1>1. /\ UNCHANGED <<env, opened, pos, tid, cur, sie, pc, locals>>
      /\ req.type # "none" /\ req' = NoReq /\ isr' = TRUE
    BY Zenon DEF Serve
<1>2. /\ tid \in Thread /\ req.sector = sector_index
      /\ pc[tid] \in IF req.type = "in" THEN ReadIn ELSE WriteOut
      /\ sector_index \in 0..(BLKCNT - 1)
      /\ \A u \in Thread : u # tid => pc[u] \notin Held
    BY Zenon, <1>1, Asks
<1>3. UNCHANGED <<sector_index, sector_offset>>
    BY Zenon, <1>1 DEF sector_index, sector_offset
<1>4. Types'
    <2>1. blkbuf' \in [Offset -> Byte]
        BY <1>2, Addresses DEF Serve, Types, TypeOK
    <2>2. disk' \in [Addr -> Byte]
        <3>1. \A a \in Addr : a % BLKSZ \in Offset
            BY Quotient, SizeType, VioblkAssumption DEF Addr, Offset
        <3> QED BY <3>1 DEF Serve, Types, TypeOK
    <2>3. NoReq \in [type : {"none", "in", "out"}, sector : 0..(BLKCNT - 1)]
        BY VioblkAssumption DEF NoReq
    <2> QED BY Zenon, <1>1, <2>1, <2>2, <2>3 DEF Types, TypeOK, locals
<1> USE DEF Held, InBlock, ReadIn, WriteOut, Parked, Sleeping
<1>5. HolderInside' /\ OneRuns' /\ BlockWanted'
    BY Zenon, <1>1 DEF HolderInside, OneRuns, BlockWanted, locals
<1>6. RequestMatches'
    BY Zenon, <1>1, <1>2, VioblkAssumption DEF RequestMatches, NoReq
<1>7. ~env.MayFail /\ req.type = "in" => Fresh'
    BY Zenon, <1>1, <1>2, <1>3 DEF Serve, Fresh, DiskAddr
<1>8. BufferRight'
    BY Zenon, <1>1, <1>2, <1>7 DEF BufferRight, NoReq, Types, TypeOK
<1> QED BY Zenon, <1>4, <1>5, <1>6, <1>8

LEMMA StepOK == IInv /\ [Next]_vars => IInv'
<1> SUFFICES ASSUME IInv, [Next]_vars PROVE IInv'
    BY Zenon
<1>1. ASSUME NEW t \in Thread, Step(t) PROVE IInv'
    BY Zenon, <1>1, AcquireOK, MoveOK, SetposOK, RequestOK, PutOK, WaitOK, ContinueOK, ReleaseOK DEF Step
<1>2. CASE UNCHANGED vars
    BY ZenonT(60), <1>2 DEF vars, dev, device, locals, IInv, Types, TypeOK, HolderInside, OneRuns,
         BlockWanted, RequestMatches, BufferRight, Fresh, Chunk, reads_first, this_time,
         sector_index, sector_offset, DiskAddr
<1> QED BY Zenon, <1>1, <1>2, EnterOK, ResumeOK, ServeOK, IsrOK DEF Next

LEMMA Invariant == Spec => []IInv
BY InitOK, StepOK, PTL DEF Spec

(* What vioblk_read copies to its caller, and what vioblk_write puts its   *)
(* caller's bytes over, is the block the disk holds, unless the device     *)
(* failed (vioblk.c:422, 509).                                             *)
THEOREM CopiesWhatDiskHolds == Spec => []CopyIsFresh
<1>1. IInv => CopyIsFresh
    <2> SUFFICES ASSUME IInv, ~env.MayFail, NEW t \in Thread, pc[t] = "woken_in"
                 PROVE  sector_index < BLKCNT /\ Fresh
        BY Zenon DEF CopyIsFresh, Fresh
    <2>1. pos < size /\ total[t] < call[t].n
        BY Zenon DEF IInv, BlockWanted, InBlock
    <2>2. sector_index \in 0..(BLKCNT - 1)
        BY Zenon, <2>1, Turn DEF IInv
    <2> QED BY SMTT(60), <2>2, VioblkAssumption DEF IInv, BufferRight
<1> QED BY <1>1, Invariant, PTL

(* A step that serves a write request changes the bytes that vioblk_write  *)
(* was given and keeps those around them in the block (vioblk.c:477-509).  *)
LEMMA ServeWrites ==
  ASSUME IInv, Serve, ~env.MayFail, NEW a \in Addr, disk'[a] # disk[a]
  PROVE  /\ tid # NULL /\ call[tid].op = "write"
         /\ a \div BLKSZ = sector_index /\ a % BLKSZ \in Chunk(tid)
         /\ disk'[a] = call[tid].byte
<1>1. req.type = "out" /\ a \div BLKSZ = req.sector /\ disk'[a] = blkbuf[a % BLKSZ]
    BY Zenon DEF Serve
<1>2. tid \in Thread /\ req.sector = sector_index /\ pc[tid] \in WriteOut
    BY Zenon, <1>1, Asks
<1>3. a % BLKSZ \in Offset /\ DiskAddr(a \div BLKSZ, a % BLKSZ) = a
    BY Quotient, SizeType, VioblkAssumption DEF Addr, Offset, DiskAddr
<1>4. blkbuf[a % BLKSZ] = IF a % BLKSZ \in Chunk(tid) THEN call[tid].byte
                          ELSE disk[DiskAddr(sector_index, a % BLKSZ)]
    BY Zenon, <1>1, <1>2, <1>3 DEF IInv, BufferRight
<1>5. call[tid].op = "write"
    BY Zenon, <1>2 DEF IInv, BlockWanted
<1> QED BY Zenon, <1>1, <1>2, <1>3, <1>4, <1>5, VioblkAssumption

(* The disk changes only under the chunk that the lock holder is writing,  *)
(* and to the bytes of its caller, whatever else runs.                     *)
THEOREM DiskChangesInChunk == Spec => WritesOnlyChunk
<1> DEFINE Allowed ==
      \A a \in Addr : ~env.MayFail /\ disk'[a] # disk[a] =>
        /\ tid # NULL /\ call[tid].op = "write"
        /\ a \div BLKSZ = sector_index /\ a % BLKSZ \in Chunk(tid)
        /\ disk'[a] = call[tid].byte
<1>1. ASSUME IInv, Next PROVE Serve \/ UNCHANGED disk
    BY Zenon, <1>1 DEF Next, Enter, Step, Resume, vioblk_isr, lock_acquire, vioblk_open, vioblk_close,
         vioblk_setpos, Transfer, Request, Put, EndLoop, Wait, Continue, lock_release, device
<1>2. IInv /\ [Next]_vars => [Allowed]_vars
    BY Zenon, <1>1, ServeWrites
<1> HIDE DEF Allowed
<1>3. Spec => [][Allowed]_vars
    BY <1>2, Invariant, PTL DEF Spec
<1> QED BY Zenon, <1>3 DEF Allowed, WritesOnlyChunk

-----------------------------------------------------------------------------
(* Callers that ask for no write past the end. *)

(* The lock is held by a thread that will release it, a change of position *)
(* is made with nobody else in the driver, and what the transfers in       *)
(* progress will move is there to be moved when one of them is a write.    *)
WritesFit ==
  env.InRange =>
    /\ tid # NULL => pc[tid] \in Held
    /\ \A t \in Busy : call[t].op = "setpos" => cur = t /\ Busy = {t}
    /\ IsFiniteSet(Owed)
    /\ \A t \in Busy : call[t].op = "write" => pos + Outstanding <= size

LEMMA FitsInit == Init => WritesFit
<1> SUFFICES ASSUME Init PROVE WritesFit
    BY Zenon
<1>1. Busy = {} /\ Owed = {}
    BY Zenon DEF Init, Busy, Transferring, Owed
<1> QED BY Zenon, <1>1, FS_EmptySet DEF Init, WritesFit, NoCall

(* A step that keeps every call in progress and what it has to move. *)
LEMMA Accounts ==
  ASSUME Types, Busy' = Busy, UNCHANGED <<call, total>>
  PROVE  Owed' = Owed /\ Outstanding' = Outstanding
<1>1. Owed' = Owed
    BY Zenon DEF Owed, Left, Transferring
<1> QED BY Zenon, <1>1 DEF Outstanding

LEMMA FitsQuiet ==
  ASSUME IInv, WritesFit, UNCHANGED <<env, pos, call, total>>, Busy' = Busy,
         env.InRange /\ tid' # NULL => pc'[tid'] \in Held,
         env.InRange => \A t \in Busy : call[t].op = "setpos" => cur' = t
  PROVE  WritesFit'
<1>1. Owed' = Owed /\ Outstanding' = Outstanding
    BY Zenon, Accounts DEF IInv
<1>2. size' = size
    BY Zenon DEF size
<1> QED BY Zenon, <1>1, <1>2 DEF WritesFit

(* Counting. *)
LEMMA Strand ==
  ASSUME NEW t, NEW a \in Nat, NEW e \in Nat, a <= e
  PROVE  IsFiniteSet({t} \X (a..(e - 1))) /\ Cardinality({t} \X (a..(e - 1))) = e - a
<1> DEFINE I == a..(e - 1)
<1>1. IsFiniteSet(I) /\ Cardinality(I) = e - a
    <2>1. IsFiniteSet(I) /\ Cardinality(I) = IF a > e - 1 THEN 0 ELSE e - 1 - a + 1
        BY FS_Interval
    <2> QED BY <2>1
<1>2. IsFiniteSet({t}) /\ Cardinality({t}) = 1
    BY Zenon, FS_Singleton
<1> HIDE DEF I
<1>3. IsFiniteSet({t} \X I) /\ Cardinality({t} \X I) = Cardinality({t}) * Cardinality(I)
    BY Zenon, <1>1, <1>2, FS_Product
<1>4. IsFiniteSet({t} \X I) /\ Cardinality({t} \X I) = e - a
    BY <1>1, <1>2, <1>3
<1> QED BY Zenon, <1>4 DEF I

LEMMA Disjoint ==
  ASSUME NEW S, IsFiniteSet(S), NEW L, IsFiniteSet(L), S \cap L = {}
  PROVE  IsFiniteSet(S \cup L) /\ Cardinality(S \cup L) = Cardinality(S) + Cardinality(L)
<1>1. IsFiniteSet(S \cup L)
      /\ Cardinality(S \cup L) = Cardinality(S) + Cardinality(L) - Cardinality(S \cap L)
    BY Zenon, FS_Union, Zenon
<1>2. Cardinality(S \cap L) = 0
    BY Zenon, FS_EmptySet
<1> QED BY <1>1, <1>2, FS_CardinalityType

(* A call adds what it asks for. *)
LEMMA FitsEnter ==
  ASSUME IInv, WritesFit, NEW t \in Thread, Enter(t)
  PROVE  WritesFit'
<1> SUFFICES ASSUME env.InRange PROVE WritesFit'
    BY Zenon DEF WritesFit, Enter
<1>1. PICK c \in Call : Legal(c) /\ call' = [call EXCEPT ![t] = c]
    BY Zenon DEF Enter
<1>2. /\ UNCHANGED <<env, dev, size>> /\ cur' = t /\ pc[t] = "idle" /\ cur = NULL
      /\ pc'[t] = "acquire" /\ call'[t] = c /\ total'[t] = 0
      /\ \A u \in Thread : u # t => /\ pc'[u] = pc[u] /\ call'[u] = call[u]
                                    /\ total'[u] = total[u] /\ ret'[u] = ret[u]
    BY Zenon, <1>1 DEF Enter, Goto, IInv, Types, TypeOK, size
<1>3. Busy' = Busy \cup {t} /\ t \notin Busy
    BY Zenon, <1>2 DEF Busy
<1>4. pos \in Nat /\ c.n \in Nat /\ size \in Nat /\ UNCHANGED <<pos, tid>>
    BY SMTT(60), <1>2, CallType, SizeType DEF IInv, Types, TypeOK, dev
<1>5. IsFiniteSet(Owed) /\ Outstanding \in Nat
    BY Zenon, FS_CardinalityType DEF WritesFit, Outstanding
<1>6. CASE c.op \in {"read", "write"}
    <2> DEFINE L == {t} \X (0..(c.n - 1))
    <2>1. Owed' = Owed \cup L
        <3>1. Transferring' = Transferring \cup {t} /\ t \notin Transferring
            BY Zenon, <1>2, <1>3, <1>6 DEF Transferring, Busy
        <3>2. Left(t)' = L /\ \A u \in Transferring : Left(u)' = Left(u)
            BY Zenon, <1>2, <3>1 DEF Left, Transferring, Busy
        <3> QED BY ZenonT(60), <3>1, <3>2 DEF Owed
    <2>2. IsFiniteSet(L) /\ Cardinality(L) = c.n
        BY <1>4, Strand
    <2>3. Owed \cap L = {}
        BY SMTT(60), <1>3 DEF Owed, Left, Transferring
    <2> HIDE DEF L
    <2>4. IsFiniteSet(Owed') /\ Outstanding' = Outstanding + c.n
        BY <1>5, <2>1, <2>2, <2>3, Disjoint DEF Outstanding
    <2>5. (\E u \in Busy' : call'[u].op = "write") => pos + Outstanding + c.n <= size
        BY Zenon, <1>1, <1>2, <1>3, <1>6 DEF Legal, Busy
    <2>6. \A u \in Busy' : call'[u].op # "setpos"
        BY Zenon, <1>2, <1>3, <1>6, VioblkAssumption DEF WritesFit, Busy
    <2>7. tid' # NULL => pc'[tid'] \in Held
        BY Zenon, <1>2, <1>4 DEF WritesFit, Held, InBlock, ReadIn, WriteOut, IInv, Types, TypeOK
    <2> QED BY SMTT(60), <1>2, <1>4, <1>5, <2>4, <2>5, <2>6, <2>7 DEF WritesFit
<1>7. CASE c.op \notin {"read", "write"}
    <2>1. Owed' = Owed /\ Outstanding' = Outstanding
        <3>1. Transferring' = Transferring
            BY Zenon, <1>2, <1>3, <1>7 DEF Transferring, Busy
        <3>2. \A u \in Transferring : Left(u)' = Left(u)
            BY Zenon, <1>2, <1>3 DEF Left, Transferring, Busy
        <3> QED BY Zenon, <3>1, <3>2 DEF Owed, Outstanding
    <2>2. c.op = "setpos" => Busy = {}
        BY Zenon, <1>1 DEF Legal
    <2>3. \A u \in Busy' : call'[u].op = "setpos" => cur' = u /\ Busy' = {u}
        BY Zenon, <1>2, <1>3, <2>2, VioblkAssumption DEF WritesFit, Busy
    <2>4. tid' # NULL => pc'[tid'] \in Held
        BY Zenon, <1>2, <1>4 DEF WritesFit, Held, InBlock, ReadIn, WriteOut, IInv, Types, TypeOK
    <2>5. \A u \in Busy' : call'[u].op = "write" => u \in Busy /\ call[u].op = "write"
        BY Zenon, <1>2, <1>3, <1>7 DEF Busy
    <2> QED BY Zenon, <1>2, <1>4, <1>5, <2>1, <2>3, <2>4, <2>5 DEF WritesFit
<1> QED BY Zenon, <1>6, <1>7

(* A turn of the loop moves what it takes from the account. *)
LEMMA FitsAdvance ==
  ASSUME IInv, WritesFit, env.InRange, NEW t \in Thread, Continue(t), UNCHANGED env, Advance(t)
  PROVE  WritesFit'
<1>1. /\ cur = t /\ cur' = cur /\ pc[t] \in {"woken_in", "woken_out"} /\ tid = t /\ tid' = t
      /\ pc'[t] = "loop" /\ UNCHANGED <<call, ret, size>>
      /\ pos' = pos + this_time(t) /\ total'[t] = total[t] + this_time(t)
      /\ \A u \in Thread : u # t => pc'[u] = pc[u] /\ total'[u] = total[u]
    BY Zenon DEF Continue, Advance, Goto, IInv, Types, TypeOK, HolderInside, Held, InBlock, size
<1>2. pos < size /\ total[t] < call[t].n /\ call[t].op \in {"read", "write"}
    BY Zenon, <1>1 DEF IInv, BlockWanted, InBlock
<1>3. Busy' = Busy /\ t \in Busy /\ Transferring' = Transferring /\ t \in Transferring
    BY Zenon, <1>1, <1>2 DEF Busy, Transferring
<1>4. /\ total[t] \in Nat /\ call[t].n \in Nat /\ pos \in Nat /\ size \in Nat
      /\ this_time(t) \in Nat /\ total[t] + this_time(t) <= call[t].n
    BY SMTT(60), <1>2, Turn, CallType, SizeType DEF IInv, Types, TypeOK
<1> DEFINE e == total[t] + this_time(t)
           M == {t} \X (total[t]..(e - 1))
<1>5. Owed' = Owed \ M /\ M \subseteq Owed
    <2>1. Left(t)' = Left(t) \ M /\ M \subseteq Left(t)
        BY SMTT(60), <1>1, <1>4 DEF Left
    <2>2. \A u \in Transferring : u # t => Left(u)' = Left(u) /\ Left(u) \cap M = {}
        BY Zenon, <1>1 DEF Left, Transferring, Busy
    <2> HIDE DEF M
    <2> QED BY Zenon, <1>3, <2>1, <2>2 DEF Owed
<1>6. IsFiniteSet(M) /\ Cardinality(M) = this_time(t)
    <2>1. e \in Nat /\ total[t] <= e /\ e - total[t] = this_time(t)
        BY <1>4
    <2> HIDE DEF e
    <2>2. IsFiniteSet(M) /\ Cardinality(M) = e - total[t]
        BY Zenon, <1>4, <2>1, Strand
    <2> QED BY Zenon, <2>1, <2>2
<1>7. IsFiniteSet(Owed) /\ Outstanding \in Nat
    BY Zenon, FS_CardinalityType DEF WritesFit, Outstanding
<1> HIDE DEF M
<1>8. IsFiniteSet(Owed') /\ Outstanding' = Outstanding - this_time(t)
    <2>1. Owed \cap M = M
        BY Zenon, <1>5
    <2>2. IsFiniteSet(Owed \ M) /\ Cardinality(Owed \ M) = Cardinality(Owed) - Cardinality(Owed \cap M)
        BY Zenon, <1>7, FS_Difference, Zenon
    <2> QED BY Zenon, <1>5, <1>6, <2>1, <2>2 DEF Outstanding
<1>9. pos' + Outstanding' = pos + Outstanding
    BY SMTT(60), <1>1, <1>4, <1>7, <1>8
<1>10. tid' # NULL => pc'[tid'] \in Held
    BY Zenon, <1>1 DEF Held
<1>11. \A u \in Busy' : call'[u].op = "setpos" => cur' = u /\ Busy' = {u}
    BY Zenon, <1>1, <1>3 DEF WritesFit
<1> QED BY Zenon, <1>1, <1>3, <1>8, <1>9, <1>10, <1>11 DEF WritesFit

\* Owing less does not move the end of the range past that of the device.
LEMMA LessOwed ==
  ASSUME NEW p \in Nat, NEW a \in Nat, NEW b \in Nat, NEW n \in Nat, a <= b, p + b <= n
  PROVE  p + a <= n
OBVIOUS

(* A call that returns gives up what it did not move. *)
LEMMA FitsRelease ==
  ASSUME IInv, WritesFit, env.InRange, NEW t \in Thread, lock_release(t), UNCHANGED env
  PROVE  WritesFit'
<1>1. /\ pc[t] = "release" /\ pc'[t] = "idle" /\ tid' = NULL
      /\ UNCHANGED <<pos, call, total, ret, size>> /\ cur = t
      /\ \A u \in Thread : u # t => (pc'[u] = "idle" <=> pc[u] = "idle") /\ pc'[u] # "release"
    BY Zenon DEF lock_release, At, IInv, Types, TypeOK, OneRuns, Parked, Sleeping, locals, size
<1>2. Busy' = Busy \ {t} /\ Owed' \subseteq Owed
    <2>1. Busy' = Busy \ {t}
        BY Zenon, <1>1 DEF Busy
    <2>2. Transferring' \subseteq Transferring /\ \A u \in Thread : Left(u)' = Left(u)
        BY Zenon, <1>1, <2>1 DEF Transferring, Left
    <2> QED BY Zenon, <2>1, <2>2 DEF Owed, Transferring, Busy
<1>3. IsFiniteSet(Owed') /\ Outstanding' \in Nat /\ Outstanding \in Nat /\ Outstanding' <= Outstanding
    BY Zenon, <1>2, FS_Subset, FS_CardinalityType DEF WritesFit, Outstanding
<1>4. pos \in Nat /\ size \in Nat
    BY SMTT(60), SizeType DEF IInv, Types, TypeOK
<1>5. \A u \in Busy' : call'[u].op = "setpos" => cur' = u /\ Busy' = {u}
    BY Zenon, <1>1, <1>2 DEF WritesFit
<1>6. \A u \in Busy' : call'[u].op = "write" => pos' + Outstanding' <= size'
    <2> SUFFICES ASSUME NEW u \in Busy', call'[u].op = "write" PROVE pos' + Outstanding' <= size'
        BY Zenon
    <2>1. pos + Outstanding <= size
        BY Zenon, <1>1, <1>2 DEF WritesFit
    <2>2. pos' = pos /\ size' = size
        BY Zenon, <1>1
    <2> QED BY ONLY Zenon, <1>3, <1>4, <2>1, <2>2, LessOwed
<1> QED BY Zenon, <1>1, <1>3, <1>5, <1>6 DEF WritesFit

LEMMA FitsStep ==
  ASSUME IInv, WritesFit, NEW t \in Thread, Step(t)
  PROVE  WritesFit'
<1> SUFFICES ASSUME env.InRange PROVE WritesFit'
    BY Zenon DEF WritesFit, Step
<1> USE DEF Held, InBlock, ReadIn, WriteOut
<1>1. /\ env' = env /\ tid \in Thread \cup {NULL}
      /\ pc = [u \in Thread |-> pc[u]]
      /\ tid # NULL => pc[tid] \in Held
      /\ \A u \in Thread : pc[u] \in Held => tid = u
      /\ \A u \in Busy : call[u].op = "setpos" => cur = u /\ Busy = {u}
    BY Zenon DEF Step, IInv, Types, TypeOK, HolderInside, WritesFit
<1>2. CASE lock_acquire(t)
    <2>1. /\ UNCHANGED <<pos, call, total, ret>> /\ pc[t] = "acquire"
          /\ pc'[t] \in {"start", "lockwait"} /\ \A u \in Thread : u # t => pc'[u] = pc[u]
        BY Zenon, <1>1, <1>2 DEF lock_acquire, At, Goto, locals
    <2>2. Busy' = Busy /\ t \in Busy
        BY Zenon, <2>1 DEF Busy
    <2>3. tid' # NULL => pc'[tid'] \in Held
        BY Zenon, <1>1, <1>2, <2>1 DEF lock_acquire, Goto
    <2>4. \A u \in Busy : call[u].op = "setpos" => cur' = u
        <3> SUFFICES ASSUME NEW u \in Busy, call[u].op = "setpos" PROVE cur' = u
            BY Zenon
        <3>1. u = t /\ cur = t /\ Busy = {t}
            BY <1>1, <2>2
        <3>2. tid = NULL
            BY Zenon, <1>1, <2>1, <3>1 DEF Busy
        <3> QED BY Zenon, <1>2, <3>1, <3>2 DEF lock_acquire
    <2> QED BY Zenon, <1>1, <2>1, <2>2, <2>3, <2>4, FitsQuiet
<1>3. CASE vioblk_open(t) \/ vioblk_close(t)
    <2>1. /\ UNCHANGED <<pos, call, total, tid, cur>> /\ pc[t] = "start" /\ pc'[t] = "release"
          /\ \A u \in Thread : u # t => pc'[u] = pc[u] /\ ret'[u] = ret[u]
          /\ call[t].op \in {"open", "close"}
        BY Zenon, <1>1, <1>3 DEF vioblk_open, vioblk_close, At, Goto, Return, IInv, Types
    <2>2. Busy' = Busy
        BY Zenon, <2>1 DEF Busy
    <2> QED BY Zenon, <1>1, <2>1, <2>2, FitsQuiet
<1>4. CASE vioblk_setpos(t)
    <2>1. /\ UNCHANGED <<call, total, tid, cur>> /\ pc[t] = "start" /\ pc'[t] = "release"
          /\ \A u \in Thread : u # t => pc'[u] = pc[u] /\ ret'[u] = ret[u]
          /\ call[t].op = "setpos"
        BY Zenon, <1>1, <1>4 DEF vioblk_setpos, At, Goto, Return, IInv, Types
    <2>2. Busy' = Busy /\ Busy = {t}
        BY Zenon, <1>1, <2>1 DEF Busy
    <2>3. Owed' = Owed
        BY Zenon, <2>1, <2>2, Accounts DEF IInv
    <2> QED BY Zenon, <1>1, <2>1, <2>2, <2>3 DEF WritesFit
<1>5. CASE Transfer(t) \/ Request(t) \/ Put(t)
    <2>1. /\ UNCHANGED <<pos, call, total, tid, cur, ret>> /\ pc[t] \in Held
          /\ pc'[t] \in Held \ {"release"} /\ \A u \in Thread : u # t => pc'[u] = pc[u]
        BY Zenon, <1>1, <1>5 DEF Transfer, Request, Put, At, Goto, dev, locals
    <2>2. Busy' = Busy
        BY Zenon, <2>1 DEF Busy
    <2> QED BY Zenon, <1>1, <2>1, <2>2, FitsQuiet
<1>6. CASE EndLoop(t)
    <2>1. /\ UNCHANGED <<pos, call, total, tid>> /\ pc[t] = "loop" /\ cur = t
          /\ \A u \in Thread : u # t => pc'[u] = pc[u] /\ ret'[u] = ret[u]
        BY Zenon, <1>1, <1>6 DEF EndLoop, At, Goto, Return, dev, IInv, Types
    <2>2. t \in Busy
        BY Zenon, <2>1 DEF Busy
    <2>3. ~(total[t] < call[t].n /\ call[t].op = "write" /\ pos >= size)
        <3> SUFFICES ASSUME total[t] < call[t].n, call[t].op = "write" PROVE ~(pos >= size)
            BY Zenon
        <3>1. pos + Outstanding <= size /\ IsFiniteSet(Owed)
            BY Zenon, <2>2 DEF WritesFit
        <3>2. total[t] \in Nat /\ call[t].n \in Nat /\ pos \in Nat /\ size \in Nat
            BY CallType, SizeType DEF IInv, Types, TypeOK
        <3>3. <<t, total[t]>> \in Owed
            BY <2>2, <3>2 DEF Owed, Left, Transferring
        <3>4. Outstanding \in Nat /\ Outstanding # 0
            BY Zenon, <3>1, <3>3, FS_CardinalityType, FS_EmptySet DEF Outstanding
        <3> QED BY <3>1, <3>2, <3>4
    <2>4. pc'[t] = "release" /\ cur' = cur
        BY Zenon, <1>1, <1>6, <2>3 DEF EndLoop, Return, Goto, IInv, Types
    <2>5. Busy' = Busy
        BY Zenon, <2>1, <2>4 DEF Busy
    <2> QED BY Zenon, <1>1, <2>1, <2>4, <2>5, FitsQuiet
<1>7. CASE Wait(t)
    <2>1. /\ UNCHANGED <<pos, call, total, tid, ret>> /\ pc[t] \in {"notified_in", "notified_out"}
          /\ pc'[t] \in {"sleep_in", "sleep_out"} /\ \A u \in Thread : u # t => pc'[u] = pc[u]
        BY Zenon, <1>1, <1>7 DEF Wait, Asleep, Goto, dev
    <2>2. Busy' = Busy /\ t \in Busy
        BY Zenon, <2>1 DEF Busy
    <2>3. \A u \in Busy : call[u].op # "setpos"
        BY <1>1, <2>1, <2>2 DEF IInv, BlockWanted
    <2> QED BY Zenon, <1>1, <2>1, <2>2, <2>3, FitsQuiet
<1>8. CASE Continue(t)
    <2>1. CASE Advance(t)
        BY Zenon, <1>1, <1>8, <2>1, FitsAdvance
    <2>2. CASE pc[t] = "woken_in" /\ Goto(t, "put") /\ UNCHANGED <<pos, total>>
        <3>1. /\ UNCHANGED <<pos, call, total, tid, ret, cur>> /\ pc'[t] = "put"
              /\ \A u \in Thread : u # t => pc'[u] = pc[u]
            BY Zenon, <1>1, <1>8, <2>2 DEF Continue, Goto
        <3>2. Busy' = Busy
            BY Zenon, <2>2, <3>1 DEF Busy
        <3> QED BY Zenon, <1>1, <2>2, <3>1, <3>2, FitsQuiet
    <2> QED BY Zenon, <1>8, <2>1, <2>2 DEF Continue
<1>9. CASE lock_release(t)
    BY Zenon, <1>1, <1>9, FitsRelease
<1> QED BY Zenon, <1>2, <1>3, <1>4, <1>5, <1>6, <1>7, <1>8, <1>9 DEF Step

LEMMA FitsNext == IInv /\ WritesFit /\ [Next]_vars => WritesFit'
<1> SUFFICES ASSUME IInv, WritesFit, [Next]_vars PROVE WritesFit'
    BY Zenon
<1>1. ASSUME NEW t \in Thread, Resume(t) PROVE WritesFit'
    <2>1. UNCHANGED <<env, pos, call, total, tid, pc, ret>> /\ cur = NULL
        BY Zenon, <1>1 DEF Resume, dev, locals
    <2>2. Busy' = Busy
        BY Zenon, <2>1 DEF Busy
    <2> QED BY Zenon, <2>1, <2>2, FitsQuiet, VioblkAssumption DEF WritesFit, Busy
<1>2. CASE Serve
    <2>1. UNCHANGED <<env, pos, call, total, tid, pc, ret, cur>>
        BY Zenon, <1>2 DEF Serve, locals
    <2>2. Busy' = Busy
        BY Zenon, <2>1 DEF Busy
    <2> QED BY Zenon, <2>1, <2>2, FitsQuiet DEF WritesFit
<1>3. CASE vioblk_isr
    <2>1. UNCHANGED <<env, pos, call, total, tid, ret, cur>>
        BY Zenon, <1>3 DEF vioblk_isr, locals, dev
    <2>2. \A u \in Thread : \/ pc'[u] = pc[u]
                            \/ pc[u] = "sleep_in" /\ pc'[u] = "woken_in"
                            \/ pc[u] = "sleep_out" /\ pc'[u] = "woken_out"
        BY Zenon, <1>3 DEF vioblk_isr, Awake, Sleeping
    <2>3. Busy' = Busy
        BY Zenon, <2>2 DEF Busy
    <2>4. tid \in Thread \cup {NULL}
        BY Zenon DEF IInv, Types, TypeOK
    <2>5. env.InRange /\ tid' # NULL => pc'[tid'] \in Held
        BY Zenon, <2>1, <2>2, <2>4 DEF WritesFit, Held, InBlock, ReadIn, WriteOut
    <2> QED BY Zenon, <2>1, <2>3, <2>5, FitsQuiet DEF WritesFit
<1>4. CASE UNCHANGED vars
    <2>1. UNCHANGED <<env, pos, call, total, tid, pc, ret, cur>>
        BY Zenon, <1>4 DEF vars, locals, dev
    <2>2. Busy' = Busy
        BY Zenon, <2>1 DEF Busy
    <2> QED BY Zenon, <2>1, <2>2, FitsQuiet DEF WritesFit
<1> QED BY Zenon, <1>1, <1>2, <1>3, <1>4, FitsEnter, FitsStep DEF Next

(* Whatever the number of threads, the callers and the interrupts do: a    *)
(* request at the device, or an interrupt on its way, is that of the       *)
(* thread that holds io_lock and has not gone on (vioblk.c:404-418); and   *)
(* for callers that ask for no write past the end no call leaves through   *)
(* the return that keeps the lock (vioblk.c:462).                          *)
THEOREM SingleRequest == Spec => []OneRequest
<1>1. IInv /\ WritesFit => OneRequest
    BY Zenon DEF IInv, Types, RequestMatches, OneRequest, WritesFit, Held, InBlock, ReadIn,
         WriteOut, Sleeping
<1> QED BY <1>1, FitsInit, FitsNext, Invariant, PTL DEF Spec

-----------------------------------------------------------------------------
(* What a transfer has moved. *)

Writing == InBlock \cup {"loop", "release"}
Filled(t, from, to) == \A a \in from..to : disk[a] = call[t].byte

(* A call begins with nothing moved, and ends with what it has moved. *)
Counted ==
  \A t \in Thread :
    /\ pc[t] \in {"acquire", "lockwait", "start"} => total[t] = 0
    /\ pc[t] = "release" /\ call[t].op \in {"read", "write"} =>
         /\ ret[t] = total[t]
         /\ total[t] = call[t].n \/ (call[t].op = "read" /\ pos = size)

(* What a write has counted is on the disk, and once the device has served *)
(* it, so is what it is about to count.                                    *)
Landed ==
  ~env.MayFail => \A t \in Thread :
    /\ call[t].op = "write" /\ pc[t] \in Writing =>
         total[t] <= pos /\ Filled(t, pos - total[t], pos - 1)
    /\ pc[t] = "woken_out" \/ (pc[t] \in WriteOut /\ req.type = "none") =>
         Filled(t, pos, pos + this_time(t) - 1)

LEMMA MovedInit == Init => Counted /\ Landed
BY Zenon DEF Init, Counted, Landed, Writing, InBlock, ReadIn, WriteOut

(* A step of t that leaves the other transfers as they are. *)
LEMMA CountedBut ==
  ASSUME Counted, NEW t \in Thread,
         \A u \in Thread : u # t =>
           /\ pc'[u] = pc[u] \/ (pc[u] = "lockwait" /\ pc'[u] = "acquire")
           /\ call'[u] = call[u] /\ total'[u] = total[u] /\ ret'[u] = ret[u],
         pos' = pos \/ \A u \in Thread : u # t => pc[u] # "release",
         pc'[t] \in {"acquire", "lockwait", "start"} => total'[t] = 0,
         pc'[t] = "release" /\ call'[t].op \in {"read", "write"} =>
           /\ ret'[t] = total'[t]
           /\ total'[t] = call'[t].n \/ (call'[t].op = "read" /\ pos' = size)
  PROVE  Counted'
<1>1. size' = size
    BY Zenon DEF size
<1>2. ASSUME NEW u \in Thread, u # t, pc'[u] = "release", call'[u].op \in {"read", "write"}
      PROVE  ret'[u] = total'[u] /\ (total'[u] = call'[u].n \/ (call'[u].op = "read" /\ pos' = size'))
    <2>1. pc[u] = "release" /\ pos' = pos
        BY Zenon, <1>2
    <2> QED BY Zenon, <1>1, <1>2, <2>1 DEF Counted
<1>3. \A u \in Thread : u # t /\ pc'[u] \in {"acquire", "lockwait", "start"} => total'[u] = 0
    BY Zenon DEF Counted
<1> QED BY Zenon, <1>1, <1>2, <1>3 DEF Counted

LEMMA CountedStep ==
  ASSUME IInv, Counted, NEW t \in Thread, Step(t)
  PROVE  Counted'
<1>1. /\ \A u \in Thread : pc[u] \in Held => tid = u
      /\ pc = [u \in Thread |-> pc[u]] /\ total = [u \in Thread |-> total[u]]
      /\ ret = [u \in Thread |-> ret[u]]
      /\ pc[t] \in {"acquire", "lockwait", "start"} => total[t] = 0
    BY Zenon DEF IInv, Types, TypeOK, HolderInside, Counted
<1>2. pos \in Nat /\ size \in Nat /\ pos <= size
    BY SizeType DEF IInv, Types, TypeOK
<1> USE DEF Held, InBlock, ReadIn, WriteOut
<1>3. CASE lock_acquire(t)
    <2>1. /\ UNCHANGED <<pos, call, total, ret>> /\ pc[t] = "acquire"
          /\ pc'[t] \in {"start", "lockwait"} /\ \A u \in Thread : u # t => pc'[u] = pc[u]
        BY Zenon, <1>1, <1>3 DEF lock_acquire, At, Goto, locals
    <2> QED BY Zenon, <1>1, <2>1, CountedBut
<1>4. CASE vioblk_open(t) \/ vioblk_close(t) \/ vioblk_setpos(t)
    <2>1. /\ UNCHANGED <<call, total>> /\ pc[t] = "start" /\ pc'[t] = "release"
          /\ \A u \in Thread : u # t => pc'[u] = pc[u] /\ ret'[u] = ret[u]
          /\ call[t].op \in {"open", "close", "setpos"}
        BY Zenon, <1>1, <1>4 DEF vioblk_open, vioblk_close, vioblk_setpos, At, Goto, Return
    <2>2. \A u \in Thread : u # t => pc[u] # "release"
        BY Zenon, <1>1, <2>1
    <2> QED BY Zenon, <2>1, <2>2, CountedBut
<1>5. CASE Transfer(t) \/ Request(t) \/ Put(t) \/ Wait(t)
    <2>1. /\ UNCHANGED <<pos, call, total, ret>>
          /\ pc'[t] \in {"loop"} \cup InBlock /\ \A u \in Thread : u # t => pc'[u] = pc[u]
        BY Zenon, <1>1, <1>5 DEF Transfer, Request, Put, Wait, Asleep, At, Goto, dev, locals
    <2> QED BY Zenon, <2>1, CountedBut
<1>6. CASE EndLoop(t)
    <2>1. /\ UNCHANGED <<pos, call, total>>
          /\ \A u \in Thread : u # t => pc'[u] = pc[u] /\ ret'[u] = ret[u]
          /\ pc'[t] \in {"idle", "release"}
        BY Zenon, <1>1, <1>6 DEF EndLoop, At, Goto, Return, dev
    <2>2. pc'[t] = "release" =>
            /\ ret'[t] = total[t]
            /\ total[t] = call[t].n \/ (call[t].op = "read" /\ pos >= size)
        BY ZenonT(60), <1>1, <1>6 DEF EndLoop, Goto, Return
    <2>3. pos >= size => pos = size
        BY <1>2
    <2> QED BY Zenon, <2>1, <2>2, <2>3, CountedBut
<1>7. CASE Continue(t)
    <2>1. /\ UNCHANGED <<call, ret>> /\ pc[t] \in {"woken_in", "woken_out"}
          /\ pc'[t] \in {"loop", "put"}
          /\ \A u \in Thread : u # t => pc'[u] = pc[u] /\ total'[u] = total[u]
        BY Zenon, <1>1, <1>7 DEF Continue, Advance, Goto
    <2>2. \A u \in Thread : u # t => pc[u] # "release"
        BY Zenon, <1>1, <2>1
    <2> QED BY Zenon, <2>1, <2>2, CountedBut
<1>8. CASE lock_release(t)
    <2>1. /\ UNCHANGED <<pos, call, total, ret>> /\ pc'[t] = "idle"
          /\ \A u \in Thread : u # t => pc'[u] = pc[u] \/ (pc[u] = "lockwait" /\ pc'[u] = "acquire")
        BY Zenon, <1>1, <1>8 DEF lock_release, locals
    <2> QED BY Zenon, <2>1, CountedBut
<1> QED BY Zenon, <1>3, <1>4, <1>5, <1>6, <1>7, <1>8 DEF Step

LEMMA CountedNext ==
  ASSUME IInv, Counted, [Next]_vars
  PROVE  Counted'
<1>1. ASSUME NEW t \in Thread, Enter(t) PROVE Counted'
    <2>1. /\ pos' = pos /\ pc'[t] = "acquire" /\ total'[t] = 0
          /\ \A u \in Thread : u # t => /\ pc'[u] = pc[u] /\ call'[u] = call[u]
                                        /\ total'[u] = total[u] /\ ret'[u] = ret[u]
        BY Zenon, <1>1 DEF Enter, Goto, dev, IInv, Types, TypeOK
    <2> QED BY Zenon, <2>1, CountedBut
<1>2. ASSUME UNCHANGED <<pos, call, total, ret>>,
             \A u \in Thread : pc'[u] = pc[u] \/ pc'[u] \in {"woken_in", "woken_out"}
      PROVE  Counted'
    <2>1. size' = size
        BY Zenon DEF size
    <2> QED BY Zenon, <1>2, <2>1 DEF Counted
<1>3. CASE vioblk_isr
    BY Zenon, <1>2, <1>3 DEF vioblk_isr, Awake, Sleeping, dev, locals
<1>4. CASE Serve
    BY Zenon, <1>2, <1>4 DEF Serve, locals
<1>5. ASSUME NEW t \in Thread, Resume(t) PROVE Counted'
    BY Zenon, <1>2, <1>5 DEF Resume, dev, locals
<1>6. CASE UNCHANGED vars
    BY Zenon, <1>2, <1>6 DEF vars, dev, locals
<1> QED BY Zenon, <1>1, <1>3, <1>4, <1>5, <1>6, CountedStep DEF Next

(* A step that leaves the disk and the position alone and begins no        *)
(* transfer.                                                               *)
LEMMA LandedQuiet ==
  ASSUME Landed, UNCHANGED <<env, disk, pos>>,
         \A u \in Thread : pc'[u] \in Writing =>
           /\ pc[u] \in Writing /\ call'[u] = call[u] /\ total'[u] = total[u]
           /\ pc'[u] = "woken_out" \/ (pc'[u] \in WriteOut /\ req'.type = "none") =>
                pc[u] = "woken_out" \/ (pc[u] \in WriteOut /\ req.type = "none")
  PROVE  Landed'
<1> SUFFICES ASSUME ~env.MayFail, NEW u \in Thread, pc'[u] \in Writing
             PROVE  /\ call'[u].op = "write" =>
                         total'[u] <= pos' /\ Filled(u, pos - total[u], pos - 1)'
                    /\ pc'[u] = "woken_out" \/ (pc'[u] \in WriteOut /\ req'.type = "none") =>
                         Filled(u, pos, pos + this_time(u) - 1)'
    BY Zenon DEF Landed, Writing, InBlock
<1>1. UNCHANGED <<this_time(u), sector_offset>>
    BY Zenon DEF this_time, sector_offset
<1> QED BY ZenonT(60), <1>1 DEF Landed, Filled

(* The bytes of the chunk lie from the position on, and in its block. *)
LEMMA ChunkAddresses ==
  ASSUME Types, NEW t \in Thread, pos < size, total[t] < call[t].n,
         NEW a \in pos..(pos + this_time(t) - 1)
  PROVE  a \in Addr /\ a \div BLKSZ = sector_index /\ a % BLKSZ \in Chunk(t)
<1>1. pos \in Nat /\ total[t] \in Nat /\ call[t].n \in Nat
    BY SizeType, CallType DEF Types, TypeOK
<1>2. /\ this_time(t) \in Nat /\ pos + this_time(t) <= size
      /\ sector_index \in 0..(BLKCNT - 1) /\ sector_offset \in 0..(BLKSZ - 1)
    BY Zenon, Turn DEF Offset
<1>3. pos = sector_index * BLKSZ + sector_offset
    BY Zenon, <1>1, Quotient, VioblkAssumption DEF sector_index, sector_offset
<1>4. this_time(t) <= BLKSZ - sector_offset
    BY <1>1, <1>2, VioblkAssumption DEF this_time, MinOf
<1> DEFINE o == a - sector_index * BLKSZ
<1>5. sector_index * BLKSZ \in Nat
    BY <1>2, VioblkAssumption
<1>6. o \in 0..(BLKSZ - 1) /\ a = sector_index * BLKSZ + o
      /\ o \in sector_offset..(sector_offset + this_time(t) - 1) /\ a \in 0..(size - 1)
    <2> HIDE DEF this_time, sector_index, sector_offset
    <2> QED BY <1>1, <1>2, <1>3, <1>4, <1>5, SizeType, VioblkAssumption
<1> HIDE DEF o
<1>7. a \div BLKSZ = sector_index /\ a % BLKSZ = o
    <2>1. sector_index \in Nat
        BY <1>2, VioblkAssumption
    <2> HIDE DEF sector_index
    <2> QED BY Zenon, <1>6, <2>1, QuotientUnique, VioblkAssumption
<1> QED BY Zenon, <1>6, <1>7 DEF Addr, Chunk

LEMMA LandedServe ==
  ASSUME IInv, Landed, Serve
  PROVE  Landed'
<1> SUFFICES ASSUME ~env.MayFail PROVE Landed'
    BY Zenon DEF Landed, Serve
<1>1. UNCHANGED <<env, pos, pc, call, total, tid>> /\ req.type # "none"
    BY Zenon DEF Serve, locals
<1>2. PICK h \in Thread :
      /\ h = tid /\ req.sector = sector_index
      /\ pc[h] \in IF req.type = "in" THEN ReadIn ELSE WriteOut
      /\ pos < size /\ total[h] < call[h].n
      /\ \A u \in Thread : u # h => pc[u] \notin Held
    BY Zenon, <1>1, Asks
<1>3. UNCHANGED this_time(h)
    BY Zenon, <1>1 DEF this_time, sector_offset
<1>4. pos \in Nat /\ total[h] \in Nat /\ pos < size
    BY SizeType, <1>2 DEF IInv, Types, TypeOK
<1>5. call[h].op = "write" =>
        total[h] <= pos /\ Filled(h, pos - total[h], pos - 1)
    BY Zenon, <1>2 DEF Landed, Writing, InBlock
<1>6. ASSUME call[h].op = "write" PROVE Filled(h, pos - total[h], pos - 1)'
    <2> SUFFICES ASSUME NEW a \in (pos - total[h])..(pos - 1) PROVE disk'[a] = call[h].byte
        BY Zenon, <1>1 DEF Filled, Serve
    <2>1. a \in Addr
        BY <1>2, <1>4, <1>5, <1>6, SizeType DEF Addr, IInv, Types, TypeOK
    <2>2. disk[a] = call[h].byte
        BY Zenon, <1>5, <1>6 DEF Filled
    <2> QED BY Zenon, <2>1, <2>2, <1>2, ServeWrites
<1>7. ASSUME req.type = "out" PROVE Filled(h, pos, pos + this_time(h) - 1)'
    <2> SUFFICES ASSUME NEW a \in pos..(pos + this_time(h) - 1) PROVE disk'[a] = call[h].byte
        BY Zenon, <1>1, <1>3 DEF Filled, Serve
    <2>1. a \in Addr /\ a \div BLKSZ = sector_index /\ a % BLKSZ \in Chunk(h)
        BY Zenon, <1>2, ChunkAddresses DEF IInv
    <2>2. disk'[a] = blkbuf[a % BLKSZ]
        BY Zenon, <1>2, <1>7, <2>1 DEF Serve
    <2>3. a % BLKSZ \in Offset
        BY <2>1, SizeType, Quotient, VioblkAssumption DEF Addr, Offset
    <2> QED BY Zenon, <1>2, <1>7, <2>1, <2>2, <2>3 DEF IInv, BufferRight
<1>8. pc[h] \in WriteOut => req.type = "out"
    BY Zenon, <1>1, <1>2 DEF ReadIn, WriteOut, IInv, Types, TypeOK
<1>9. pc[h] # "woken_out" /\ \A u \in Thread : u # h => pc[u] \notin Writing
    BY Zenon, <1>2 DEF ReadIn, WriteOut, Writing, Held
<1> QED BY Zenon, <1>1, <1>5, <1>6, <1>7, <1>8, <1>9 DEF Landed, Writing, InBlock

(* The turn of a write that the disk has taken adds to what is there. *)
LEMMA LandedAdvance ==
  ASSUME IInv, Landed, NEW t \in Thread, Continue(t), Advance(t), UNCHANGED env
  PROVE  Landed'
<1> SUFFICES ASSUME ~env.MayFail PROVE Landed'
    BY Zenon DEF Landed
<1>1. /\ UNCHANGED <<disk, call>> /\ pc[t] \in {"woken_in", "woken_out"} /\ pc'[t] = "loop"
      /\ pos' = pos + this_time(t) /\ total'[t] = total[t] + this_time(t)
      /\ \A u \in Thread : u # t => pc'[u] = pc[u]
      /\ call[t].op = "write" => pc[t] = "woken_out"
    <2>1. pc = [u \in Thread |-> pc[u]] /\ total = [u \in Thread |-> total[u]]
        BY Zenon DEF IInv, Types, TypeOK
    <2>2. pc[t] = "woken_out" \/ call[t].op = "read"
        BY Zenon, <2>1 DEF Continue, Advance, Goto
    <2> QED BY Zenon, <2>1, <2>2 DEF Continue, Advance, Goto, device
<1>2. \A u \in Thread : u # t => pc'[u] \notin Writing
    BY Zenon, <1>1 DEF IInv, HolderInside, Held, Writing, InBlock
<1>3. ASSUME call[t].op = "write"
      PROVE  total'[t] <= pos' /\ Filled(t, pos - total[t], pos - 1)'
    <2>1. /\ total[t] <= pos /\ Filled(t, pos - total[t], pos - 1)
          /\ Filled(t, pos, pos + this_time(t) - 1)
        BY Zenon, <1>1, <1>3 DEF Landed, Writing, InBlock
    <2>2. pos < size /\ total[t] < call[t].n
        BY Zenon, <1>1 DEF IInv, BlockWanted, InBlock
    <2>3. pos \in Nat /\ total[t] \in Nat /\ this_time(t) \in Nat
        BY <2>2, Turn, SizeType DEF IInv, Types, TypeOK
    <2>4. /\ pos' - total'[t] = pos - total[t] /\ total'[t] <= pos'
          /\ pos' - 1 = pos + this_time(t) - 1
        BY <1>1, <2>1, <2>3
    <2>5. ASSUME NEW a \in (pos - total[t])..(pos + this_time(t) - 1)
          PROVE  a \in (pos - total[t])..(pos - 1) \/ a \in pos..(pos + this_time(t) - 1)
        BY <2>3, <2>5
    <2>6. Filled(t, pos - total[t], pos + this_time(t) - 1)
        BY Zenon, <2>1, <2>5 DEF Filled
    <2> QED BY Zenon, <1>1, <2>4, <2>6 DEF Filled
<1> QED BY Zenon, <1>1, <1>2, <1>3 DEF Landed, Writing, InBlock, WriteOut

LEMMA LandedStep ==
  ASSUME IInv, Counted, Landed, NEW t \in Thread, Step(t)
  PROVE  Landed'
<1>1. /\ \A u \in Thread : pc[u] \in Held => tid = u
      /\ pc = [u \in Thread |-> pc[u]] /\ env' = env
    BY Zenon DEF IInv, Types, TypeOK, HolderInside, Step
<1> USE DEF Held, InBlock, ReadIn, WriteOut, Writing
<1>2. CASE lock_acquire(t) \/ vioblk_open(t) \/ vioblk_close(t)
    <2>1. /\ UNCHANGED <<disk, pos, call, total, req>>
          /\ pc'[t] \in {"start", "lockwait", "release"} /\ \A u \in Thread : u # t => pc'[u] = pc[u]
          /\ pc'[t] = "release" => call[t].op # "write" /\ pc[t] = "start"
        BY Zenon, <1>1, <1>2 DEF lock_acquire, vioblk_open, vioblk_close, At, Goto, Return, device, locals
    <2>2. pc'[t] = "release" => call'[t].op # "write" /\ \A u \in Thread : u # t => pc'[u] \notin Writing
        BY Zenon, <1>1, <2>1
    <2>3. pc'[t] # "release" => pc'[t] \notin Writing
        BY Zenon, <2>1
    <2>4. CASE pc'[t] = "release"
        BY Zenon, <2>2, <2>4 DEF Landed
    <2> QED BY Zenon, <1>1, <2>1, <2>3, <2>4, LandedQuiet
<1>3. CASE vioblk_setpos(t)
    <2>1. /\ call' = call /\ call[t].op = "setpos" /\ pc[t] = "start" /\ pc'[t] = "release"
          /\ \A u \in Thread : u # t => pc'[u] = pc[u]
        BY Zenon, <1>1, <1>3 DEF vioblk_setpos, At, Goto, Return
    <2>2. \A u \in Thread : u # t => pc'[u] \notin Writing
        BY Zenon, <1>1, <2>1
    <2> QED BY Zenon, <2>1, <2>2 DEF Landed
<1>4. CASE Transfer(t)
    <2>1. /\ UNCHANGED <<disk, pos, call, total, req>> /\ pc[t] = "start" /\ pc'[t] = "loop"
          /\ \A u \in Thread : u # t => pc'[u] = pc[u]
        BY Zenon, <1>1, <1>4 DEF Transfer, At, Goto, dev, device, locals
    <2>2. \A u \in Thread : u # t => pc'[u] \notin Writing
        BY Zenon, <1>1, <2>1
    <2>3. total[t] = 0 /\ pos \in Nat
        BY SizeType, <2>1 DEF Counted, IInv, Types, TypeOK
    <2>4. total[t] <= pos /\ (pos - total[t])..(pos - 1) = {}
        BY <2>3
    <2> QED BY Zenon, <2>1, <2>2, <2>4 DEF Landed, Filled
<1>5. CASE Request(t) \/ Put(t) \/ EndLoop(t) \/ Wait(t) \/ lock_release(t)
         \/ (Continue(t) /\ ~Advance(t))
    <2>1. /\ UNCHANGED <<disk, pos, call, total>> /\ pc[t] \in Writing
          /\ \A u \in Thread : u # t => pc'[u] = pc[u] \/ pc'[u] = "acquire"
        BY Zenon, <1>1, <1>5 DEF Request, Put, EndLoop, Wait, Continue, lock_release, At, Goto,
             Return, dev, device, locals
    <2>2. pc'[t] = "woken_out" \/ (pc'[t] \in WriteOut /\ req'.type = "none") =>
            pc[t] = "woken_out" \/ (pc[t] \in WriteOut /\ req.type = "none")
        <3>1. CASE Put(t)
            <4>1. pc'[t] = "notified_out" /\ req' = [type |-> "out", sector |-> sector_index]
                BY Zenon, <1>1, <3>1 DEF Put, Goto
            <4>2. req'.type = "out"
                BY Zenon, <4>1
            <4> QED BY Zenon, <4>1, <4>2
        <3>2. CASE Wait(t)
            BY Zenon, <1>1, <3>2 DEF Wait, Asleep, Goto, device
        <3>3. CASE Request(t)
            BY Zenon, <1>1, <3>3 DEF Request, Goto
        <3>4. CASE EndLoop(t) \/ lock_release(t) \/ (Continue(t) /\ ~Advance(t))
            BY Zenon, <1>1, <3>4 DEF EndLoop, Continue, lock_release, Goto, Return
        <3> QED BY Zenon, <1>5, <3>1, <3>2, <3>3, <3>4
    <2>3. \A u \in Thread : u # t => pc'[u] \notin Writing
        BY Zenon, <1>1, <2>1
    <2> QED BY Zenon, <1>1, <2>1, <2>2, <2>3, LandedQuiet
<1>6. CASE Continue(t) /\ Advance(t)
    BY Zenon, <1>1, <1>6, LandedAdvance
<1> QED BY Zenon, <1>2, <1>3, <1>4, <1>5, <1>6 DEF Step

LEMMA LandedNext ==
  ASSUME IInv, Counted, Landed, [Next]_vars
  PROVE  Landed'
<1>1. ASSUME NEW t \in Thread, Enter(t) PROVE Landed'
    <2>1. /\ UNCHANGED <<env, disk, pos, req>> /\ pc'[t] = "acquire"
          /\ \A u \in Thread : u # t => pc'[u] = pc[u] /\ call'[u] = call[u] /\ total'[u] = total[u]
        BY Zenon, <1>1 DEF Enter, Goto, dev, device, IInv, Types, TypeOK
    <2> QED BY Zenon, <2>1, LandedQuiet DEF Writing, InBlock, ReadIn, WriteOut
<1>2. CASE vioblk_isr
    <2>1. UNCHANGED <<env, disk, pos, req, call, total>> /\ req.type = "none"
        BY Zenon, <1>2 DEF vioblk_isr, dev, locals, IInv, RequestMatches
    <2>2. \A u \in Thread : \/ pc'[u] = pc[u]
                            \/ pc[u] = "sleep_in" /\ pc'[u] = "woken_in"
                            \/ pc[u] = "sleep_out" /\ pc'[u] = "woken_out"
        BY Zenon, <1>2 DEF vioblk_isr, Awake, Sleeping
    <2> QED BY Zenon, <2>1, <2>2, LandedQuiet DEF Writing, InBlock, ReadIn, WriteOut
<1>3. CASE UNCHANGED vars \/ \E t \in Thread : Resume(t)
    <2>1. UNCHANGED <<env, disk, pos, req, call, total, pc>>
        BY Zenon, <1>3 DEF vars, Resume, dev, device, locals
    <2> QED BY Zenon, <2>1, LandedQuiet
<1> QED BY Zenon, <1>1, <1>2, <1>3, LandedServe, LandedStep DEF Next

(* For every set of threads, geometry of the device and sequence of calls, *)
(* vioblk_read and vioblk_write return as many bytes as they were asked    *)
(* for, or a read those up to the end of the device, and what a write has  *)
(* counted is on the disk when it returns, unless the device fails         *)
(* (vioblk.c:364, 443).                                                    *)
THEOREM CountsReachDisk == Spec => []CountIsOnDisk
<1>1. Counted /\ Landed => CountIsOnDisk
    BY Zenon DEF Counted, Landed, CountIsOnDisk, Filled, Writing
<1> QED BY <1>1, MovedInit, CountedNext, LandedNext, Invariant, PTL DEF Spec
=============================================================================
