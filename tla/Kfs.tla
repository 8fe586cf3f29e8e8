--------------------------------- MODULE Kfs ---------------------------------
(***************************************************************************)
(* The file system: the image that mkfs.c builds and the calls of kfs.c on *)
(* it.                                                                     *)
(*                                                                         *)
(* The disk is a sequence of blocks: the boot block, one inode block for   *)
(* each file, the data blocks.  Every disk access sleeps, and other        *)
(* processes run meanwhile; inode and the position of the disk are shared  *)
(* by all of them, and fs_lock keeps them apart.  fs_close does not take   *)
(* the lock.  A call that waits for the lock has changed nothing, so a     *)
(* call is made when its process gets the lock.  The transfer of one block *)
(* (through data_block, sector by sector: see Vioblk) is one step.  What   *)
(* inode and the position are between two calls is never used, and is left *)
(* out.                                                                    *)
(*                                                                         *)
(* A process is idle in user mode or in a call; refs says which processes  *)
(* hold which open file (see Process for the reference counts themselves). *)
(*                                                                         *)
(* An operator X_Y, defined before X, is X with the fault Y.               *)
(***************************************************************************)
EXTENDS Integers, Sequences

CONSTANTS
  Process,
  FS_MAXOPEN, FS_BLKSZ,
  Content,              \* the files given to mkfs, in order
  Asked, Written        \* lengths and positions asked for, bytes written

Slot == 1..FS_MAXOPEN
Nobody == "nobody"
NFILES == Len(Content)
Byte == 0..255

ASSUME KfsAssumption ==
  /\ FS_MAXOPEN \in Nat /\ FS_BLKSZ \in Nat \ {0}
  /\ Content \in Seq(Seq(Byte)) /\ Asked \subseteq Nat /\ Written \subseteq Seq(Byte)
  /\ Nobody \notin Process

(* The boot block has room for so many entries and an inode for so many    *)
(* block numbers.  mkfs checks neither.  Within them the loops of kfs.c    *)
(* never meet their test of the block index, which is against the bytes of *)
(* an inode.                                                               *)
ASSUME MkfsLimits ==
  NFILES <= 63 /\ \A i \in 1..NFILES : Len(Content[i]) \div FS_BLKSZ < 1023

-----------------------------------------------------------------------------
(* mkfs: file i is dentry and inode i - 1.  One block more is numbered     *)
(* than a file whose size is a multiple of the block size fills.           *)

blocks_for_file(i) == (Len(Content[i]) \div FS_BLKSZ) + 1

(* The number of the next data block, when i files have theirs. *)
data_block_idx[i \in 0..NFILES] ==
  IF i = 0 THEN 0 ELSE data_block_idx[i - 1] + blocks_for_file(i)

mkfs_inode(i) ==
  [byte_len |-> Len(Content[i]),
   data_block_num |-> [j \in 1..blocks_for_file(i) |-> data_block_idx[i - 1] + j - 1]]

(* The blocks read from a file and written to the image.  The end of the   *)
(* last one is what the buffer still holds of the one before.              *)
mkfs_data(f) ==
  LET n == (Len(f) + FS_BLKSZ - 1) \div FS_BLKSZ
      at(b, j) == (b - 1) * FS_BLKSZ + j
  IN  [b \in 1..n |-> [j \in 1..FS_BLKSZ |->
         IF at(b, j) <= Len(f) THEN f[at(b, j)]
         ELSE IF b > 1 THEN f[at(b - 1, j)] ELSE 0]]

(* The data blocks of the image, when those of i files are written. *)
data_blocks[i \in 0..NFILES] ==
  IF i = 0 THEN <<>> ELSE data_blocks[i - 1] \o mkfs_data(Content[i])

mkfs_boot == [num_dentry |-> NFILES, num_inodes |-> NFILES]

mkfs == <<mkfs_boot>> \o [i \in 1..NFILES |-> mkfs_inode(i)] \o data_blocks[NFILES]

-----------------------------------------------------------------------------
VARIABLES
  disk,                 \* the blocks of the image
  pos,                  \* vioblk: the position of the device, in bytes
  boot_block,           \* read by fs_mount
  file_structs,         \* the open files
  fs_lock,              \* the process that holds the lock, or Nobody
  io_lock,              \* vioblk: a write at the end of the disk left it held
  inode,                \* the shared buffer for the inode of the file in use
  call,                 \* the call each process is in
  refs,                 \* the processes that hold each open file
  result,               \* what the last step gave the process that made the call
  files                 \* history: what completed writes have left

vars == <<disk, pos, boot_block, file_structs, fs_lock, io_lock, inode,
          call, refs, result, files>>

None == [call |-> "none", to |-> Nobody, ok |-> TRUE, n |-> 0, bytes |-> <<>>]
Ok(p, op, n, bytes) == [call |-> op, to |-> p, ok |-> TRUE, n |-> n, bytes |-> bytes]
(* An error comes with the argument of the call. *)
Error(p, op, arg) == [call |-> op, to |-> p, ok |-> FALSE, n |-> arg, bytes |-> <<>>]

(* A call: what it does, the file, where it sleeps, the position it is at, *)
(* the bytes transferred and to be transferred, and the caller's buffer.   *)
Idle == [op |-> "idle", file |-> 0, at |-> "user", file_pos |-> 0, total |-> 0, todo |-> 0,
         buf |-> <<>>]
NoInode == [byte_len |-> 0, data_block_num |-> <<>>]
NoFile == [flags |-> 0, file_position |-> 0, file_size |-> 0, inode_number |-> 0]

TypeOK ==
  /\ Len(disk) = Len(mkfs) /\ pos \in 0..(Len(disk) * FS_BLKSZ)
  /\ file_structs \in [Slot -> [flags : {0, 1}, file_position : Nat, file_size : Nat,
                                inode_number : Nat]]
  /\ \A s \in Slot : file_structs[s].flags = 1 => file_structs[s].inode_number < NFILES
  /\ fs_lock \in Process \cup {Nobody}
  /\ refs \in [Slot -> SUBSET Process]
  /\ \A p \in Process : /\ call[p].op \in {"idle", "open", "read", "write"}
                        /\ call[p].at \in {"user", "inode", "block"}
                        /\ (call[p].op = "idle") = (call[p].at = "user")
  /\ result.to \in Process \cup {Nobody}

InUser(p) == call[p].op = "idle"

-----------------------------------------------------------------------------
(* The disk as kfs.c uses it. *)

inode_offset(n) == FS_BLKSZ + n * FS_BLKSZ

data_block_offset(num) ==
  FS_BLKSZ + boot_block.num_inodes * FS_BLKSZ + num * FS_BLKSZ

(* IOCTL_SETPOS, and a read of one whole block that fails at the end. *)
on_disk(offset) == offset < Len(disk) * FS_BLKSZ
block_at(offset) == disk[(offset \div FS_BLKSZ) + 1]

(* Part of one block is written where the position is. *)
write_at(offset, bytes) ==
  [disk EXCEPT ![(offset \div FS_BLKSZ) + 1] =
     [j \in 1..FS_BLKSZ |->
        LET i == j - (offset % FS_BLKSZ) IN IF i \in 1..Len(bytes) THEN bytes[i] ELSE @[j]]]

Min2(a, b) == IF a < b THEN a ELSE b

(* The lock is released and the caller gets r. *)
Finish(p, r) ==
  /\ fs_lock' = Nobody
  /\ call' = [call EXCEPT ![p] = Idle]
  /\ result' = r
  /\ inode' = NoInode /\ pos' = 0

Refuse(p, r) ==
  /\ result' = r
  /\ UNCHANGED <<disk, pos, boot_block, file_structs, fs_lock, io_lock, inode, call, refs, files>>

(* Sleeps until the disk has read the inode of the file into inode. *)
ReadInode(p, c, n) ==
  /\ fs_lock' = p
  /\ pos' = inode_offset(n)
  /\ call' = [call EXCEPT ![p] = c]
  /\ result' = None
  /\ UNCHANGED <<disk, boot_block, io_lock, inode, refs, files>>

-----------------------------------------------------------------------------
(* Boot: the boot block is read and the table of open files is cleared.    *)
fs_mount ==
  /\ boot_block.num_inodes = 0
  /\ boot_block' = disk[1]
  /\ file_structs' = [s \in Slot |-> NoFile]
  /\ result' = None
  /\ UNCHANGED <<disk, pos, fs_lock, io_lock, inode, call, refs, files>>

Mounted == boot_block.num_inodes > 0
Calls_NoLock(p) == Mounted /\ InUser(p)

Calls(p) == Mounted /\ InUser(p) /\ fs_lock = Nobody

(* A file is named by its place in the directory; a name of no file is     *)
(* refused, and so is any when no slot is free.  The slot is taken only    *)
(* when the inode has been read.                                           *)
free_slot(s) == file_structs[s].flags = 0 /\ \A t \in 1..(s - 1) : file_structs[t].flags # 0

fs_open(p, name) ==
  /\ Calls(p)
  /\ IF name \in 1..boot_block.num_dentry /\ \E s \in Slot : file_structs[s].flags = 0
     THEN \E s \in Slot :
            /\ free_slot(s)
            /\ file_structs' = [file_structs EXCEPT ![s].file_position = 0,
                                                    ![s].inode_number = name - 1]
            /\ ReadInode(p, [Idle EXCEPT !.op = "open", !.file = s, !.at = "inode"], name - 1)
     ELSE Refuse(p, Error(p, "open", name))

(* fs_read and fs_write up to the read of the inode: nothing to do at the  *)
(* end of the file, and no more than is left of it.  buf is empty for a    *)
(* read and holds the bytes for a write.                                   *)
Begin(p, op, s, n, buf) ==
  /\ ReadInode(p, [op |-> op, file |-> s, at |-> "inode", buf |-> buf, total |-> 0,
                   file_pos |-> file_structs[s].file_position, todo |-> n],
               file_structs[s].inode_number)
  /\ UNCHANGED file_structs

Start(p, op, s, n, buf) ==
  LET f == file_structs[s]
  IN  CASE f.flags = 0 -> Refuse(p, Error(p, op, n))
        [] f.flags # 0 /\ f.file_position >= f.file_size -> Refuse(p, Ok(p, op, 0, <<>>))
        [] OTHER -> Begin(p, op, s, Min2(n, f.file_size - f.file_position), buf)

fs_read(p, s, n) == Calls(p) /\ p \in refs[s] /\ Start(p, "read", s, n, <<>>)

fs_write(p, s, bytes) == Calls(p) /\ p \in refs[s] /\ Start(p, "write", s, Len(bytes), bytes)

(* The transfer is complete: the file moves on and the caller gets the     *)
(* count, and the bytes if it reads.                                       *)
Complete(p, c) ==
  LET f == file_structs[c.file].inode_number + 1
  IN  /\ file_structs' = [file_structs EXCEPT ![c.file].file_position = c.file_pos]
      /\ files' = IF c.op = "read" THEN files
                  ELSE [files EXCEPT ![f] = [i \in DOMAIN @ |->
                          IF i \in (c.file_pos - c.total + 1)..c.file_pos
                          THEN c.buf[i - (c.file_pos - c.total)] ELSE @[i]]]
      /\ Finish(p, Ok(p, c.op, c.total, IF c.op = "read" THEN c.buf ELSE <<>>))
      /\ UNCHANGED io_lock

(* The head of the two loops: the next block is looked up in the inode and *)
(* the disk positioned, at the block for a read and inside it for a write. *)
(* A block that is not on the disk is an error, and the file stays where   *)
(* it was.  A position just past the disk is accepted, and it is           *)
(* vioblk_write that returns, without releasing its own lock (see Vioblk). *)
NextBlock_AtStart(p, c, ino) ==
  LET offset == data_block_offset(ino.data_block_num[(c.file_pos \div FS_BLKSZ) + 1])
  IN  IF on_disk(offset)
      THEN /\ pos' = offset
           /\ call' = [call EXCEPT ![p] = [c EXCEPT !.at = "block"]]
           /\ inode' = ino
           /\ result' = None
           /\ UNCHANGED <<file_structs, fs_lock, io_lock, files>>
      ELSE /\ Finish(p, Error(p, c.op, c.todo))
           /\ io_lock' = (c.op = "write" /\ offset = Len(disk) * FS_BLKSZ)
           /\ UNCHANGED <<file_structs, files>>

NextBlock(p, c, ino) ==
  LET offset == data_block_offset(ino.data_block_num[(c.file_pos \div FS_BLKSZ) + 1])
                  + (IF c.op = "write" THEN c.file_pos % FS_BLKSZ ELSE 0)
  IN  IF on_disk(offset)
      THEN /\ pos' = offset
           /\ call' = [call EXCEPT ![p] = [c EXCEPT !.at = "block"]]
           /\ inode' = ino
           /\ result' = None
           /\ UNCHANGED <<file_structs, fs_lock, io_lock, files>>
      ELSE /\ Finish(p, Error(p, c.op, c.todo))
           /\ io_lock' = (c.op = "write" /\ offset = Len(disk) * FS_BLKSZ)
           /\ UNCHANGED <<file_structs, files>>

Loop(p, c, ino) == IF c.todo = 0 THEN Complete(p, c) ELSE NextBlock(p, c, ino)

-----------------------------------------------------------------------------
(* The disk has read the inode that pos points at. *)

InodeOfOpen(p) ==
  LET s == call[p].file
  IN  /\ call[p].op = "open" /\ call[p].at = "inode"
      /\ file_structs' = [file_structs EXCEPT ![s].file_size = block_at(pos).byte_len,
                                              ![s].flags = 1]
      /\ refs' = [refs EXCEPT ![s] = {p}]
      /\ Finish(p, Ok(p, "open", 0, <<>>))
      /\ UNCHANGED <<disk, boot_block, io_lock, files>>

InodeOfTransfer(p) ==
  /\ call[p].op \in {"read", "write"} /\ call[p].at = "inode"
  /\ Loop(p, call[p], block_at(pos))
  /\ UNCHANGED <<disk, boot_block, refs>>

(* The part of a block that one iteration transfers. *)
Here(c) == Min2(c.todo, FS_BLKSZ - (c.file_pos % FS_BLKSZ))

Advance(c, n) == [c EXCEPT !.total = @ + n, !.todo = @ - n, !.file_pos = @ + n]

BlockRead(p) ==
  LET c == call[p]
      off == c.file_pos % FS_BLKSZ
      got == SubSeq(block_at(pos), off + 1, off + Here(c))
  IN  /\ c.op = "read" /\ c.at = "block"
      /\ Loop(p, [Advance(c, Here(c)) EXCEPT !.buf = @ \o got], inode)
      /\ UNCHANGED <<disk, boot_block, refs>>

BlockWritten(p) ==
  LET c == call[p]
  IN  /\ c.op = "write" /\ c.at = "block"
      /\ disk' = write_at(pos, SubSeq(c.buf, c.total + 1, c.total + Here(c)))
      /\ Loop(p, Advance(c, Here(c)), inode)
      /\ UNCHANGED <<boot_block, refs>>

-----------------------------------------------------------------------------
(* fs_ioctl: under the lock, without sleeping.  The commands that only     *)
(* report the length, the position or the block size change nothing.  An   *)
(* unknown command would return with fs_lock, but sysioctl refuses those   *)
(* and the kernel makes none.                                              *)

fs_ioctl(p, s, r, position) ==
  /\ Calls(p) /\ p \in refs[s]
  /\ file_structs' = [file_structs EXCEPT ![s].file_position = position]
  /\ result' = r
  /\ UNCHANGED <<disk, pos, boot_block, fs_lock, io_lock, inode, call, refs, files>>

fs_setpos(p, s, new_pos) ==
  IF new_pos > file_structs[s].file_size
  THEN fs_ioctl(p, s, Error(p, "setpos", new_pos), file_structs[s].file_position)
  ELSE fs_ioctl(p, s, Ok(p, "setpos", 0, <<>>), new_pos)

(* The last holder of an open file gives it up: fs_close frees the slot    *)
(* whoever has the lock.                                                   *)
fs_close(p, s) ==
  /\ InUser(p) /\ p \in refs[s]
  /\ refs' = [refs EXCEPT ![s] = @ \ {p}]
  /\ file_structs' = IF refs[s] = {p} THEN [file_structs EXCEPT ![s].flags = 0] ELSE file_structs
  /\ result' = None
  /\ UNCHANGED <<disk, pos, boot_block, fs_lock, io_lock, inode, call, files>>

(* A process without open files is the copy that another one makes of      *)
(* itself: it holds the same open files.                                   *)
fork(p, q) ==
  /\ InUser(p) /\ InUser(q) /\ \A s \in Slot : q \notin refs[s]
  /\ \E s \in Slot : p \in refs[s]
  /\ refs' = [s \in Slot |-> IF p \in refs[s] THEN refs[s] \cup {q} ELSE refs[s]]
  /\ result' = None
  /\ UNCHANGED <<disk, pos, boot_block, file_structs, fs_lock, io_lock, inode, call, files>>

Init ==
  /\ disk = mkfs /\ pos = 0
  /\ boot_block = [num_dentry |-> 0, num_inodes |-> 0]
  /\ file_structs = [s \in Slot |-> NoFile]
  /\ fs_lock = Nobody /\ io_lock = FALSE
  /\ inode = NoInode
  /\ call = [p \in Process |-> Idle]
  /\ refs = [s \in Slot |-> {}]
  /\ result = None
  /\ files = Content

(* The steps a call takes once it has fs_lock; each needs vioblk's too. *)
Step(p) ==
  ~ io_lock /\ (InodeOfOpen(p) \/ InodeOfTransfer(p) \/ BlockRead(p) \/ BlockWritten(p))

Next ==
  \/ fs_mount
  \/ \E p \in Process :
       \/ Step(p)
       \/ \E name \in 1..(NFILES + 1) : fs_open(p, name)
       \/ \E q \in Process : fork(p, q)
       \/ \E s \in Slot :
            \/ fs_close(p, s)
            \/ \E n \in Asked : fs_read(p, s, n) \/ fs_setpos(p, s, n)
            \/ \E bytes \in Written : fs_write(p, s, bytes)

Spec == Init /\ [][Next]_vars

-----------------------------------------------------------------------------
(* The calls of kfs.c, with their sleeps, on the image of mkfs.c are the   *)
(* atomic operations of Files on the files that mkfs was given: reads give *)
(* the bytes of the file at the position the holders share, whatever other *)
(* processes do while the call sleeps.                                     *)
F == INSTANCE Files WITH
       Handle <- Slot,
       handle <- [s \in Slot |->
                    IF file_structs[s].flags = 0 THEN [file |-> 0, pos |-> 0, holders |-> {}]
                    ELSE [file |-> file_structs[s].inode_number + 1,
                          pos |-> file_structs[s].file_position, holders |-> refs[s]]]
ImplementsFiles == F!Spec

(* One call at a time uses the disk: a call that sleeps has fs_lock, the   *)
(* disk is where that call positioned it, and no call returns with the     *)
(* lock.  (The path that would, fs_ioctl's for an unknown command, is out  *)
(* of reach.)                                                              *)
OneCallAtDisk ==
  /\ TypeOK
  /\ \A p \in Process :
       LET c == call[p]
           num == file_structs[c.file].inode_number
       IN  /\ (fs_lock = p) = (c.at # "user")
           /\ c.at = "inode" => pos = inode_offset(num)
           /\ c.at = "block" => /\ inode = disk[num + 2]
                                /\ (c.file_pos \div FS_BLKSZ) + 1 \in DOMAIN inode.data_block_num
=============================================================================
