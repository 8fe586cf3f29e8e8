# A verification of the kernel in TLA+

This directory holds TLA+ models of the RISC-V teaching kernel in `src/`, the
TLC configurations that check them on small instances, and machine-checked
(TLAPS) proofs of the properties that matter most. `PROJECT.json` lists every
run, theorem, known hazard and the source lines each definition models.

## The system

One hart runs everything. `main.c` initialises the parts in order, enables
interrupts, mounts the file system and executes the first program in the main
thread, which becomes its process.

| Part | Source | State | Operations |
|---|---|---|---|
| Thread manager | `thread.c`, `thrasm.s` | `thrtab`, `ready_list`, wait lists, `tp` | spawn, fork, yield, exit, join, condition wait and broadcast, idle loop |
| Sleep locks | `lock.h` | owner, condition | acquire, release |
| Traps and interrupts | `trapasm.s`, `intr.c`, `intr.h`, `excp.c`, `plic.c` | `sstatus`, `stvec`, `sscratch`, `sepc`, ISR table | trap entry and exit, dispatch, enable and disable |
| Timer and alarms | `timer.c` | `sleep_list`, `next_tick`, mtime, mtcmp | sleep, reset, interrupt |
| Page allocator | `memory.c` | free list | init, allocate, free |
| Address spaces | `memory.c` | page tables, `satp` | map, protect, unmap, clone, switch, reclaim, page fault, validation |
| Kernel heap | `ezheap.c` | heap bounds | allocate |
| Processes | `process.c`, `syscall.c`, `signals.c` | `proctab`, descriptor tables, pending signals | exec, fork, exit, wait, signal |
| I/O objects | `io.h`, `io.c` | reference counts, literal buffers, terminal line state | open, close, read, write, seek |
| UART | `uart.c` | two ring buffers, `ier` | open, close, read, write, ISR |
| Block device | `vioblk.c`, `virtio.c` | virtqueue, cached block, position | open, close, read, write, ioctl, ISR |
| File system | `kfs.c`, `util/mkfs.c` | open-file table, lock | mount, open, close, read, write, ioctl |
| Device manager | `device.c` | device table | register, open |
| ELF loader | `elf.c` | none | load |
| Shell | `user/shell.c` | line editor, history | read a line, parse, run |
| Console, strings, start-up | `console.c`, `string.c`, `start.s`, `halt.c` | none | formatting, boot |

What makes the code hard is how these interact. A thread in the kernel is
never preempted by another thread, but service routines run wherever
`sstatus.SIE` is 1 and may wake waiters; a trap turns SIE off, `suspend_self`
turns it on again around the switch, and some drivers turn it on outright.
Conditions are waited on by threads and broadcast by service routines, so a
wait that is not protected can be lost; device state is shared by a thread and
a service routine with no lock between them; sleep locks, alarms and drivers
all rest on the same three lists of threads.

## Modules

| Module | Models | Kind |
|---|---|---|
| `Threads` | `thread.c`, the context switch in `thrasm.s`, the callers as a most general client | component |
| `RingBuf` | the ring buffer of `uart.c`, with 16-bit positions that wrap | component |
| `Uart` | `uart.c`: readers, writers and the service routine | component |
| `UartChannel` | what the port promises: two queues of bytes | abstract |
| `Timer` | `timer.c` and the machine-mode half of the timer interrupt in `trapasm.s` | component |
| `PageAlloc` | the list of free pages in `memory.c` | component |
| `Heap` | `kmalloc` of `ezheap.c` over `PageAlloc`, beside the other users of pages | composition |
| `Memory` | address spaces in `memory.c`, and fork, exec, page faults and exit as they use them | composition |
| `Vioblk` | `vioblk.c` with the sleep lock of `lock.h` and the device | composition |
| `Process` | `proctab`, descriptors, reference counts, signals and system calls: `process.c`, `syscall.c`, `signals.c`, `device.c`, `io.h` | composition |
| `Kfs` | the image `mkfs.c` builds, and `kfs.c` on it | component |
| `Files` | what the file system promises: files, handles, atomic calls | abstract |
| `Terminal` | `io_term` and `iowrite` of `io.c` | component |
| `Shell` | the line editor, history and tokenizer of `shell.c`, on a terminal that shows what is written | component |
| `Console` | the one serial port, owned by the shell or by a program with an `io_term` | composition |

`MC<Module>` gives each of them the instances that TLC checks, and
`<Module>Proofs` holds the theorems about it (`HeapProofs` those about
`PageAlloc` and `Heap`, `UartProofs` those about `RingBuf` and `Uart`, with the
refinement of `UartChannel`, `KfsProofs` the refinement of `Files`). In every module
a definition `X_Y` placed before `X` is `X` with a plausible mistake `Y`; the
properties are tested against these and they are used nowhere else.

### How the models correspond to the code

*Steps.* Threads in the kernel do not preempt each other, so a step is a
stretch of code that no service routine can observe half way. Where SIE may be
1, each access to shared state is a step of its own.

**Threads.** `state`, `ready_list`, `wait_list`, `parent` and the rest are the
fields of `struct thread` and the lists; `pc` and `cont` say where a thread is
in `thread.c` and what it does after `suspend_self`. Each exported function is
one action, or several where SIE is 1 between them (`condition_wait`,
`suspend_self`, `_thread_swtch`, the idle loop). Service routines are
broadcasts on any condition at any point where SIE is 1. Clients call anything
at any time, with interrupts on or off.

**Uart.** `rbuf_get`, `rbuf_put` and `ier |= ...` are split into a load and a
store, since the service routine runs in between. `ImplementsChannel` maps each
ring buffer to the queue it holds.

**Timer.** Time advances between any two steps up to `TMAX`; an interrupt is
pending from the moment mtime reaches mtcmp until the routine runs or mtcmp is
moved. The wake-up time saturates at `UINT64_MAX` as in the code.

**PageAlloc.** The link of a page is its first word: an owner stores anything
there. `drained` records that the last page of the list was handed out.

**Memory.** A space is its root table. Free pages are a stack, the tables are
functions from virtual pages, the contents of a page one value. The operations
of `memory.c` are operators from a memory to a memory; the actions are what
system calls and traps do with them. Loading a program takes a step for each
mapping and each read, since reads block. An invalid entry is a null one
whether its page number was cleared (`memory_space_reclaim`) or left
(`memory_unmap_and_free_user`), which the code never looks at. The loops of
`memory.c` over tables and pages are recursive functions. The stack page
that a fork also takes is left out, as is the halt when main exits. The
segments of a program share no page, which `user.ld` sees to and `elf.c` does
not test.

**Vioblk.** The rings and descriptors are one outstanding request. The device
serves or fails it at any time. `Setting` is the set of circumstances a run
looks at, and `env` the one a behaviour has: whether interrupts are on where
the call starts (`SIE`; on in `main.c`, off in a system call), whether callers
stay inside the device (`InRange`), as `kfs.c` does, and whether the device may
fail (`MayFail`).

**Heap.** Addresses are bytes; a block that was handed out is an interval. The
other users of pages are those of `PageAlloc` and free only pages that are not
the heap's.

**Process.** All tables are one record `k`, and each function of the code an
operator from tables to tables, so that a call is composed as in C: the call,
then `umode_excp_handler` with `signal_deliver`. A call that blocks (a read or
write, `exec` reading its file, `wait`) leaves its thread at a place from which
a later step resumes it. `process_exec` ends in the new program, without
passing through the handler again; `process_exec_fails` returns through it, to
a program that may be gone, or stops the kernel at boot. The idle thread is not
in the table but is the child of main that it is for `wait`. `dropped` counts the references that the code gives up
without `ioclose`: an open on a descriptor in use, `exec`, the boot. The signal
fields of a forked process are what `kmalloc` left (`Residue`). The calls that
change none of these tables are `OtherCall`. The ids of processes and threads
are both kept, since `fork` returns one and `wait` takes the other. Where the
code would use the pointer that `sysfork` never assigned, the model returns, as
for a null pointer, or stops as `"undefined"`.

**Kfs.** The disk is a sequence of blocks, built by the operators `mkfs_*` from
the files given, with the boot block, inodes and data where `mkfs.c` puts them
(its counters `data_block_idx` and the blocks written so far are recursive
functions of the number of files seen);
`kfs.c` finds them by the same arithmetic as the code. Each access to the disk
is a sleep, so a call is a step up to the inode, one for the inode and one for
each block, and other processes run in between. A call waiting for `fs_lock`
has done nothing yet and is not represented. `fs_close` does not take the lock,
nor does `fs_ioctl` for what it reports. `io_lock` says that a write met the end
of the disk and left the lock of the disk taken (`vioblk.c:462`), after which
no step of any call is possible. `MkfsLimits` asks for an image that `mkfs.c`
can build: at most 63 files, none with more blocks than an inode numbers.
`refs` stands for the reference counts of `Process`. `ImplementsFiles` maps the
slots of `file_structs` to handles; a read or write takes effect when it
completes.

**Terminal, Shell, Console.** Output and input are sequences of characters; the
raw device takes all of a write and gives a read at least one character. The
shell's arrays keep what is behind the terminating NUL. The screen is one line
with a cursor; the editor's writes move the cursor and replace cells as a
terminal does. What the commands print only ends the line. An escape
that begins no arrow key is typed only while no line at hand holds one
(`Unescaped`).

## Runs

| Run | Checks | Instance |
|---|---|---|
| `threads` | the properties of `Threads`, `ReadyRuns` included | main, idle and two more slots, one condition: enough for a parent, its child and a sibling or grandchild to race for every list |
| `uart` | `ImplementsChannel`: each direction is a queue | one thread that reads and writes; two byte values; buffers of 2 bytes and positions modulo 4, so that full, empty and wrapped buffers all occur; writes of more than a buffer |
| `uart_live` | `NothingStalls`: no lost wakeup, no direction left with its interrupt off; readers wake, output drains | two threads, the same buffers, one byte value: what is sent does not matter to who is woken |
| `timer` | `ListSound`: the list is sorted and complete; a due alarm has its interrupt; no alarm early, none lost | three alarms, two ticks, sleeps of 0, less than a tick, a tick, and one that saturates |
| `heap` | `ListIsComplement`, `BlocksApart` | three pages of two units and a first heap of three units, requests of one, two and three units: blocks that fit, that take a page and keep it, that take a page and leave the old block, and that are refused |
| `memory` | `OneUse`, `RunsInOwnSpace`, `ValidatesFromBoundary`, `Isolation`, `ForkCopies`, `LostOnlyByFault` | two processes, a text and a data page in two tables, 11 pages; at most `OPS` = 2 programs executed or faults taken after boot, which lets one process reuse what the other freed |
| `vioblk` | `CopyIsFresh`, `WritesOnlyChunk` (a sound device), `CountIsOnDisk`, `OneRequest`, `SyscallReturns` (calls in range) | two threads with two calls each on two blocks of two bytes; transfers of 1 and 3 bytes, so that partial blocks and block boundaries occur; interrupts at every step with any callers, or system calls with a device that may fail |
| `process` | `RefcntExact`, `ThreadsMatch`, `ForkNumbersThread`, `TermAtReturn` | three entries of `proctab` and two threads beside main, so that the table fills and an entry of `thrtab` is reused while that of `proctab` is not; one descriptor, two files, the second serial port and the disk; SIGTERM and SIGKILL; two successful opens after boot |
| `kfs` | `OneCallAtDisk`, `ImplementsFiles` | two processes (symmetric), two slots, a file of part of a block and one of a block and a half; reads and seeks by 1 and 4, writes of two bytes, which cross blocks and the end of the file |
| `console` | `ScreenShowsLine`, `HistoryIsLog`; `LineEndings`, `EchoShowsLine` | lines of three characters, so that one of the history is copied over one two characters longer and leaves its end in the array, a history of two lines, every key and stray escape; up to five characters written in buffers of up to three, or typed, with \r, \n, backspace and letters |

Deadlock is checked for `Threads`, `Uart` and `Kfs`. It is not for the others,
where the model may stop: at the time bound, after a panic, when the bounded
calls are done, or when the shell exits.

### Disagreements between the code and what is written about it

| Run | Shows |
|---|---|
| `vioblk_boot` | with interrupts on, the answer of the disk can come before the thread sleeps, which then sleeps for ever |
| `kfs_layout` | `mkfs.c:119` numbers one block too many for a file that fills its last block, so the files behind it are read from the wrong blocks |

Met while modelling, and in the models as the code has them, without a run of
their own:

- `_thread_swtch` returns the resumed thread, not the previous one
  (`thread.c:634`), so stacks of exited threads are never freed;
- `thread_join_any` counts the idle thread as a child of main (`thread.c:85`,
  `:403`);
- the free list ends in a page linked to itself (`memory.c:243`): the last page
  is handed out again and again where a panic is meant. `ListIsComplement` and
  `BlocksApart` hold until then (`drained`);
- a range that starts inside a page may be accepted without a look at its last
  page (`memory.c:664`; `memory.h:163` says every page), which is why
  `ValidatesFromBoundary` is about the other ranges;
- a fault outside the user region panics (`memory.c:603`);
- a write that meets the end of the device returns 0 with the lock held
  (`vioblk.c:462`), which is why `SyscallReturns`, and that no call leaves the
  lock behind (`OneRequest`), are about calls in range; the status of a request
  is never read (`vioblk.c:422`), which is why `CopyIsFresh`, and the bytes on
  the disk in `CountIsOnDisk`, are about a device that does not fail;
- `signals.c:10` has `signal_deliver` called on the way back from a system call:
  an `exec` that succeeds (`process.c:129`) and the first run of a forked child
  enter user mode without it, and a signal waits for their next trap, which is
  why `TermAtReturn` is about the returns of `Trap`;
- an entry of `proctab` is never cleared, so `ps` lists ended processes and the
  sixteenth process is the last; then `sysfork` uses a pointer without a value
  (`syscall.c:337`, `:346`) where its comment expects a null one;
- `fork` returns a process id and `wait` takes a thread id (`syscall.c:385`);
  `ForkNumbersThread` says how long they agree;
- `sysioctl` on a serial port calls an operation it does not have;
- `iowrite` repeats the end of a buffer whose first \n `ioterm_write` skipped
  without counting it (`io.c:491`, `:65`), which is why `OutputNormalized`
  stops there (`repeats`);
- the Down key behind the newest line sets `buf_size` before it uses it to clear
  `input` (`shell.c:205`, `:207`), and a line from the history is copied over a
  longer one up to its NUL (`shell.c:233`). What is typed then is on the screen
  and in the history as it should be, but Enter tokenizes the array up to the
  next NUL and may run more than is shown;
- a line of ten words stores the closing null pointer behind `argv`
  (`shell.c:326`).

### Fairness

The code of the thread manager and of a driver runs to its end: weak fairness
of the running thread's steps. A pending interrupt is taken when it finds
interrupts on often enough, since it stays pending: strong fairness of service
routines and ticks. A ready thread gets the CPU: `ReadyRuns` shows this of the
round-robin list, and the driver modules assume it as strong fairness of
resuming a thread. Devices answer: weak fairness. Callers owe nothing. The
sleep lock is not starvation-free, since its releaser may take it again before
a woken thread runs, so `SyscallReturns` is about calls whose competitors
stop calling (the bound `CALLS`).

## Proofs

Every safety property of a run is also a theorem, but for those of `console`.
A run shows it on one instance, the theorem for all values of the constants
that the module's `...Assumption` allows: any number of threads, processes,
pages, slots and files, any sizes. The assumptions only give the constants
their types and exclude empty tables; where one says more, it is named below.

Each module has an inductive invariant, a lemma for each action that preserves
it, and theorems that follow from it.

### Threads

`IInv` is the conjunction of

- `TypeOK` and `ListsAgree`, the latter because what `suspend_self` takes off
  the ready list must be READY;
- `CpuInv`: what the place of the current thread says about its state, and that
  every other thread is at a place where it was switched out. Without it a step
  of "the current thread" could be a step of a thread on some list;
- `HeadInv`: the head of the ready list is never the thread about to suspend,
  though a service routine may have made it READY between `condition_wait` and
  `suspend_self`;
- `IdleInv`: the idle thread is READY or RUNNING and at one of its own places,
  so the ready list is not empty when another thread suspends;
- `TreeInv`: parents are live, main and idle are never recycled;
- `JoinInv`: a thread that waits in a join has no exited child it waits for.

`HandoverCorrect` puts the four theorems that concern the CPU together as the
property that the run `threads` checks. The action properties `FifoOrder` and
`FreedByParent` follow from `IInv` and a lemma for each action on what it does
to the lists and to the table: a broadcast appends a wait list as it stands,
every other wake-up appends one thread, and a switch takes the head.

### Uart

`RingBufAssumption` asks for a buffer size that divides the number of
positions, as 64 divides 65536; for another size the slot of a position would
change when the position wraps. The lemmas on the ring buffer say what `put`
and `get` do to the queue it stands for; after them its definitions stay
closed. `IInv` adds to `NothingStalls` that one thread at a time is inside the
driver, and that what it has loaded is still true although the service routine
may have run: the byte loaded is the oldest, there is room for the byte to be
stored, and the stored `ier` drops no interrupt that is on.
`ChannelImplemented` maps each step to a step of `UartChannel` or a stutter.

### Vioblk

Who went through `lock_acquire` holds the lock (`HolderInside`); a thread off
the hart is at a place where it sleeps (`OneRuns`); the request at the device
is for the block that its holder waits for (`RequestMatches`); and the buffer
holds that block, then the caller's bytes over it (`BufferRight`, for a device
that does not fail). `SingleRequest` needs `WritesFit` for its part about the
lock: the bytes that calls have left to write, in range when the calls began,
still fit behind the position. `CountsReachDisk` needs besides that the bytes a write has
counted are on the disk in front of the position (`Landed`): the device serves
a request after the caller has gone to sleep and before it counts the chunk,
and the next chunk, which may share a block with this one, reads the block back
with what was put there.

### Heap

The list of free pages is followed through links that the pages themselves
hold. `Linked` says why it can be: no two free pages have the same link and
none links to the head. That the chain then reaches every free page is an
induction over its length. `BlockPlaces` puts every block that was handed out
in used pages, apart from the block in use.

### Timer

`Armed`: the timer is armed or its interrupt is pending, and an armed timer
fires no later than the next tick and any alarm. With the sorted list this is
what an insertion and the handler preserve. `TimerAssumption` keeps the time
modelled below `UINT64_MAX`, where mtime would wrap.

### Process

The tables are one record, and `Sound` a predicate of tables: each operation
leads from sound tables to sound tables, and a system call combines the lemmas
as it combines the operations. `Counted` says where each reference is;
`Pinned`, that the object of a blocked call keeps one, without which a close
by another thread could free it; `Numbered`, that the entries of the two tables
correspond until a thread is joined. For `TermIsDelivered`, a lemma for each
trap says that it leaves its own process with no SIGTERM to deliver or off user
mode (`Clear`): `signal_deliver` takes the lowest signal, and SIGTERM is it.

### Memory

`Sound(mem, roots)` is the account of pages: each is on the free list once, or
held once as a root, a table or a mapped page, and the entries of unused roots
are empty. Each operation of `memory.c` has a lemma that says which pages it
takes or gives back; those with loops are followed round by round. `IInv` adds
that each process has a space of its own and that of the running one is active.
`Isolation`, `ForkCopies` and `LostOnlyByFault` then need only what the one
space that an operation works on gains and loses.
`MemoryAssumption` has the segments of executables inside the user region, which
`elf_load` checks (`elf.c:100`).

### Kfs

`IInv` says of every call in progress where it is: its slot is open and held by
the caller, position and count lie inside the file, and the disk is positioned
at the block the call sleeps for. `OneCallAtDiskCorrect` holds for every image.

`FilesRefined` is the refinement: calls that sleep at the disk for every block,
and let other processes run meanwhile, are atomic operations on the files given
to `mkfs`. Its hypothesis `PartlyFilled`, that no file but the last fills its
last block, is what the run `kfs_layout` shows to be necessary. It needs
`DataInv`, which says of every byte on the disk which byte of which file it is:
that of the file's history, or, for the part of a write in progress that is
done, that of the caller's buffer; and of what a read has gathered, that it is
what the file has. A write of a block then changes the bytes of one file,
because blocks of different files, and of one file, are apart
(`BlocksApart`), which rests on the numbering of `mkfs`.

### Induction and time limits

An operator cannot be given to the library's induction theorems by the provers
used here, so an induction is stated of a set: the least element of the set of
counterexamples (`LeastNat`, from `WFMin`) is contradicted. The equation of a
recursive function is proved first, from the existence of the function on each
initial interval.

Most leaves are first-order steps and name Zenon; those with arithmetic go to
SMT. This is more than taste: `tlapm` translates a leaf for SMT itself, within
five seconds that no pragma extends, and keeps the memory it used, so a long
module of SMT leaves slows down until its last ones fail. The slower leaves name
a time limit (`ZenonT`, `SMTT`). From nothing, the longest modules (`KfsProofs`,
`MemoryProofs`) take about twenty minutes each, the others a few minutes.

### Only model-checked

- `ReadyRuns`, `ReaderWakes`, `TxProgress`, `SleeperWakes`, `SyscallReturns`:
  liveness, which needs fairness and ENABLED.
- The properties of `Console` (`ScreenShowsLine`, `HistoryIsLog`, `LineEndings`,
  `EchoShowsLine`): `Terminal` follows the loops over a buffer with `RECURSIVE`
  operators, which the provers cannot reason about, and they are inductions over
  the characters typed and written.

## Plan

1. `Terminal` with recursive functions, and the theorems of `Console`.
2. `Trap`: `sstatus`, `sepc`, `stvec`, `sscratch` and the trap frame through
   entry, exit, nested interrupts and the first jump to user mode.

## Not modelled

- Console formatting, the polled console port, the string functions that the
  shell does not use in its editor, register arithmetic of the interrupt
  controller, and the demonstration programs: sequential code without state
  that others depend on.
- The assembly that runs before `main`, feature negotiation with the block
  device and the layout of its rings: they run once, or are fixed by the device.
- The registers that trap entry and exit save and restore: the models take a
  trap to come back where it was taken.
- The arithmetic of ELF headers and offsets inside a page: functions of one
  file; that a load can fail at each segment is modelled.
- The literal I/O object and the ioctls that only report a value.
- What the shell's commands print, and the key that is waited for before the
  first prompt.
