# A TLA+ verification of the operating-systems repository

The repository holds three copies of a teaching kernel, xv6 (multiprocessor,
monolithic, in C), each extended differently, and stand-alone C programs. This
directory models and verifies their control: the modules below are translations
of the C functions they name, checked by TLC on small instances and, where
section 5 says so, proved with TLAPS for every instance.

## 1. Inventory

Paths are relative to `src/`. *K* stands for `xv6 Scheduler/kernel`; the files of
*K* also exist in `xv6 Memory sub-system/part_a/kernel` and `.../part_b/kernel`,
where only `kalloc.c`, `proc.c`, `vm.c`, `sysproc.c`, `syscall.c` (and a new
`rand.c`) differ from it.

| Part | State | Operations | Modules |
| --- | --- | --- | --- |
| Process life cycle (`K/proc.c`, `K/trap.c`) | `ptable`, `nextpid`, one `proc` per CPU | `allocproc fork exit wait kill sleep wakeup yield sched` | `Proc`, `ProcTree` |
| Multi-level feedback queue (`K/proc.c`) | `priority tick_remain slice_remain wait_ticks ticks[4]`, the cursor of each CPU | `scheduler getheight boostproc` | `Mlfq` |
| Spin locks (`K/spinlock.c`) | `locked`, `cpu->ncli`, `cpu->intena`, the interrupt flag | `acquire release pushcli popcli holding`, `sched` as far as it depends on them | `Spinlock` |
| Clock (`K/trap.c`, `K/sysproc.c`) | `ticks` | timer interrupt, `sys_sleep`, `sys_uptime` | `Clock` |
| Pipes (`K/pipe.c`) | ring, `nread nwrite readopen writeopen` | `pipealloc pipeclose pipewrite piperead` | `Pipe`, `PipeFifo` |
| Buffer cache (`K/bio.c`) | LRU list of buffers, `B_BUSY B_VALID B_DIRTY` | `bget bread bwrite brelse` | `Bcache`, `SectorStore` |
| Disk driver (`K/ide.c`) | `idequeue`, the device | `iderw ideintr idestart` | `Bcache` |
| Inodes, directories, paths (`K/fs.c`) | `icache`, bitmap, inodes and directories on disk | `ialloc iget ilock iput itrunc bmap readi writei dirlookup dirlink namex balloc bfree` | `FileSys`, `Blocks`, `FileStore` |
| Files (`K/file.c`, `K/sysfile.c`) | `ftable`, descriptors, working directories | `filealloc filedup fileclose fileread filewrite`, the calls on files | `FileSys`, `Blocks`, `Pipe` |
| Loading programs (`K/exec.c`) | the address space being built | `exec` | `Memory`, `FileSys` |
| Virtual memory (`vm.c` of the three kernels) | page tables | `setupkvm allocuvm deallocuvm copyuvm loaduvm freevm growproc` | `Memory`, `AddressSpaces` |
| Page protection (`part_a/kernel/vm.c`, `part_b/kernel/vm.c`) | `PTE_W` of user pages | `mprotect munprotect` | `Memory`, `AddressSpaces` |
| Page allocators (`kalloc.c` of the two memory kernels) | free list, list of allocated pages | `kalloc kfree kinit` | `Memory` |
| Console, keyboard, serial line (`K/console.c kbd.c uart.c`) | input ring `r w e` | `consoleintr consoleread` | `Console`, `Terminal` |
| Heap of user programs (`xv6 Scheduler/user/umalloc.c`) | ring of free blocks | `malloc free morecore` | `Umalloc` |
| xv6's shell and `init` (`xv6 Scheduler/user/sh.c`, `init.c`) | processes, descriptors | parser, `runcmd`, main loops | `Sh`, `CommandLine` |
| Image builder (`*/tools/mkfs.c`) | the image being written | `main add_dir ialloc iappend` | `Mkfs` |
| Checker (`File System Checker/xfsck.c`) | the image, tables built from it | one walk per rule | `Xfsck` |
| MapReduce library (`MapReduce/mapreduce.c`) | lists per mapper and reducer, locks, semaphores | `MR_Run`, emitters, iterators | `MapReduce` |
| Unix shell (`Unix shell/smash.c`) | search path, current line | built-ins, `fork`/`execv`/`waitpid` | - |
| System calls (`K/syscall.c`), boot and interrupt controllers, allocator tests, Unix utilities | | | - |

How they meet: system calls enter through `trap`; everything that waits does so
with `sleep`/`wakeup` on an address, under one spin lock handed over to
`ptable.lock`; files lead to pipes or inodes, inodes to blocks, blocks to the
buffer cache, that to the driver and its interrupt; page tables, stacks and
pipes come from `kalloc`. Images go from `mkfs` to the kernel and to the checker.

### What is hard in it

* **Concurrency.** Several CPUs run the kernel. `ptable.lock` is passed from
  process to scheduler and back across `swtch`, and a few stores of `fork` and all
  of `boostproc` are done without it. `iput` gives `icache.lock` up in the middle
  of freeing an inode. The nesting of `pushcli` is counted per CPU while
  processes change CPUs.
* **Preemption in the kernel.** The timer interrupt calls `yield` wherever no
  spin lock is held. The kernel is compiled without optimisation
  (`xv6 Scheduler/Makefile:33`), so each statement reads memory anew.
* **Partial failure.** `kalloc` may fail in the middle of `fork`, `exec`, `pipe`,
  `sbrk`; tables of files and inodes fill up; each has to undo what was done. A
  crash between two disk writes is never repaired by the kernel: no log.
* **Numbers.** Ring buffers use wrapping counters; the scheduler tests counters
  for equality and used as indices; `sys_sleep` compares unsigned with signed;
  `mprotect` adds before it compares; `malloc` passes an unsigned product to the
  `int` of `sbrk`.

### What makes each part correct

* *Process life cycle*: a kernel stack is used by one CPU and freed only when no
  CPU is on it; no wakeup of `wait` is lost; every process has a live parent;
  nothing resurrects a zombie; the table implements a plain tree of processes.
* *Feedback queue*: one CPU per process, as long as the scheduler's counting
  stays in a process's own slot; counters compared for equality are never stepped
  over; the wait at the top level is bounded; all run in the end, if few want to.
* *Spin locks*: interrupts are off just while they have to be, and on again
  afterwards, on whichever CPU; a handler never waits for what it interrupted.
* *Pipes*: what is read is a prefix of what was written; nobody sleeps on a pipe
  that has data, room, or no other end; the page is freed once.
* *Buffer cache and disk*: one buffer per sector, one owner per buffer, each
  request completed once, in order, no wakeup lost.
* *Inodes and files*: counts equal the references there are, in memory and on
  the disk; an inode or block in use is never given out; no ring of locks; what
  a call has written survives a power failure.
* *Memory*: a frame is free or used for one thing, on every path of failure; a
  process has the pages its size says; what `mprotect` says it has protected, no
  program stores to, a child's either (the kernel may, for a program).
* *Console, clock*: lines arrive as edited; sleepers wake when due.
* *Heap*: no unit lost or handed out twice.
* *Shell*: programs start in order and are wired as the line says; the prompt
  comes back, unless background jobs keep `init` from starting a new shell.
* *Checker*: what it accepts is sound, what is consistent it accepts.
* *MapReduce*: every pair emitted is reduced once; all threads end.

## 2. The modules

| Module | Models | Kind |
| --- | --- | --- |
| `ProcTree`, `PipeFifo`, `SectorStore`, `FileStore`, `AddressSpaces`, `Terminal` | what the process table, a pipe, the buffer cache, files on disk, virtual memory and the console promise | abstract specifications |
| `Proc`, `Mlfq`, `Spinlock`, `Clock`, `Pipe`, `Bcache`, `FileSys`, `Blocks`, `Memory`, `Console` | the kernel | detailed specifications |
| `Umalloc`, `Sh`, `Mkfs`, `Xfsck`, `MapReduce` | programs | detailed specifications |
| `CommandLine` | what a line of the shell means, read off the line without a parser | reference definition |
| `Proc_proofs`, `Mlfq_proofs`, `Pipe_proofs`, `Bcache_proofs`, `Blocks_proofs` | theorems about one module each | proofs |
| `FileSys_proofs`, `FileLocks_proofs`, `FileDisk_proofs` | theorems about `FileSys`, each built on the one before: references, locks and cache, the disk | proofs |
| `MCProc`, `MCMlfq`, `MCPipe`, `MCBcache`, `MCFileSys`, `MCBlocks`, `MCMapReduce` | one component each | instances |
| `MCResources`, `MCProgress`, `MCInputs` | several components side by side, and their inputs | instances |

`MCResources` and `MCProgress` instantiate several modules whose questions are
alike. `Init` chooses the part that runs, and the variables of the others stay
as they are, so that the run is the union of one run per part; a property says
`part = ... =>` of which part it speaks. Their assumptions about constants,
plain definitions in the modules, are asserted there. `Blocks` is not an instance
but extended by `MCResources`, with the disk empty while another part runs: its
properties are checked as they stand, the same that `Blocks_proofs` proves.

### Proc

One step is a stretch of kernel code no other CPU can observe in part: a
critical section of `ptable.lock`, or one unlocked store. `lock` names the CPU
that holds the lock, since the code holds it across `swtch`, and `running[c]` is
the process whose kernel stack CPU `c` is on. A process that calls `yield`,
`sleep` or `exit` takes the lock and changes its state in one step (`Yield`,
`Sleep`, `WaitSleep`, `Exit`); it leaves its stack in another (`Sched`). In between
the table says RUNNABLE, SLEEPING or ZOMBIE of a process whose stack is in use,
which is the hazard the lock is there for. `pc[s]` is where a process is in its
own code; preemption may come at every unlocked label.

`fork` is split at every unlocked store: claim a slot (`AllocProc`), get a stack
(`AllocStack`, `AllocFails`), copy (`ForkCopy`, or `ForkFails`, which forgets the
stack before `AllocFails` gives the slot back), publish (`Launch`).
`trap` is present as the label `user`: a system call begins (`Syscall`) only if the
process is not killed, and a killed process exits at its next trap
(`ExitKilled`). If `init` exits, the CPU it is on loops in `panic` for ever and the
others go on; with no process left they find nothing to run (`Halted` says that
this end is no deadlock). What a process sleeps for outside `wait` is one
channel, `DevChan`.

### Mlfq

The scheduler keeps the lock during a pass, except while a process runs, so one
step is one turn of its loop (`Skip`, `Dispatch`) or a process giving the CPU back
(`Return`: `Relegate`, `RunAgain`, `RunNext`). Outside the lock are `Launch` (the
store in `fork`) and `boostproc`, modelled one load or store at a time, with the
register it increments; its guard is `priority # TOP`, so that a process above
the top raises itself further with every call. Reads out of the bounds of
`time_slice` and `slices` yield any value of `Garbage`. The write
`p->ticks[p->priority]++` follows the layout of `struct proc` in words (`StateAt` to
`Words`, from `proc.h`): above the top it strikes `priority`, `tick_remain` or
`slice_remain` of the process itself (`Strike`, `Struck`), and from level `TOP + 4`
(7 in the code) on a word of a slot behind it, its `state` among them
(`NextState`). `passed` is a history variable: dispatches since a process waits at
the top level. Left out: the statistics `ticks[0..3]`, and `getprocinfo`, which
only reads. A ZOMBIE counts as UNUSED.

`overrun` is a history variable: the write has gone into another slot. From then
on nothing is sure: a slot that a CPU runs may become RUNNABLE again, and TLC,
asked for `OneCpuEach` without this condition, finds two CPUs in one process.
So `OneCpuEach` and `WaitBelowThreshold` are statements about the time before,
which lasts for ever if nobody calls `boostproc()` (`NoOverrun`).

Observations. The loop that ages waiting processes (`Waiting`) ends at the slot
being dispatched, so later slots do not age, although `include/pstat.h:12` calls
`wait_ticks` the "number of ticks each process has waited before being
scheduled"; and a promoted process gets the slices of the level of the process
being dispatched, not of its own new one (`Dispatch`, `proc.c:321`).

### Spinlock

A thread (a process in the kernel, or the scheduler of a CPU) has a sequence of
steps left, `code`, made of the bodies of `acquire`, `release`, `sleep`, `yield`,
`wakeup`, `scheduler` and so on; an interrupt puts `trap`'s in front. A step is an
instruction others can observe: reading the flags and switching interrupts off
are two, as are taking a lock and recording its holder. `ncli` and `intena`
belong to the CPU (`Popcli(c)`), `code` to the thread, and `sched` moves threads
between CPUs: `InterruptsMatch` says that the CPU's counts agree at every moment
with what the thread there has yet to undo. `Fails` collects the conditions of
all `panic` calls in `spinlock.c` and `sched`.

Observation. `sched` restores `intena` for the process; the scheduler, whose
`release` reads the same field, gets whatever the process left and may go on
with interrupts off, until its own `sti` at the next round. Likewise a forked
child leaves `forkret` with interrupts as its parent's CPU had them, until
`trapret` loads the flags. `InterruptsMatch` excepts just these two.

### Clock

`Tick` is the timer interrupt; `Sleep`, `Test`, `Return` are `sys_sleep` up to each
look at the counter. `Test` reads `killed` under `tickslock`, but `kill` sets it under
`ptable.lock`; so the process has then still to fall asleep (`FallAsleep`), and a
kill in between goes unnoticed until the next tick, which
`NobodyOversleeps` allows for. `slept` is a history variable. A negative argument of
`sleep` is taken as a large unsigned one (`Wanted`), which the comparison in
`sysproc.c:84` does. `Timely` is an assumption about the scheduler, marked
external: a process that is ready runs within `MAXLAG` ticks; otherwise the
counter could pass a long deadline and wrap before anybody looks.

### Pipe

`pipewrite` and `piperead` hold `p->lock` from one `sleep` to the next, so each such
stretch is one step: `WriteAll`, `WriteFull`, `ReadSome`, `ReadEmpty`. One thing in
it is visible from outside: `proc->killed` is read under `p->lock` but set under
`ptable.lock`, so a process that decides to sleep stops with the lock held
(`plock`), and `Sleep` is a step of its own. The counters are unsigned and wrap at
`WRAP`; `data` starts out with the junk `kfree` fills pages with. Closing is split
where the code drops locks: `SysClose` or `Exit` clear the descriptor, `FileClose`
drops the reference under `ftable.lock`, `PipeClose` runs under `p->lock`, `KFree`
frees the page after it is released. Of the descriptor table, only which ends a
process holds is kept; `dup` and a failing `pipealloc` add nothing to that.

Observation. A writer that gives up because it was killed, or because the last
reader left, while the ring is full returns without the `wakeup` of the readers
(`pipe.c:83-85`): `quiet` marks the bytes left behind, and `SleepersWait` has to
except them.

### Bcache

`bget` and `brelse` run under `bcache.lock`, `iderw` and `ideintr` under `idelock`, in
steps from one `sleep` to the next. Both kinds of sleep use the buffer as their
channel, and `Kill` wakes either: a woken process starts over in `bget` or tests
the flags in `iderw`. The disk is an actor (`DiskWorks`) between `idestart` and
`ideintr`, and may fail any request. The callers are what `fs.c` does: a process
holds one buffer, or a second one of a later sector, and writes a buffer it has
changed before it releases it.

Observations. `ideintr` sets `B_VALID` whatever the disk reports, although
`bio.c:19` says "the buffer data has been initialized with the associated disk
block contents"; `bad` marks the buffers concerned, which `Coherent` excepts. And
`bget` panics, holding `bcache.lock`, when all `NBUF` buffers are in use
(`BgetPanic`): with 64 processes and 10 buffers nothing in the code prevents it.

### FileSys

Inodes on disk (`disk`), the inode cache, the file table, and what each process
does in the kernel (`k[p]`: its label and its local variables, `dp`, `ip` and so
on). A step reaches from the taking of an inode's lock to the next write to the
disk, the next drop of a reference or the next lock to wait for; what it reads
in between is under locks it holds. So `namex` is one step per component
(`WalkOn` and its ends), `create`, `link` and `unlink` one per write to the disk
(`CreateAlloc`, `CreateInit`, `CreateCount`, `CreateDots`, `CreateEnter`;
`LinkCount`, `LinkEnter`, `LinkBad`; `UnlinkErase`, `UnlinkCount`, `UnlinkDone`, and
`UnlinkGivesUp` at a directory that is not empty), and
`iput` is split where `icache.lock` is dropped (`PutUnused`, `Trunc`, `FreeOnDisk`,
`Freed`). All failure paths are there: no free inode or slot, no file,
no descriptor, a wrong type, a name that exists. `Crash` loses the memory and
keeps the disk. Directories are functions from names to inode numbers; `.` is
implied.

`strayed` is a history variable: somebody has looked up the `..` of a removed
directory. All properties but `RefsExact` are those of a system where nobody has.

Observations. A removed directory keeps its `..`, and a process whose working
directory it is may walk it. When the parent has been freed too, `ilock` of a
free inode panics ("ilock: no type"). When the parent's inode has been allocated
again, the walk may reach it between `ialloc` and `nlink = 1` in `create`: with
`rmdir /a`, `mkdir /a` and, from the removed child, `mkdir ../b`, that store
overwrites a count already raised, and `DiskSound` fails. `strayed` excepts just
these runs; the counts of references in memory are exact in them too. Images
that `mkfs` makes with subdirectories have counts too low to begin with (see
*Mkfs, Xfsck*), so a member of `Starts` is a disk with counts as the kernel keeps
them.
The comment at `fs.c:350`, that `itrunc` is called when there is no in-memory
reference, does not hold: there is the one of the `iput` that calls it.

### Blocks

The layer below: what a file is in blocks. A step ends with one write to the
disk (bitmap, data, table of indirect blocks, inode), and the power may fail
after each. `balloc` is one step since the bitmap's buffer is locked meanwhile.
A block holds `BSIZE` units, or `NINDIRECT` numbers. The blocks of an inode are
numbered in the order in which `itrunc` comes to them (`Slot`): the direct ones,
those in the table, the table itself; `at` is how far it is, `Zero` and `Clear`
are the two writes of `bfree`, `Emptied` the `iupdate` at its end and `Freed` the one
in `iput`. The bitmap has `NBITS` bits for
`NBLOCKS` blocks, as `balloc` looks at all bits of a bitmap block; the run
`blocks_full` shows what follows when they differ. `FileStore`, which it
implements, knows files as sequences of data: a write replaces some of one file,
within a block, or makes it longer, `unlink` alone removes it, and nothing else
changes any, a power failure included.

### Memory, AddressSpaces

A step ends with the `kalloc` or `kfree` of one frame. `kernel` says which of the
two allocators runs: part a's list of every other frame, or part b's random
choice with its list of frames in use. `k[p]` is the path a call is on: pages to
get, pages to give back, the new table of a `fork` or `exec`. Every allocation may
fail, and the path of retreat is modelled frame by frame. A table is a function
from page numbers to frame and permission. `mprotect` is one step, with the sum
that wraps at `WORD` and its partial effect. A program's own `Store` to a protected
page does not happen; what `read`, `pipe` or `fstat` store for it does
(`KernelStore`), since the kernel never sets `CR0_WP` and its stores ignore `PTE_W`.
`AddressSpaces` is the view of programs: private memory, copied by `fork`, grown,
loaded, written to by system calls (`Deliver`), protected. `told` holds what the
last `mprotect` or `munprotect` was asked for if it answered 0; then just those
pages have changed (`Protect`), unless the range ends beyond the last address
(`Wraps`): there the code answers 0 with fewer pages changed, or none.

Observations. The two parts differ in `kalloc.c` only. `mprotect` computes
`addr + len * PGSIZE` before comparing, so a large `len` wraps and passes;
it stops at the first address without a page table having changed the pages
before it. `growproc` takes the 0 that `deallocuvm` returns for a size of 0 as a
failure, with the pages gone, and returns before `switchuvm` (the stale TLB that
leaves is not modelled). A `setupkvm` that runs out of memory forgets the
table it has begun (`lost`). Part b's `kalloc` divides by the number of free
frames, which is 0 at the end (`DivideByZero`).

### Console, Terminal

`Key` is `consoleintr` for an ordinary character, with `Backspace` and `KillLine`
beside it; `Read`, `Content`, `ReadWaits`, `ReadTakes` are `consoleread` from one
sleep to the next. As in a pipe and in `sys_sleep`, a `kill` may come between the
test of `killed` (`ReadWaits`) and the sleep (`ReadSleeps`): the reader then
stays until the next line, although it has been killed. The indices wrap at
`WRAP`. `Terminal` is a queue of finished lines and one being edited; a full ring
finishes the line.

### Umalloc

Memory counts in units of a header. `free` is one step, as is each visit of
`malloc`'s loop that ends it; `Sbrk` by others leaves gaps. Numbers of bytes are
`unsigned` and wrap at `WORD`; `Bytes` is the product that `morecore` makes of a number
of units, taken as the `int` that `sbrk` gets, and `NewBrk` what `sbrk` makes of it.

Observations. A request so large that `nbytes + sizeof(Header) - 1` wraps gets a
block of one unit, which `FreeListExact` excepts. A request of half the address
space or more is a negative number or 0 for `sbrk`, which succeeds, having shrunk
the heap or done nothing, and `morecore` enters a block that is not there:
`phantom` marks this, the model stops, and `FreeListExact` says that only such a
request leads to it.

### Sh, CommandLine

A line is a sequence of tokens. The parser of `sh.c` is a set of recursive
operators that return a tree or the message it stops with; `runcmd` turns the
tree into the sequence of system calls of a process (`PipeCode` and the rest), and
a step is one call: `fork`, `close`, `dup`, `open`, `pipe`, `wait`, `exec`. The main
loop is there, as are a failing `fork` and `open`, and so is `init`: its `wait` frees
zombies (`Adopted`) until it gets the shell's, then (`NoShell`) its `fork` makes a new
one (`Restart`) or fails (`InitFails`), at which `init` exits and the kernel
panics (`Panic`). `PanicJustified` says what that takes: something left in the
background (`Crowded`). `CommandLine` says of
each word of the line whether it is a program, when it runs and where its input
and output go, by counting parentheses (`Meaning` tabulates it); `ProgramsWired`
and `InOrder` compare.

Observations. `a > x > y` writes `y`'s output to `x`, since the redirection parsed
last is applied first; `>>` does not append; a failing `fork` in a pipe leaves the
left side running and in the main loop ends the shell; if a background job then
forks once more before `init` does, the table is full again and the kernel panics;
syntax errors are found in the child.

### Mkfs, Xfsck

`Mkfs` is an operator from a tree of names to an image, in the order in which
`mkfs.c` gives out inodes and blocks. `Xfsck` is the checker as a machine: one
step per inode, address, entry and step of a walk to the root, the first
complaint ends it. `CleanIsSound` and `ConsistentIsClean` state soundness and
consistency of an image independently, over all of it at once.

Observations on `xfsck.c`. The walk to the root ends only at the root or where it
began: parents that form a ring beyond, or a directory without `..`, make it run
for ever (`Endless`; `Ends` says that this is the only way). Not checked: the root's own `..`; the
address of the table of indirect blocks; a block used directly by one file and
through a table by another. A directory with a link count other than 1 is
refused, though the kernel's own `mkdir` increments the parent's. A pointer is
used uninitialised at line 414, one is tested before it is set at 99, and the
counters of lines 107-110 come from `malloc` and are never cleared. On `mkfs.c`:
every directory gets a link count of 1, so that the kernel's `rmdir` of a
subdirectory brings its parent's to 0; a directory that fills its blocks exactly
is sized one too many (184-188); nothing checks for a full image.

### MapReduce

One step is a stretch of a thread's code on data of its own, on a reducer's list
under its semaphore (split in two, `EmitSearch` and `EmitInsert`, so that the
semaphore matters), or one load or store of the unlocked free list (`UnlinkLoad`,
`UnlinkStore`). A value is the set of words it counts instead of its decimal
number, so that a word lost or counted twice can be told. Left out: the list of
strings to free, which is under `locker_for_value`, and `map_thread_id`: a thread
is taken to find its own index, which needs that `pthread_create` stores the id
before the thread runs (glibc does; POSIX does not promise it).

## 3. What is checked

| Run | Instance | Shows |
| --- | --- | --- |
| `proc_safety` | 2 CPUs, 3 slots, pids up to 5 | stacks apart, no lost wakeup of `wait`, live parents, zombies stay dead, `Proc` implements `ProcTree` |
| `proc_born` | 1 CPU, 2 slots | **violated**: a process is created already killed |
| `mlfq_safety` | 2 CPUs, 3 slots, 3 levels, a booster, level 0 expires | one CPU per process and an ageing count that never steps over its threshold, until a tick is counted in another slot |
| `mlfq_ceiling` | 1 CPU, a booster | **violated**: a priority above the top |
| `pipe_ring` | 2 processes, ring of 2 bytes, counters modulo 4, writes of 3 bytes, fair | nobody sleeps through its wakeup, the page outlives its users, ends close with their last descriptor, `Pipe` implements `PipeFifo`; once one end is gone, everybody at the other returns |
| `pipe_killed` | same | **violated**: a killed process falls asleep in a pipe |
| `bcache_safety` | 2 processes, 2 buffers, 3 sectors, fair | one buffer per sector, cache and disk agree, an exact request queue, no lost wakeup, `Bcache` implements `SectorStore`; every request is completed |
| `files` | 2 processes, 4 inodes, 3 slots of `icache`, 1 file, 2 descriptors | exact references, link counts right up to the calls under way, nothing in use is freed, no ring of locks, panics only when full, as long as nobody looks up `..` of a removed directory (references: always) |
| `resources` | six parts, see below | `Blocks`: the disk is sound, durable, without leaks, a `FileStore`. `Memory`: frames exact, pages match sizes, an `AddressSpaces`. `Umalloc`: the ring exact. `Console`: a `Terminal`, readers wait. `Clock`: nobody sleeps too long. `Spinlock`: interrupts match, no deadlock |
| `blocks_full` | 2 data blocks, 3 bits | **violated**: a block that the disk does not have |
| `progress` | four parts, fair | `Xfsck`: right verdicts on all families of images, and it ends or walks an endless ring. `MapReduce`: words conserved, `MR_Run` returns. `Mlfq`: bounded turns; no starvation by as many as `AgeFactor` others. `Sh`: programs wired and in order, the prompt comes back or `init` has panicked for want of a slot |
| `mapreduce_free` | 2 mappers, 1 reducer | **violated**: a node is lost from the list of nodes to free |

Bounds. *Proc*: three slots are init, a child and a grandchild, the least that
has orphans; two CPUs are the least that has races; pids up to 5 let every slot
be reused. `MAXPID` bounds `nextpid` in the guard of `AllocProc`.

*Mlfq*: the tables shrink from `{64,4,2,1}`/`{8000000,32,16,8}` to three levels
that still decrease towards the top; `AgeFactor` (10 in the code) is 1 or 2 so
that promotion happens; `WAITCAP` saturates the waiting count above every
threshold; passed counts saturate at `MAXPASS + 1`; `Level0Expires = FALSE` pins the
level-0 slice, which in the code takes 8 000 000 dispatches to use up;
out-of-bounds reads give 1. The model has no highest level. `MAXPRIO`, of `MCMlfq`,
and `BeforeOverrun` bound what TLC looks at (`CONSTRAINT Bounded`): states with a
higher level, or in which another slot has been overwritten, are checked but
not followed. `MAXPRIO = 9` in `mlfq_safety` is above `TOP + 4 = 6`, from where on
ticks are counted in the next slot; 4 is enough to see the violation in
`mlfq_ceiling`.

*Starvation.* The turns of `progress` have one CPU, three slots, `AgeFactor = 1`
and no `boostproc`, and levels that expire but the lowest. `NoStarvation`
assumes that from some time on never more than one other process, as many as
`AgeFactor`, wants the CPU. The assumption is tight: with both others it fails in this
instance, and with four slots and `AgeFactor = 2` two others do no harm and three
do (TLC finds it: a process is promoted just when another has used its slice, and
the scan goes on behind the first again, so that a later slot neither
runs nor ages). So starvation is real in the code: with its factor of 10 and 64
slots, the same pattern takes twelve processes at one level that never sleep, one
of which starves. The repository nowhere says that this cannot happen.

*Pipe*: two processes are enough for a reader and a writer, or two of a kind,
with `fork` and `exit` in between; a ring of two bytes has a middle, counters
modulo 4 wrap whenever the ring is gone round twice, and writes longer than the
ring block half way. *Bcache*: three sectors in two buffers force recycling while
another process waits; each process may hold both buffers, which includes the
panic.

*FileSys*: three slots of `icache` for four inodes make `iget` fail; one file and
two descriptors make both tables fill up; two calls (`MAXCALLS`), of which one
that a power failure ends is not counted, and one power failure (`MAXCRASH`),
none from the start with a removed directory. A run starts on one of four
disks: empty, with a file in a directory, with a directory in a directory, and
with a process in a removed directory; so the calls meet what longer sequences
would have built. The requests include paths from the root and from the working
directory, and both orders in which `link` and `unlink` meet.

*Blocks*: files with one direct block and two in the table, four blocks on the
disk, so that two files do not both fit; five calls, one power failure. *Memory*:
21 frames let a first process and two more have one page each in part a, which
uses every other frame, 8 do in part b, so every allocation fails some time; three
calls; `mprotect` is asked for two pages, or for so many that the end wraps.
*Umalloc*: ten units of 2 bytes, addresses of 32 (`WORD`),
requests of 1, 3 and 9 bytes that split, fill and exceed, of 15 and 29 that are
0 or negative for `sbrk`, and of 31 that overflows.
*Console*: a ring of 2 with indices modulo 4. *Clock*: a counter modulo 8, sleeps
of 0, 3 and -2. *Spinlock*: two CPUs, of which one counts ticks, two processes,
two locks.

*Xfsck*: images of four inodes, two of them below a root with two names, each
free, a file or a directory with any parent and any entry (`Trees`), two files
whose blocks collide in every way (`Layouts`), and what `mkfs` makes of trees of up
to two levels and two things at a level (`Made`). *Sh*: all lines of one or two
tokens, those of three that begin with a program or a parenthesis, and longer
ones with pipes in pipes, parentheses and background jobs; one line (`Deep`) fills
the table of seven slots so that the shell ends and `init` may panic. *MapReduce*: one of
three mappers gets two files, both keys occur in several files, each reducer gets
a key.

Runs that end with every process gone, a panic or a program's end stop, so
deadlock is not checked there; what must go on is a liveness property instead.

Fairness. *Pipe* (`FairSpec`): a process in the kernel that can go on does
(`Kernel(p)`), which is what the scheduler gives; user programs may do nothing for
ever. *Bcache*: the same, and the disk carries out its request and interrupts; a
process may keep a buffer for ever, so `RequestsDone` is about requests only.
*progress* (`PartsProgress`): the checker, a single process, goes on; of the threads
of `MR_Run` some thread that can go on does; the CPU keeps running its scheduler
and the timer interrupt comes (with one CPU nothing can take the lock from under
it, so weak fairness is what the hardware gives); some process of the shell that
can make its call does. Nothing is assumed of individual threads there: the
properties say that the whole comes to its end.

## 4. Findings

Five runs show a disagreement between the code and what it says of itself; each
quotes the line in `PROJECT.json`. `proc_born`: `allocproc` does not clear `killed`.
`mlfq_ceiling`: `boostproc` tests and increments unlocked. `pipe_killed`: `killed` is
tested under another lock than it is set under. `mapreduce_free`: the unlocked
free list. `blocks_full`: `balloc` looks beyond the end of the disk. The
observations in section 2 are what reading and modelling showed besides.

## 5. What is proved

`Proc_proofs`, for every number of CPUs and slots and every bound on pids, from
`CpuAssumption` (the free lock is no CPU) and `SizeAssumption`:

* `TypeCorrect`: type correctness.
* `Inductive`: the invariant `IInv`, the conjunction of `CpuInv` (a CPU on the stack
  of a process that is not RUNNING holds the lock; a RUNNING process is on a
  CPU), `ForkInv` (each slot under construction belongs to one `fork` and shows
  how far that has come), `SlotInv`, `FamilyInv`, `PidInv` and `NoLostWakeup`. None of
  the properties is inductive alone: that a freed stack is not in use needs who
  is on which stack, that orphans have a parent needs that nobody but its
  builder touches a child under construction, that pids are unique needs that
  they grow.
* `StackSafety`, `WaitSafety`, `OrphanSafety`, `PidSafety`, `StackAccounting`: the safety
  properties, each implied by `IInv`.
* `ZombieSafety`: the action property, from `IInv` and the one step that frees.
* `TreeImplemented`: `Proc` implements `ProcTree`; `Launch` is a `Spawn`, `Exit` a `Die`,
  `Reap` a `Collect`, all other steps stutter.

The proofs use of the slot numbers only that the null pointer is none of them
(`SlotFacts`). Each conjunct has a lemma with one step per action.

`Mlfq_proofs`, for every number of CPUs, slots and levels, any tables and any
outcome of reads outside them, with every process free to call `boostproc()` at
any moment and to rise to any level, from `SizeAssumption` and `TableAssumption`
(every table entry is positive; `WAITCAP` lies beyond every threshold). The
inductive invariant is `TypeOK /\ CursorInv /\ Claims`. `CursorInv` (a CPU that runs a
process has its cursor on it; without it `p++` on the way back could leave the
table) holds always. `Claims` is about the time before `overrun` (`NoClaims`: after it
there is nothing to prove): `OneCpuEach`, `WaitBelowThreshold`, `RunningLevel` (a
RUNNING process is at level 0 or above,
as `getheight()` starts from 0; so relegation never goes below -1, where a process
stays unchosen for good) and `WaitInv` (only RUNNABLE processes have waited; so a
process that starts to wait starts from 0, whatever level it got meanwhile). What
the layout of `struct proc` says comes in by two lemmas: the places of its fields
are within a slot (`WordFacts`), and a tick counted in the process's own slot
strikes no other (`StrikeFacts`). `TypeCorrect`, `MutualExclusion` and
`PromotionDue` follow. `NoOverrun`: if no process calls `boostproc()`, `overrun` stays
false, so that the three hold without a condition; its invariant `LevelsInv` is
that no level exceeds the top, which relegation and promotion keep.

`Pipe_proofs`, for any finite set of processes, any ring size, any counter width
that is a larger multiple of it, and any set of writes, from `ProcAssumption`,
`RingAssumption` and `WritesAssumption`. The inductive invariant
`IInv` has four layers, each proved preserved with the help of those before it:

* `Types`: everything but the ring's contents.
* `Shared`: `RefInv` (the counts of the two files are the numbers of descriptors),
  `CallInv` (who reads or writes has a descriptor; who is about to sleep holds
  `p->lock`) and `CloseInv` (an end is open while there are descriptors of it and
  until the one process that dropped the last has closed it; one process frees
  the page). Without it nothing would keep a reader from a page that is free.
* `RingType`: the ring holds `(nwrite - nread) % WRAP <= PIPESIZE` bytes, none junk.
  The arithmetic (`DivMod` to `IndexDistinct`) shows that different places among at
  most `PIPESIZE` have different indices although counters wrap.
* `SleepInv`: who sleeps has something to wait for. It is `SleepersWait` extended to
  those about to sleep, and needs `quiet` for the bytes of a writer that gave up.

`TypeCorrect`, `SleepSafety`, `PageSafety`, `HangupSafety` follow, and `FifoImplemented`:
a write is a `Put` of a prefix of what is left, a read a `Take`, opening and closing
follow the descriptors, all other steps stutter.

`Bcache_proofs`, for any processes, buffers, sectors and contents, from
`SizeAssumption`. None of the properties is inductive alone; the invariant adds

* `Local` (a process that holds or waits for a buffer is at one, and its two
  buffers differ) and `OneOwner` (`B_BUSY` says that exactly one process has the
  buffer), for which every step is shown to leave the buffers where they are, to
  take one (`bget`) or to give one back (`brelse`): `StepKinds`;
* `FlagInv` (a dirty buffer is in use and has a sector) and `DoneInv` (a process
  that has come out of `bread` or `bwrite` has a buffer that is done, one about to
  call `iderw` has not): so a buffer just queued was not in the queue, and the
  one recycled or written is never the one the disk works on;
* `DataInv` (buffers agree with the disk, and the disk has done what it is about
  to report), of which `Coherent` is a consequence.

`TypeCorrect`, `SectorSafety`, `OwnerSafety`, `QueueSafety`, `BufferSafety` and
`CacheCoherent` follow, and `StoreImplemented`: `bget` is `Lock`, `brelse` is `Unlock`, the
disk's work on a dirty buffer is `Write`, all other steps stutter.

For `FileSys` the theorems hold for any finite set of processes, any sizes of the
tables, any finite set of names (a name is at most 14 bytes), any calls and any
number of power failures, from `ProcAssumption`, `NumberAssumption`,
`NameAssumption`, `RequestAssumption` and `StartAssumption` (a run starts on a sound
disk, with directories for current directories). The invariant has three layers,
a module each.

* `FileSys_proofs`: `RefsInv`, true in every run. `FramesOK` says for each label
  which variables of a call are pointers; with `ProcsOK` (who has a current
  directory and descriptors) and `FilesOK` it makes every step a change of one
  or two pointers, so that the sums `InodeRefs` and `FileRefs` change by what the
  slot's count does. `FileSysRefs`, and `FileSysRefsExact`.
* `FileLocks_proofs`: `LocksInv`, true in every run. `LocksOK` says for each label
  which inodes the call has locked, and that they differ; `CacheOK` that what the
  cache has read is what the disk says, unless `iput` has just freed it;
  `FreeingOK` that what is being freed has no link. They need each other: a slot
  that is changed is locked by who changes it, and who frees an inode has the
  only reference to it (from `RefsInv`). `FileSysLocks`.
* `FileDisk_proofs`: `DiskInv`, which adds, unless `strayed`:
  `CountsOK` (a link count is at least the entries, the `..` of subdirectories and
  the root's own link, plus what calls on their way have counted and not yet
  written, or erased and not yet discounted: `Owes`), so that a step of `create`,
  `link` or `unlink` moves a unit from what is owed to what is named or back;
  `FreeOK` (free inodes have no links); `TreeOK` (the `..` of a directory is the one
  that names it); `DepthOK` (some function to the natural numbers grows from
  directory to subdirectory: no rings); `AliveOK` (what a file, a process or a call
  uses is not free and nobody frees it); `CallOK` (an inode just allocated is
  nobody else's, empty and unlinked; the entry that `unlink` has found is still
  there); `PanicOK`. That `rmdir` does not free what is in use needs `AliveOK`, which
  needs `CountsOK` (what a lookup finds has a link), which needs `CallOK` (`nlink = 1`
  overwrites nothing), which needs `AliveOK` and the locks.
  `FileSysDisk`, and the properties `FileSysDiskSound`, `FileSysUsedStay`,
  `FileSysPanics` and `FileSysNoLockCycle`. For the last: in a circle everybody holds
  something and waits, so everybody is in `create` (waiting for an inode that
  nobody else knows, which is no circle) or in `unlink`, with a directory locked
  and waiting for what it names, one level deeper. A circle would go down for
  ever, against `DepthOK`.

`Blocks_proofs`, for any processes, inodes and open files, any sizes of disk,
block and table, any lengths of reads and writes, and any number of power
failures, from `BlocksAssumption`: `SizeAssumption`, `DataAssumption` (what
processes write is told from block numbers) and `NameAssumption` (the null pointer
is no name). It holds with a full disk, too, and with more bits than blocks. `Inv`
has four parts:

* `Typed`: the types.
* `CallsOK`: for each label what the call has (`CallOK`), who holds which lock, and
  how an inode on the disk may differ from the one in memory (`InodeOK`: by block
  numbers that are not written yet, and by nothing else, as the size is written
  at once).
* `BlocksOK`: `Has(i, n, b)` says that somebody can still come to inode `i` (it has
  a link, is open or is locked) and that its slot `n` has block `b` and `itrunc` has
  not got beyond it. `OwnOK`: what is had is marked and had once, what `bmap` is
  about to enter nobody has, free blocks are zero (or a new table would hold
  somebody's data for block numbers). `CursorOK`: `bfree` has zeroed the block that
  it is about to free. A step of `p` is shown to be about one inode, `i` (`Only`), and
  to write to no block that another has (`Frame`), so that nobody else's blocks
  change (`HasOthers`); a quiet step changes no block at all (`QuietStep`).
* `DataOK`: there is a block wherever the size on the disk says so (`Sized`); memory
  is ahead of the disk only within a `write` that will make the file longer
  (`Ahead`: else the last `iupdate` is left out and a block number is lost); what a
  `write` has written so far and what a `read` has got so far are in the file
  (`Filled`, `Got`). That `Sized` stays needs that blocks are written before the
  size, which is `Filled` at the end of `writei`.

`Invariance`; from it `SoundOnDisk` (`BlocksSound`), `DurableInodes` and
`ReadsTheFile` (together `DurableFiles`: `Durable`) and `NoBlockFreedTwice`.
`NoBlockLost` (`NoLeak`) adds `LeakOK`: while the power lasts, an inode that
nobody can come to is free, and a marked block is had or about to be.
`StoreImplemented`: `WriteBlock` is an `Overwrite` of what is within the size on the
disk, and none if it is all beyond; `WriteDone` of a file grown longer is an
`Extend`; `Unlink` is a `Remove`; `itrunc` works on files that are not there any more;
all other steps stutter, and a power failure too. The file that a step is not
about keeps its blocks and the data in them (`OtherFiles`).

The first version of the model built the list of blocks to free when `itrunc`
begins; it now goes from slot to slot as the code does, which is closer and is
what made it possible to say which blocks are still had in between.

Only model-checked: every liveness property and everything of `ENABLED` (out of
the prover's reach), `BudgetPositive` and `TopWaitBounded` of `Mlfq`, the properties
of the runs `resources` (but those of `Blocks`) and `progress`, and the modules
without a proof module.
`Sh`, `CommandLine` and `Mkfs` use recursive operators, which the provers cannot
take; what they compute is checked over bounded inputs.

## 6. Not modelled

The map names about an eighth of the repository's lines of C, less than the part
of the repository's logic that is modelled, for three reasons: the kernel is
there three times, and the modules cite one copy (`K`, or part a for memory);
`usertests.c`, three times, and the other tests are inputs to a kernel, not parts
of it; drivers, tables and start-up code write to registers.

* *System calls* (`syscall.c`): fetching arguments is comparing addresses with
  the size of the process; the rest is a table.
* *Boot, interrupt controllers, `mp.c`, `lapic.c`, assembly*: device registers, with
  no state of the kernel's own.
* *Console output, keyboard tables, serial line*: data and output.
* *`fstat`, `getprocinfo`, `dump_allocated`, `procdump`*: copies for the user.
* *Memory of the first kernel*: `K/kalloc.c` is the plain list, of which part a's is
  a variant; `K/vm.c` lacks protection.
* *Schedulers of the memory kernels*: round robin, the original of `Mlfq`'s.
* *Heap allocator*: only tests; the allocator is not in the repository.
* *Unix utilities* (`wis-grep`, `wis-tar`, `wis-untar`): sequential input and output.
  Reading showed that `wis-tar` stores what `fgetc` returns in a `char`, so that a byte
  255 ends the contents early while the header keeps the file's size.
* *Unix shell* (`smash.c`): one process and one line at a time; the parser is text,
  and a command is a `fork` and a `waitpid`. Reading showed that a command is run
  once for each directory of the path that has it, that commands joined by `&`
  run one after the other, that after a failing `execv` the child goes on as a
  second shell on the same input, that end of input is not noticed, and that
  `a & cd x` looks for a program named `cd`.

## 7. Plan

Done: all modules of section 2, the proofs of section 5. What could follow:
proofs for `Spinlock` (`InterruptsMatch`), `Memory` (`FramesExact`),
`Console` and `Clock`; `TopWaitBounded` of `Mlfq`; the two memory kernels' `exec` with
more than one segment; `smash` as a machine.
