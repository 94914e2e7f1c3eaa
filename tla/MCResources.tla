---------------------------- MODULE MCResources ----------------------------
(***************************************************************************)
(* What is handed out, and what is waited for, one part at a time: disk    *)
(* blocks, frames of memory, the heap, the console's lines, the clock's    *)
(* ticks and the spin locks.  InitPart chooses the part; what belongs to   *)
(* the others alone stays as it is, and the disk empty.                    *)
(***************************************************************************)
EXTENDS Blocks, TLC

CONSTANTS p1, p2, p3        \* processes

\* Each process writes data of its own to the disk.
Own(p) == p

VARIABLES
  part,
  \* Memory
  kernel, freelist, alloc_list, mem, parent, sz, kstack, vm, lost,
  callers, stopped, made,
  \* Umalloc
  freep, ptr, size, brk, allocated, sizes, others, request, phantom,
  \* Console
  buf, r, w, e, left, taken, got,
  \* Clock
  ticks, ticks0, n, slept,
  \* Spinlock
  fl, ncli, intena, on, locked, cpu, code,
  \* Console and Clock
  pc, killed,
  \* Memory and Spinlock
  state

memoryVars == <<kernel, freelist, alloc_list, mem, parent, sz, kstack, vm,
                lost, callers, stopped, made>>
umallocVars == <<freep, ptr, size, brk, allocated, sizes, others, request,
                 phantom>>
consoleVars == <<buf, r, w, e, left, taken, got>>
clockVars == <<ticks, ticks0, n, slept>>
spinVars == <<fl, ncli, intena, on, locked, cpu, code>>
userVars == <<pc, killed>>
partVars == <<part, vars, memoryVars, umallocVars, consoleVars, clockVars,
              spinVars, userVars, state>>

\* Two processes besides the first fit in part a, with a page each.
Frames == INSTANCE Memory WITH
  Kernels <- {"a", "b"}, Procs <- {p1, p2, p3}, First <- p1,
  FRAMES <- [a |-> 21, b |-> 8], TABLES <- 1, PGSIZE <- 2, USERTOP <- 6,
  WORD <- 16, Programs <- {3}, Increments <- {3, -4}, Lengths <- {2, 8},
  MAXCALLS <- 3, k <- callers, panicked <- stopped, calls <- made
Symmetry == Permutations({p2, p3})

Heap == INSTANCE Umalloc WITH
  NU <- 4, HDR <- 2, WORD <- 32, LIMIT <- 10,
  Requests <- {1, 3, 9, 15, 29, 31}, Gaps <- {1}
Keyboard == INSTANCE Console WITH
  Procs <- {p2, p3}, Keys <- {"x", "CR", "^D"}, INPUT_BUF <- 2, WRAP <- 4,
  Sizes <- {1, 3}
Timer == INSTANCE Clock WITH
  Procs <- {p2, p3}, WRAP <- 8, Sleeps <- {0, 3, -2}, MAXLAG <- 1
Cores == INSTANCE Spinlock WITH
  CPUS <- {"c0", "c1"}, Boot <- "c0", Procs <- {p2, p3}

ASSUME MemoryAssumption ==
  Frames!KernelAssumption /\ Frames!ProcsAssumption /\ Frames!SizesAssumption
ASSUME InputAssumption == Keyboard!RingAssumption /\ Timer!SleepAssumption
ASSUME CoresAssumption == Cores!CpuAssumption

Off == 0
NoMemory ==
  /\ kernel = Off /\ freelist = Off /\ alloc_list = Off /\ mem = Off
  /\ parent = Off /\ sz = Off /\ kstack = Off /\ vm = Off
  /\ lost = Off /\ callers = Off /\ stopped = Off /\ made = Off
NoUmalloc ==
  /\ freep = Off /\ ptr = Off /\ size = Off /\ brk = Off /\ allocated = Off
  /\ sizes = Off /\ others = Off /\ request = Off /\ phantom = Off
NoConsole ==
  /\ buf = Off /\ r = Off /\ w = Off /\ e = Off /\ left = Off /\ taken = Off
  /\ got = Off
NoClock ==
  /\ ticks = Off /\ ticks0 = Off /\ n = Off /\ slept = Off
NoSpin ==
  /\ fl = Off /\ ncli = Off /\ intena = Off /\ on = Off /\ locked = Off
  /\ cpu = Off /\ code = Off
NoUsers ==
  /\ pc = Off /\ killed = Off
NoState == state = Off

Parts ==
  \/ /\ part = "blocks"
     /\ NoMemory /\ NoUmalloc /\ NoConsole /\ NoClock /\ NoSpin /\ NoUsers
     /\ NoState
  \/ /\ part = "memory" /\ Frames!Init
     /\ NoUmalloc /\ NoConsole /\ NoClock /\ NoSpin /\ NoUsers
  \/ /\ part = "umalloc" /\ Heap!Init
     /\ NoMemory /\ NoConsole /\ NoClock /\ NoSpin /\ NoUsers /\ NoState
  \/ /\ part = "console" /\ Keyboard!Init
     /\ NoMemory /\ NoUmalloc /\ NoClock /\ NoSpin /\ NoState
  \/ /\ part = "clock" /\ Timer!Init
     /\ NoMemory /\ NoUmalloc /\ NoConsole /\ NoSpin /\ NoState
  \/ /\ part = "spin" /\ Cores!Init
     /\ NoMemory /\ NoUmalloc /\ NoConsole /\ NoClock /\ NoUsers
InitPart == Init /\ Parts

BlocksNext ==
  /\ part = "blocks" /\ Next
  /\ UNCHANGED <<part, memoryVars, umallocVars, consoleVars, clockVars,
                 spinVars, userVars, state>>
MemoryNext ==
  /\ part = "memory" /\ Frames!Next
  /\ UNCHANGED <<part, vars, umallocVars, consoleVars, clockVars, spinVars,
                 userVars>>
UmallocNext ==
  /\ part = "umalloc" /\ Heap!Next
  /\ UNCHANGED <<part, vars, memoryVars, consoleVars, clockVars, spinVars,
                 userVars, state>>
ConsoleNext ==
  /\ part = "console" /\ Keyboard!Next
  /\ UNCHANGED <<part, vars, memoryVars, umallocVars, clockVars, spinVars, state>>
ClockNext ==
  /\ part = "clock" /\ Timer!Next
  /\ UNCHANGED <<part, vars, memoryVars, umallocVars, consoleVars, spinVars,
                 state>>
SpinNext ==
  /\ part = "spin" /\ Cores!Next
  /\ UNCHANGED <<part, vars, memoryVars, umallocVars, consoleVars, clockVars,
                 userVars>>

NextPart ==
  \/ BlocksNext \/ MemoryNext \/ UmallocNext
  \/ ConsoleNext \/ ClockNext \/ SpinNext
SpecPart == InitPart /\ [][NextPart]_partVars

-----------------------------------------------------------------------------
(* BlocksSound, Durable, NoLeak and ImplementsStore are those of Blocks.   *)

(* Every frame is free or used for one thing (kalloc.c and its callers).   *)
FramesExact == part = "memory" => Frames!FramesExact

(* A process has the pages that its size says (vm.c, proc.c, exec.c).      *)
PagesMatchSize == part = "memory" => Frames!PagesMatchSize

(* Processes see AddressSpaces (vm.c, exec.c, sysproc.c).                  *)
ImplementsSpaces ==
  /\ part = "memory" => Frames!Abstract!Init
  /\ [][part = "memory" =>
         UNCHANGED Frames!Abstract!vars \/ Frames!Abstract!Next
       ]_(Frames!Abstract!vars)

(* The ring of free blocks is in order, and the heap has no unit twice or  *)
(* lost, after any calls (umalloc.c).                                      *)
FreeListExact == part = "umalloc" => Heap!FreeListExact

(* A process that sleeps for a line or for the clock has something to wait *)
(* for, and, unless it is killed, wakes up on time (console.c, sysproc.c). *)
NobodyOversleeps ==
  /\ part = "console" => Keyboard!ReadersWait
  /\ part = "clock" => Timer!SleepsExactly

(* Interrupts are off just while they have to be, no panic of the locks is *)
(* reached and they never all wait (spinlock.c, proc.c, callers.c).           *)
LocksSound ==
  part = "spin" => Cores!InterruptsMatch /\ Cores!SomebodyRuns

(* The console implements a Terminal (console.c).                          *)
ImplementsTerminal ==
  /\ part = "console" => Keyboard!Abstract!Init
  /\ [][part = "console" => Keyboard!Abstract!Next]_(Keyboard!Abstract!vars)

=============================================================================
