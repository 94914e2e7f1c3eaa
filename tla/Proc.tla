-------------------------------- MODULE Proc --------------------------------
(***************************************************************************)
(* The life of a process in xv6 (kernel/proc.c, kernel/trap.c): the        *)
(* process table, the CPUs that execute it and ptable.lock.                *)
(*                                                                         *)
(* A step is a stretch of kernel code that no other CPU can observe in     *)
(* part: a critical section of ptable.lock, or one unlocked store.  The    *)
(* lock may be held across swtch(), by the CPU and not by the process, so  *)
(* "lock" names a CPU, and a process that has just been resumed holds it.  *)
(*                                                                         *)
(* Which RUNNABLE process the scheduler takes is left open here (the       *)
(* multi-level queue is module Mlfq), as is what a process sleeps for      *)
(* outside wait(): DevChan stands for every channel of a driver or pipe.   *)
(***************************************************************************)
EXTENDS Integers, FiniteSets

CONSTANTS
  CPUS,            \* the processors that run scheduler()
  NPROC,           \* number of slots of ptable.proc
  MAXPID,          \* bound: pids are handed out up to this one
  NoCpu            \* ptable.lock is free

ASSUME CpuAssumption == NoCpu \notin CPUS
ASSUME SizeAssumption == NPROC \in Nat \ {0} /\ MAXPID \in Nat \ {0}

Slots == 1..NPROC
NoSlot == 0                       \* a null struct proc pointer
Init0 == 1                        \* initproc: the first slot allocproc finds
DevChan == NPROC + 1              \* any sleep channel that is not a process
States == {"UNUSED", "EMBRYO", "SLEEPING", "RUNNABLE", "RUNNING", "ZOMBIE"}

(***************************************************************************)
(* Where a process is in its own code.  "user" is user code, up to the     *)
(* check of killed in trap(); "kernel" is a system call past that check,   *)
(* whatever it does that is not named here; those of Building are the      *)
(* unlocked stretches of fork(); "exit" is exit() before it takes          *)
(* ptable.lock, "dead" after its sched(); "waiting" follows the sleep() of *)
(* wait(); "panic" is the end of panic(), with interrupts off.             *)
(***************************************************************************)
Building == {"alloc", "copy", "unfork", "launch"}
Unlocked == Building \cup {"user", "kernel", "exit"}
Labels == Unlocked \cup {"waiting", "dead", "panic"}

VARIABLES
  lock,            \* the CPU that holds ptable.lock, or NoCpu
  running,         \* running[c]: whose kernel stack c is on; NoSlot: scheduler
  state, pid, parent, chan, killed, kstack,    \* struct proc, by slot
  pc,              \* pc[s]: label of the code s executes or will resume at
  child,           \* child[s]: np of the fork() in progress in s
  nextpid

cpuVars == <<lock, running>>
idVars == <<pid, nextpid>>
vars == <<lock, running, state, pid, parent, chan, killed, kstack, pc, child,
          nextpid>>

-----------------------------------------------------------------------------
IsFirst(s, S) == s \in S /\ \A t \in S : s <= t

InState(st) == {s \in Slots : state[s] = st}
Children(p) == {s \in Slots : parent[s] = p}

\* The process c executes, on its own stack and without ptable.lock.
Runs(c, p, l) ==
  /\ p = running[c] /\ p # NoSlot
  /\ state[p] = "RUNNING" /\ pc[p] = l /\ lock # c

Goto(p, l) == pc' = [pc EXCEPT ![p] = l]

\* wakeup1(): the table of states after waking the sleepers of some channels.
Woken(chans) ==
  [s \in Slots |-> IF state[s] = "SLEEPING" /\ chan[s] \in chans
                   THEN "RUNNABLE" ELSE state[s]]

-----------------------------------------------------------------------------
(* State after userinit(): initproc is RUNNABLE, every CPU schedules.      *)
Init ==
  /\ lock = NoCpu
  /\ running = [c \in CPUS |-> NoSlot]
  /\ state = [s \in Slots |-> IF s = Init0 THEN "RUNNABLE" ELSE "UNUSED"]
  /\ pid = [s \in Slots |-> IF s = Init0 THEN 1 ELSE 0]
  /\ parent = [s \in Slots |-> NoSlot]
  /\ chan = [s \in Slots |-> NoSlot]
  /\ killed = [s \in Slots |-> FALSE]
  /\ kstack = [s \in Slots |-> s = Init0]
  /\ pc = [s \in Slots |-> "user"]
  /\ child = [s \in Slots |-> NoSlot]
  /\ nextpid = 2

-----------------------------------------------------------------------------
(* scheduler() on CPU c.                                                   *)

SchedAcquire(c) ==
  /\ running[c] = NoSlot /\ lock = NoCpu
  /\ lock' = c
  /\ UNCHANGED <<running, state, parent, chan, killed, kstack, pc, child,
                 idVars>>

\* proc = p; p->state = RUNNING; swtch(): c keeps the lock for p to release.
Dispatch(c, p) ==
  /\ running[c] = NoSlot /\ lock = c /\ state[p] = "RUNNABLE"
  /\ state' = [state EXCEPT ![p] = "RUNNING"]
  /\ running' = [running EXCEPT ![c] = p]
  /\ UNCHANGED <<lock, parent, chan, killed, kstack, pc, child, idVars>>

\* The end of a pass over the table.
SchedRelease(c) ==
  /\ running[c] = NoSlot /\ lock = c
  /\ lock' = NoCpu
  /\ UNCHANGED <<running, state, parent, chan, killed, kstack, pc, child,
                 idVars>>

(***************************************************************************)
(* sched(): the process, no longer RUNNING, leaves its stack for the       *)
(* scheduler's.  Until this step the CPU is still on the stack of a        *)
(* process that others would take for SLEEPING, RUNNABLE or ZOMBIE, were   *)
(* it not for the lock.                                                    *)
(***************************************************************************)
Sched(c) ==
  /\ running[c] # NoSlot /\ lock = c /\ state[running[c]] # "RUNNING"
  /\ running' = [running EXCEPT ![c] = NoSlot]
  /\ UNCHANGED <<lock, state, parent, chan, killed, kstack, pc, child, idVars>>

\* Back from swtch() in yield() or forkret(), or in sleep() with another
\* lock than ptable.lock: tidy up and release.
Resume(c) ==
  LET p == running[c] IN
  /\ p # NoSlot /\ lock = c /\ state[p] = "RUNNING" /\ pc[p] # "waiting"
  /\ lock' = NoCpu
  /\ chan' = [chan EXCEPT ![p] = NoSlot]
  /\ UNCHANGED <<running, state, parent, killed, kstack, pc, child, idVars>>

(***************************************************************************)
(* yield() from the timer trap.  Interrupts are on wherever no spinlock is *)
(* held, so it may come between any two unlocked steps of a system call.   *)
(* A process killed in user code mostly exits instead (ExitKilled), but    *)
(* the kill() may also come after trap() has looked.                       *)
(***************************************************************************)
Yield(c) ==
  LET p == running[c] IN
  /\ \E l \in Unlocked : Runs(c, p, l)
  /\ lock = NoCpu /\ lock' = c
  /\ state' = [state EXCEPT ![p] = "RUNNABLE"]
  /\ UNCHANGED <<running, parent, chan, killed, kstack, pc, child, idVars>>
-----------------------------------------------------------------------------
(* fork(), in the order of its unlocked steps.                             *)

\* allocproc(): the critical section that claims a slot, or returns 0.
AllocProc(c) ==
  LET p == running[c] IN
  /\ Runs(c, p, "kernel") /\ lock = NoCpu /\ nextpid <= MAXPID
  /\ \E np \in InState("UNUSED") :
        /\ IsFirst(np, InState("UNUSED"))
        /\ state' = [state EXCEPT ![np] = "EMBRYO"]
        /\ pid' = [pid EXCEPT ![np] = nextpid]
        /\ child' = [child EXCEPT ![p] = np]
  /\ nextpid' = nextpid + 1
  /\ Goto(p, "alloc")
  /\ UNCHANGED <<cpuVars, parent, chan, killed, kstack>>

\* allocproc(): kalloc() of the kernel stack, and the context at forkret.
AllocStack(c) ==
  LET p == running[c] np == child[p] IN
  /\ Runs(c, p, "alloc")
  /\ kstack' = [kstack EXCEPT ![np] = TRUE]
  /\ pc' = [pc EXCEPT ![p] = "copy", ![np] = "user"]
  /\ UNCHANGED <<cpuVars, state, parent, chan, killed, child, idVars>>

\* No page for the stack, or copyuvm() has failed and the stack is gone: the
\* slot is given back, outside the lock.
AllocFails(c) ==
  LET p == running[c] np == child[p] IN
  /\ Runs(c, p, "alloc") \/ Runs(c, p, "unfork")
  /\ state' = [state EXCEPT ![np] = "UNUSED"]
  /\ child' = [child EXCEPT ![p] = NoSlot]
  /\ Goto(p, "user")
  /\ UNCHANGED <<cpuVars, parent, chan, killed, kstack, idVars>>

\* copyuvm() succeeds: the child learns its parent and copies its files.
ForkCopy(c) ==
  LET p == running[c] np == child[p] IN
  /\ Runs(c, p, "copy")
  /\ parent' = [parent EXCEPT ![np] = p]
  /\ Goto(p, "launch")
  /\ UNCHANGED <<cpuVars, state, chan, killed, kstack, child, idVars>>

\* copyuvm() runs out of pages: first the stack goes.
ForkFails(c) ==
  LET p == running[c] np == child[p] IN
  /\ Runs(c, p, "copy")
  /\ kstack' = [kstack EXCEPT ![np] = FALSE]
  /\ Goto(p, "unfork")
  /\ UNCHANGED <<cpuVars, state, parent, chan, killed, child, idVars>>

\* np->state = RUNNABLE, outside the lock: any CPU may take the child now.
Launch(c) ==
  LET p == running[c] np == child[p] IN
  /\ Runs(c, p, "launch")
  /\ state' = [state EXCEPT ![np] = "RUNNABLE"]
  /\ child' = [child EXCEPT ![p] = NoSlot]
  /\ Goto(p, "user")
  /\ UNCHANGED <<cpuVars, parent, chan, killed, kstack, idVars>>

-----------------------------------------------------------------------------
(* exit() and wait().                                                      *)

\* The exit system call: files are closed before the lock is taken.
ExitCall(c) ==
  LET p == running[c] IN
  /\ Runs(c, p, "kernel")
  /\ Goto(p, "exit")
  /\ UNCHANGED <<cpuVars, state, parent, chan, killed, kstack, child, idVars>>

\* trap(): a process that was killed exits at its next trap from user code.
ExitKilled(c) ==
  LET p == running[c] IN
  /\ Runs(c, p, "user") /\ killed[p]
  /\ Goto(p, "exit")
  /\ UNCHANGED <<cpuVars, state, parent, chan, killed, kstack, child, idVars>>

\* trap(), default case: the process misbehaved and is killed on the spot.
Fault(c) ==
  LET p == running[c] IN
  /\ Runs(c, p, "user") /\ ~killed[p]
  /\ killed' = [killed EXCEPT ![p] = TRUE]
  /\ Goto(p, "exit")
  /\ UNCHANGED <<cpuVars, state, parent, chan, kstack, child, idVars>>

\* exit() of initproc, killed or for want of a fork(), is a panic: its CPU
\* loops for ever, the others go on (until they print something).
InitExits(c) ==
  /\ Runs(c, Init0, "exit")
  /\ Goto(Init0, "panic")
  /\ UNCHANGED <<cpuVars, state, parent, chan, killed, kstack, child, idVars>>

\* Variant: only init is told.
ExitWakes_InitOnly(p) == {Init0}

\* Whom exit() wakes: the parent, and init if it inherits a zombie.
ExitWakes(p) ==
  {parent[p]} \cup {i \in {Init0} : \E s \in Children(p) : state[s] = "ZOMBIE"}

\* Variant: the children that are zombies already are left behind.
Adopted_NoZombies(p) ==
  [s \in Slots |-> IF parent[s] = p /\ state[s] # "ZOMBIE" THEN Init0
                   ELSE parent[s]]

\* The abandoned children of p pass to init.
Adopted(p) == [s \in Slots |-> IF parent[s] = p THEN Init0 ELSE parent[s]]

\* The critical section of exit().  Its two wakeup1() calls commute with the
\* stores between them, all under the lock.
Exit(c) ==
  LET p == running[c] IN
  /\ Runs(c, p, "exit") /\ p # Init0 /\ lock = NoCpu
  /\ lock' = c
  /\ state' = [Woken(ExitWakes(p)) EXCEPT ![p] = "ZOMBIE"]
  /\ parent' = Adopted(p)
  /\ Goto(p, "dead")
  /\ UNCHANGED <<running, chan, killed, kstack, child, idVars>>

\* Variant: wait() looks for zombies before it takes the lock.
InWait_Unlocked(c, p) ==
  \/ Runs(c, p, "kernel")
  \/ p = running[c] /\ p # NoSlot /\ state[p] = "RUNNING"
     /\ pc[p] = "waiting" /\ lock = c

\* In the loop of wait() with ptable.lock: just acquired, or kept by sleep().
InWait(c, p) ==
  \/ Runs(c, p, "kernel") /\ lock = NoCpu
  \/ p = running[c] /\ p # NoSlot /\ state[p] = "RUNNING"
     /\ pc[p] = "waiting" /\ lock = c

ZombieChildren(p) == Children(p) \cap InState("ZOMBIE")

\* wait() finds a zombie child: the first one is freed and its pid returned.
Reap(c) ==
  LET p == running[c] IN
  /\ InWait(c, p)
  /\ \E z \in ZombieChildren(p) :
        /\ IsFirst(z, ZombieChildren(p))
        /\ kstack' = [kstack EXCEPT ![z] = FALSE]
        /\ state' = [state EXCEPT ![z] = "UNUSED"]
        /\ pid' = [pid EXCEPT ![z] = 0]
        /\ parent' = [parent EXCEPT ![z] = NoSlot]
        /\ killed' = [killed EXCEPT ![z] = FALSE]
  /\ lock' = NoCpu
  /\ chan' = [chan EXCEPT ![p] = NoSlot]
  /\ Goto(p, "user")
  /\ UNCHANGED <<running, child, nextpid>>

\* wait() returns -1: no children at all, or killed.
WaitFails(c) ==
  LET p == running[c] IN
  /\ InWait(c, p) /\ ZombieChildren(p) = {}
  /\ Children(p) = {} \/ killed[p]
  /\ lock' = NoCpu
  /\ chan' = [chan EXCEPT ![p] = NoSlot]
  /\ Goto(p, "user")
  /\ UNCHANGED <<running, state, parent, killed, kstack, child, idVars>>

\* wait() sleeps on its own process address, keeping ptable.lock.
WaitSleep(c) ==
  LET p == running[c] IN
  /\ InWait(c, p) /\ ZombieChildren(p) = {}
  /\ Children(p) # {} /\ ~killed[p]
  /\ lock' = c
  /\ chan' = [chan EXCEPT ![p] = p]
  /\ state' = [state EXCEPT ![p] = "SLEEPING"]
  /\ Goto(p, "waiting")
  /\ UNCHANGED <<running, parent, killed, kstack, child, idVars>>

-----------------------------------------------------------------------------
(* Other system calls, with the sleep() and wakeup() they do, and kill().  *)

\* trap() lets a system call of a process that is not killed begin.
Syscall(c) ==
  LET p == running[c] IN
  /\ Runs(c, p, "user") /\ ~killed[p]
  /\ Goto(p, "kernel")
  /\ UNCHANGED <<cpuVars, state, parent, chan, killed, kstack, child, idVars>>

\* A system call is done (or a fork() that found no slot).
SysReturn(c) ==
  LET p == running[c] IN
  /\ Runs(c, p, "kernel")
  /\ Goto(p, "user")
  /\ UNCHANGED <<cpuVars, state, parent, chan, killed, kstack, child, idVars>>

\* sleep(chan, lk) with lk # &ptable.lock, in a system call or while exit()
\* closes files.
Sleep(c) ==
  LET p == running[c] IN
  /\ \/ Runs(c, p, "kernel")
     \/ Runs(c, p, "exit") /\ p # Init0
  /\ lock = NoCpu /\ lock' = c
  /\ chan' = [chan EXCEPT ![p] = DevChan]
  /\ state' = [state EXCEPT ![p] = "SLEEPING"]
  /\ UNCHANGED <<running, parent, killed, kstack, pc, child, idVars>>

\* wakeup(chan) by an interrupt handler or a system call on any CPU.
Wakeup ==
  /\ lock = NoCpu
  /\ \E s \in Slots : state[s] = "SLEEPING" /\ chan[s] = DevChan
  /\ state' = Woken({DevChan})
  /\ UNCHANGED <<cpuVars, parent, chan, killed, kstack, pc, child, idVars>>

\* Variant: whatever its target does, kill() makes it RUNNABLE.
Roused_Always(s) == "RUNNABLE"

\* kill() wakes its target if it sleeps.
Roused(s) == IF state[s] = "SLEEPING" THEN "RUNNABLE" ELSE state[s]

\* kill(k): the first slot whose pid is k, whatever the state of that slot.
Kill(c, k) ==
  LET p == running[c] IN
  /\ Runs(c, p, "kernel") /\ lock = NoCpu
  /\ \E s \in Slots :
        /\ IsFirst(s, {t \in Slots : pid[t] = k})
        /\ killed' = [killed EXCEPT ![s] = TRUE]
        /\ state' = [state EXCEPT ![s] = Roused(s)]
  /\ Goto(p, "user")
  /\ UNCHANGED <<cpuVars, parent, chan, kstack, child, idVars>>

-----------------------------------------------------------------------------
Scheduling(c) ==
  \/ SchedAcquire(c) \/ SchedRelease(c) \/ Sched(c) \/ Resume(c) \/ Yield(c)
  \/ \E p \in Slots : Dispatch(c, p)

Forking(c) ==
  \/ AllocProc(c) \/ AllocStack(c) \/ AllocFails(c)
  \/ ForkCopy(c) \/ ForkFails(c) \/ Launch(c)

Ending(c) ==
  \/ ExitCall(c) \/ ExitKilled(c) \/ Fault(c) \/ InitExits(c) \/ Exit(c)
  \/ Reap(c) \/ WaitFails(c) \/ WaitSleep(c)

Calling(c) ==
  Syscall(c) \/ SysReturn(c) \/ Sleep(c) \/ \E k \in 0..MAXPID : Kill(c, k)

\* After the panic of its last CPU nothing moves any more.
Halted == pc[Init0] = "panic" /\ UNCHANGED vars

Next ==
  \/ \E c \in CPUS : Scheduling(c) \/ Forking(c) \/ Ending(c) \/ Calling(c)
  \/ Wakeup
  \/ Halted

Spec == Init /\ [][Next]_vars
-----------------------------------------------------------------------------
(* Properties.                                                             *)

Live == {"SLEEPING", "RUNNABLE", "RUNNING"}      \* states of a live process

TypeOK ==
  /\ lock \in CPUS \cup {NoCpu}
  /\ running \in [CPUS -> Slots \cup {NoSlot}]
  /\ state \in [Slots -> States]
  /\ pid \in [Slots -> 0..MAXPID]
  /\ parent \in [Slots -> Slots \cup {NoSlot}]
  /\ chan \in [Slots -> Slots \cup {NoSlot, DevChan}]
  /\ killed \in [Slots -> BOOLEAN]
  /\ kstack \in [Slots -> BOOLEAN]
  /\ pc \in [Slots -> Labels]
  /\ child \in [Slots -> Slots \cup {NoSlot}]
  /\ nextpid \in 1..MAXPID+1

(***************************************************************************)
(* Two CPUs never execute on one kernel stack, and the stack a CPU is on   *)
(* has not been freed.  The code owes it to ptable.lock being held across  *)
(* swtch(): yield() and exit() publish RUNNABLE or ZOMBIE while still on   *)
(* the stack that scheduler() or wait() of another CPU could take or free. *)
(***************************************************************************)
OwnStack ==
  /\ \A c, d \in CPUS : c # d /\ running[c] = running[d] => running[c] = NoSlot
  /\ \A c \in CPUS : running[c] # NoSlot => kstack[running[c]]

(***************************************************************************)
(* No wakeup is lost between exit() or kill() and wait(): a process asleep *)
(* in wait() has a child left to wait for, none of its children is already *)
(* a zombie, and nobody has killed it.                                     *)
(***************************************************************************)
NoLostWakeup ==
  \A p \in Slots :
    state[p] = "SLEEPING" /\ chan[p] = p =>
      Children(p) # {} /\ ZombieChildren(p) = {} /\ ~killed[p]

(***************************************************************************)
(* Every process but init has a live parent, so every zombie has someone   *)
(* to collect it: exit() hands over its children before it can be reaped.  *)
(***************************************************************************)
ParentAlive ==
  \A s \in Slots \ {Init0} :
    state[s] \in Live \cup {"ZOMBIE"} =>
      parent[s] \in Slots /\ state[parent[s]] \in Live

(***************************************************************************)
(* kill(pid) finds at most one slot: two slots never hold the same pid,    *)
(* though allocproc() and fork() give slots back without clearing it.      *)
(***************************************************************************)
PidUnique ==
  \A s, t \in Slots : s # t /\ pid[s] = pid[t] => pid[s] = 0

(***************************************************************************)
(* Kernel stacks are neither leaked nor shared with a free slot: a slot    *)
(* has one from the time allocproc() gets it until wait() or a failing     *)
(* fork() frees it, whatever preempts fork() in between.                   *)
(***************************************************************************)
StackOwned ==
  \A s \in Slots :
    /\ state[s] = "UNUSED" => ~kstack[s]
    /\ state[s] \in Live \cup {"ZOMBIE"} => kstack[s]

(***************************************************************************)
(* A zombie leaves the table only when the wait() of its own parent frees  *)
(* it, and when no CPU is on its stack any more: neither kill(), nor a     *)
(* wakeup, nor the scheduler brings it back.                               *)
(***************************************************************************)
ZombieStep(s) ==
  state[s] = "ZOMBIE" /\ state'[s] # "ZOMBIE" =>
    /\ state'[s] = "UNUSED"
    /\ \A c \in CPUS : running[c] # s
    /\ \E c \in CPUS : running[c] = parent[s]
ZombieStaysDead == [][\A s \in Slots : ZombieStep(s)]_vars

(***************************************************************************)
(* The process table implements the tree of processes ProcTree promises: a *)
(* slot under construction is still free, a sleeping or ready process is   *)
(* alive.                                                                  *)
(***************************************************************************)
Tree == INSTANCE ProcTree WITH
  life <- [s \in Slots |-> CASE state[s] \in {"UNUSED", "EMBRYO"} -> "free"
                             [] state[s] = "ZOMBIE" -> "zombie"
                             [] OTHER -> "alive"],
  elder <- [s \in Slots |-> IF state[s] \in {"UNUSED", "EMBRYO"} THEN NoSlot
                            ELSE parent[s]]
ImplementsTree == Tree!Spec

(***************************************************************************)
(* What the comment above allocproc() says: the slot it returns has been   *)
(* initialized, so a process nobody has killed is not born killed.         *)
(***************************************************************************)
BornUnharmed ==
  [][\A s \in Slots : state[s] = "UNUSED" /\ state'[s] = "EMBRYO"
                        => ~killed'[s]]_vars

(***************************************************************************)
(* The inductive invariant behind the properties above.                    *)
(***************************************************************************)
\* Who is on which stack: a process is RUNNING only on the one CPU that
\* executes it; a CPU that is still on the stack of one that is not RUNNING
\* holds the lock.
CpuInv ==
  /\ \A c, d \in CPUS : c # d /\ running[c] = running[d] => running[c] = NoSlot
  /\ \A c \in CPUS : running[c] # NoSlot =>
        \/ state[running[c]] = "RUNNING"
        \/ lock = c /\ state[running[c]] \in {"RUNNABLE", "SLEEPING", "ZOMBIE"}
  /\ \A s \in Slots : state[s] = "RUNNING" => \E c \in CPUS : running[c] = s

\* A fork() in progress owns one slot under construction, which nobody else
\* owns; the steps of fork() that were done show in that slot.
ForkInv ==
  /\ \A p \in Slots : pc[p] \in Building =>
        /\ state[p] \in {"RUNNING", "RUNNABLE"}
        /\ child[p] \in Slots /\ child[p] # p /\ state[child[p]] = "EMBRYO"
        /\ kstack[child[p]] <=> pc[p] \notin {"alloc", "unfork"}
        /\ parent[child[p]] = IF pc[p] = "launch" THEN p ELSE NoSlot
  /\ \A p \in Slots : child[p] # NoSlot => pc[p] \in Building
  /\ \A p, q \in Slots : p # q /\ child[p] = child[q] => child[p] = NoSlot
  /\ \A s \in Slots : state[s] = "EMBRYO" => \E p \in Slots : child[p] = s

\* A free slot has no stack and no parent; a slot in use has a stack.
SlotInv ==
  /\ StackOwned
  /\ \A s \in Slots : state[s] = "UNUSED" => parent[s] = NoSlot

\* Init is alive and the root of the tree, nobody is its own parent.
FamilyInv ==
  /\ state[Init0] \in Live /\ parent[Init0] = NoSlot
  /\ \A s \in Slots : parent[s] # s
  /\ ParentAlive

PidInv ==
  /\ \A s \in Slots : pid[s] < nextpid
  /\ PidUnique

IInv ==
  /\ TypeOK /\ CpuInv /\ ForkInv /\ SlotInv /\ FamilyInv /\ PidInv
  /\ NoLostWakeup
=============================================================================
