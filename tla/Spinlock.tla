------------------------------ MODULE Spinlock ------------------------------
(***************************************************************************)
(* Spin locks and the switching off of interrupts (kernel/spinlock.c) with *)
(* those that depend on them: the scheduler, sleep(), yield(), the clock's *)
(* interrupt (kernel/proc.c, kernel/trap.c) and switchuvm() (kernel/vm.c). *)
(*                                                                         *)
(* What is nested is counted per CPU, but a process takes ptable.lock on   *)
(* one CPU and may come back from sched() on another.  What a thread has   *)
(* yet to do is in code; an interrupt puts its handler in front.           *)
(***************************************************************************)
EXTENDS Integers, Sequences, FiniteSets

CONSTANTS
  CPUS, Boot,         \* the CPUs; the one that counts ticks
  Procs

CpuAssumption == Boot \in CPUS

Locks == {"ptable.lock", "tickslock"}
Nobody == "nobody"
Scheduler(c) == <<"scheduler", c>>
Threads == Procs \cup {Scheduler(c) : c \in CPUS}

VARIABLES
  fl,                 \* the interrupt flag of each CPU
  ncli, intena,       \* struct cpu
  on,                 \* the thread that each CPU runs
  locked, cpu,        \* struct spinlock: cpu is that of its holder
  code,
  state               \* of each process

vars == <<fl, ncli, intena, on, locked, cpu, code, state>>

-----------------------------------------------------------------------------
(* The code, as sequences of steps.                                        *)

pushcli == << <<"readeflags">> >>
popcli == << <<"popcli">> >>
acquire(lk) == pushcli \o << <<"xchg", lk>>, <<"own", lk>> >>
release(lk) == << <<"disown", lk>>, <<"unlock", lk>> >> \o popcli

sched == << <<"sched">> >>

sleep(lk) ==
  acquire("ptable.lock") \o release(lk) \o << <<"state", "SLEEPING">> >>
    \o sched \o release("ptable.lock") \o acquire(lk)
yield ==
  acquire("ptable.lock") \o << <<"state", "RUNNABLE">> >>
    \o sched \o release("ptable.lock")
wakeup ==
  acquire("ptable.lock") \o << <<"wakeup">> >> \o release("ptable.lock")
switchuvm == pushcli \o popcli

scheduler ==
  << <<"sti">> >> \o acquire("ptable.lock") \o << <<"pick">> >>
    \o release("ptable.lock")
forkret == release("ptable.lock") \o << <<"sti">> >>

\* sys_uptime(), sys_sleep(), and growproc() or exec().
Calls ==
  {acquire("tickslock") \o release("tickslock"),
   acquire("tickslock") \o sleep("tickslock") \o release("tickslock"),
   switchuvm}

\* trap() of the clock's interrupt.
Timer(c) ==
  (IF c = Boot
   THEN acquire("tickslock") \o wakeup \o release("tickslock") ELSE <<>>)
  \o (IF on[c] \in Procs THEN yield ELSE <<>>) \o << <<"iret">> >>

-----------------------------------------------------------------------------

Init ==
  /\ fl = [c \in CPUS |-> FALSE]
  /\ ncli = [c \in CPUS |-> 0] /\ intena = [c \in CPUS |-> FALSE]
  /\ on = [c \in CPUS |-> Scheduler(c)]
  /\ locked = [lk \in Locks |-> FALSE] /\ cpu = [lk \in Locks |-> Nobody]
  /\ code = [t \in Threads |-> IF t \in Procs THEN forkret ELSE <<>>]
  /\ state = [p \in Procs |-> "RUNNABLE"]

Does(c, op) == code[on[c]] # <<>> /\ Head(code[on[c]])[1] = op
Arg(c) == Head(code[on[c]])[2]
Goto(c, s) == code' = [code EXCEPT ![on[c]] = s]
Return(c) == Goto(c, Tail(code[on[c]]))

holding(lk, c) == locked[lk] /\ cpu[lk] = c

\* What panic() is called for; the machine stops there.
Fails(c) ==
  \/ Does(c, "xchg") /\ holding(Arg(c), c)
  \/ Does(c, "disown") /\ ~holding(Arg(c), c)
  \/ Does(c, "popcli") /\ (fl[c] \/ ncli[c] = 0)
  \/ /\ Does(c, "sched")
     /\ \/ ~holding("ptable.lock", c) \/ ncli[c] # 1
        \/ state[on[c]] = "RUNNING" \/ fl[c]

\* pushcli(): the flag is read before it is cleared, and an interrupt may
\* come in between.
ReadEflags(c) ==
  /\ Does(c, "readeflags")
  /\ Goto(c, << <<"cli", fl[c]>> >> \o Tail(code[on[c]]))
  /\ UNCHANGED <<fl, ncli, intena, on, locked, cpu, state>>
Cli(c) ==
  /\ Does(c, "cli") /\ Return(c)
  /\ fl' = [fl EXCEPT ![c] = FALSE]
  /\ ncli' = [ncli EXCEPT ![c] = @ + 1]
  /\ intena' = [intena EXCEPT ![c] = IF ncli[c] = 0 THEN Arg(c) ELSE @]
  /\ UNCHANGED <<on, locked, cpu, state>>
Popcli(c) ==
  /\ Does(c, "popcli") /\ ~Fails(c) /\ Return(c)
  /\ ncli' = [ncli EXCEPT ![c] = @ - 1]
  /\ fl' = [fl EXCEPT ![c] = @ \/ (ncli[c] = 1 /\ intena[c])]
  /\ UNCHANGED <<intena, on, locked, cpu, state>>

\* acquire(): xchg() succeeds, then the holder is recorded.
Xchg(c) ==
  /\ Does(c, "xchg") /\ ~Fails(c) /\ ~locked[Arg(c)] /\ Return(c)
  /\ locked' = [locked EXCEPT ![Arg(c)] = TRUE]
  /\ UNCHANGED <<fl, ncli, intena, on, cpu, state>>
Own(c) ==
  /\ Does(c, "own") /\ Return(c)
  /\ cpu' = [cpu EXCEPT ![Arg(c)] = c]
  /\ UNCHANGED <<fl, ncli, intena, on, locked, state>>
Disown(c) ==
  /\ Does(c, "disown") /\ ~Fails(c) /\ Return(c)
  /\ cpu' = [cpu EXCEPT ![Arg(c)] = Nobody]
  /\ UNCHANGED <<fl, ncli, intena, on, locked, state>>
Unlock(c) ==
  /\ Does(c, "unlock") /\ Return(c)
  /\ locked' = [locked EXCEPT ![Arg(c)] = FALSE]
  /\ UNCHANGED <<fl, ncli, intena, on, cpu, state>>

SetState(c) ==
  /\ Does(c, "state") /\ Return(c)
  /\ state' = [state EXCEPT ![on[c]] = Arg(c)]
  /\ UNCHANGED <<fl, ncli, intena, on, locked, cpu>>
Wakeup(c) ==
  /\ Does(c, "wakeup") /\ Return(c)
  /\ state' = [p \in Procs |->
                 IF state[p] = "SLEEPING" THEN "RUNNABLE" ELSE state[p]]
  /\ UNCHANGED <<fl, ncli, intena, on, locked, cpu>>

\* Variant: intena is not put back.
Resumed_AsIs(c) == intena

\* What sched() does once it is back, on whichever CPU.
Resumed(c) == [intena EXCEPT ![c] = Arg(c)]

Sched(c) ==
  /\ Does(c, "sched") /\ ~Fails(c)
  /\ on' = [on EXCEPT ![c] = Scheduler(c)]
  /\ Goto(c, << <<"resume", intena[c]>> >> \o Tail(code[on[c]]))
  /\ UNCHANGED <<fl, ncli, intena, locked, cpu, state>>
Resume(c) ==
  /\ Does(c, "resume") /\ Return(c)
  /\ intena' = Resumed(c)
  /\ UNCHANGED <<fl, ncli, on, locked, cpu, state>>

\* scheduler(): one process after the other, and the end of the loop.
Pick(c) ==
  /\ Does(c, "pick")
  /\ \E p \in Procs :
       /\ state[p] = "RUNNABLE"
       /\ state' = [state EXCEPT ![p] = "RUNNING"]
       /\ on' = [on EXCEPT ![c] = p]
  /\ UNCHANGED <<fl, ncli, intena, locked, cpu, code>>
PickNone(c) ==
  /\ Does(c, "pick") /\ Return(c)
  /\ UNCHANGED <<fl, ncli, intena, on, locked, cpu, state>>

\* sti(), or trapret() in a new process; and the end of an interrupt, which
\* comes only while interrupts are on.
Sti(c) ==
  /\ (Does(c, "sti") \/ Does(c, "iret")) /\ Return(c)
  /\ fl' = [fl EXCEPT ![c] = TRUE]
  /\ UNCHANGED <<ncli, intena, on, locked, cpu, state>>

-----------------------------------------------------------------------------
\* A system call leaves the interrupts on; the scheduler goes round.
Begin(c) ==
  /\ code[on[c]] = <<>>
  /\ \E s \in IF on[c] \in Procs THEN Calls ELSE {scheduler} : Goto(c, s)
  /\ UNCHANGED <<fl, ncli, intena, on, locked, cpu, state>>

Interrupt(c) ==
  /\ fl[c] /\ Goto(c, Timer(c) \o code[on[c]])
  /\ fl' = [fl EXCEPT ![c] = FALSE]
  /\ UNCHANGED <<ncli, intena, on, locked, cpu, state>>

Step(c) ==
  \/ ReadEflags(c) \/ Cli(c) \/ Popcli(c) \/ Xchg(c) \/ Own(c)
  \/ Disown(c) \/ Unlock(c) \/ SetState(c) \/ Wakeup(c) \/ Sched(c)
  \/ Resume(c) \/ Pick(c) \/ PickNone(c) \/ Sti(c)

Next == \E c \in CPUS : Step(c) \/ Begin(c) \/ Interrupt(c)
Spec == Init /\ [][Next]_vars
-----------------------------------------------------------------------------
(* Properties.                                                             *)

Steps(t, ops) == Cardinality({i \in DOMAIN code[t] : code[t][i][1] \in ops})

\* How deep t is in pushcli()s, by what it has yet to do.
Depth(t) == Steps(t, {"popcli"}) - Steps(t, {"cli", "readeflags"})

(***************************************************************************)
(* The counts kept per CPU are right for the thread that runs there,       *)
(* wherever it began: interrupts are off while it holds a lock or handles  *)
(* an interrupt, and on again after its last popcli(), unless it is new    *)
(* (then trapret() turns them on) or a scheduler (then its own sti()       *)
(* does).  No panic() of spinlock.c or sched() is ever reached; a handler  *)
(* never waits for a lock that the code it interrupted holds.              *)
(***************************************************************************)
InterruptsMatch ==
  \A c \in CPUS : LET t == on[c] IN
    /\ ncli[c] = Depth(t) /\ ~Fails(c)
    /\ Depth(t) > 0 \/ Steps(t, {"iret"}) > 0 => ~fl[c]
    /\ t \in Procs /\ Depth(t) = 0 /\ Steps(t, {"iret", "sti"}) = 0 => fl[c]

\* The CPUs never all wait for locks (acquire() in acquire(), sleep() and
\* the handlers).
SomebodyRuns ==
  \E c \in CPUS : ~(Does(c, "xchg") /\ locked[Arg(c)])
=============================================================================
