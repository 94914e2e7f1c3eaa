-------------------------------- MODULE Mlfq --------------------------------
(***************************************************************************)
(* The multi-level feedback queue of xv6 (kernel/proc.c): scheduler() and  *)
(* getheight(), the fields allocproc() gives a process, and boostproc().   *)
(*                                                                         *)
(* scheduler() keeps ptable.lock over a whole pass except while a process  *)
(* runs, so a step is one turn of its loop, or a process giving the CPU    *)
(* back.  Two things happen outside the lock: fork() makes a child         *)
(* RUNNABLE, and boostproc() changes its own process one load or store at  *)
(* a time (the kernel is built without optimisation) and may be preempted  *)
(* between any two of them.                                                *)
(*                                                                         *)
(* Module Proc has the rest of a process's life; a ZOMBIE is UNUSED here.  *)
(***************************************************************************)
EXTENDS Integers

CONSTANTS
  CPUS, NoCpu,     \* the processors that run scheduler(); the lock is free
  NPROC,           \* number of slots of ptable.proc
  TOP,             \* the highest level, 3 in the code
  TimeSlice,       \* time_slice[l]: dispatches in a row at level l
  Slices,          \* slices[l]: dispatches before relegation from level l
  AgeFactor,       \* promotion after AgeFactor * time_slice[l] waits
  Garbage,         \* what a read outside the bounds of these arrays yields
  Boosters,        \* the slots whose processes call boostproc()
  Level0Expires,   \* FALSE: up for less than slices[0] ticks of any process
  WAITCAP          \* bound: wait_ticks is not counted beyond this

ASSUME CpuAssumption == NoCpu \notin CPUS
ASSUME SizeAssumption == NPROC \in Nat \ {0, 1} /\ TOP \in Nat \ {0}
ASSUME TableAssumption ==
  /\ TimeSlice \in [0..TOP -> Nat \ {0}] /\ Slices \in [0..TOP -> Nat \ {0}]
  /\ AgeFactor \in Nat \ {0} /\ Garbage \subseteq Int
  /\ WAITCAP \in Nat /\ \A l \in 0..TOP : AgeFactor * TimeSlice[l] < WAITCAP
ASSUME ModeAssumption ==
  Boosters \subseteq 1..NPROC /\ Level0Expires \in BOOLEAN

Slots == 1..NPROC
NoSlot == 0
Init0 == 1
\* What "passed" may reach.
MAXPASS == (NPROC - 2) * TimeSlice[TOP - 1] + TimeSlice[TOP]

\* struct proc in words, and the places of the fields modelled here in it;
\* ticks[], of TOP + 1 words, lies between wait_ticks and priority.
StateAt == 3
WaitAt == 31
TicksAt == 32
PriorityAt == TOP + 33
TickAt == TOP + 34
SliceAt == TOP + 35
Words == TOP + 36

VARIABLES
  lock, running, cursor,    \* cursor[c]: p of the scheduler() of CPU c
  state,
  priority, tick_remain, slice_remain, wait_ticks,     \* struct proc
  pc, reg,                  \* boostproc() of a process, and its register
  passed,                   \* history: dispatches since s waits at level TOP
  overrun                   \* history: scheduler() wrote into another slot

cpuVars == <<lock, running, cursor>>
queueVars == <<priority, tick_remain, slice_remain, wait_ticks>>
boostVars == <<pc, reg>>
history == <<passed, overrun>>
vars == <<cpuVars, state, queueVars, boostVars, history>>

-----------------------------------------------------------------------------
Counted(n) == IF n < WAITCAP THEN n + 1 ELSE n
PassedCount(n) == IF n <= MAXPASS THEN n + 1 ELSE n

\* A read of one of the two tables, with any index.
Lookup(table, l) == IF l \in 0..TOP THEN {table[l]} ELSE Garbage

Runnable == {s \in Slots : state[s] = "RUNNABLE"}

\* getheight() returns l, the highest level of a RUNNABLE process.  It starts
\* from 0, so a negative level does not count.
getheight(l) ==
  /\ l >= 0
  /\ l = 0 \/ \E s \in Runnable : priority[s] = l
  /\ \A s \in Runnable : priority[s] <= l

\* CPU c executes process p, which does not hold ptable.lock.
Runs(c, p) == p = running[c] /\ p # NoSlot

Init ==
  /\ lock = NoCpu
  /\ running = [c \in CPUS |-> NoSlot]
  /\ cursor = [c \in CPUS |-> 1]
  /\ state = [s \in Slots |-> IF s = Init0 THEN "RUNNABLE" ELSE "UNUSED"]
  /\ priority = [s \in Slots |-> TOP]
  /\ tick_remain = [s \in Slots |-> TimeSlice[TOP]]
  /\ slice_remain = [s \in Slots |-> Slices[TOP]]
  /\ wait_ticks = [s \in Slots |-> 0]
  /\ pc = [s \in Slots |-> "other"]
  /\ reg = [s \in Slots |-> 0]
  /\ passed = [s \in Slots |-> 0]
  /\ overrun = FALSE

-----------------------------------------------------------------------------
(* scheduler() on CPU c.                                                   *)

SchedAcquire(c) ==
  /\ running[c] = NoSlot /\ lock = NoCpu
  /\ lock' = c
  /\ cursor' = [cursor EXCEPT ![c] = 1]
  /\ UNCHANGED <<running, state, queueVars, boostVars, history>>

\* Variant: the state of the process is not looked at.
Eligible_AnyState(p) == getheight(priority[p])

Eligible(p) == state[p] = "RUNNABLE" /\ getheight(priority[p])

\* A turn of the loop that passes over slot p.
Skip(c) ==
  /\ running[c] = NoSlot /\ lock = c
  /\ cursor[c] \in Slots /\ ~Eligible(cursor[c])
  /\ cursor' = [cursor EXCEPT ![c] = @ + 1]
  /\ UNCHANGED <<lock, running, state, queueVars, boostVars, history>>

(***************************************************************************)
(* The accounting of a dispatch.  p->ticks[p->priority]++ does not look at *)
(* the bounds of ticks[]: from level TOP + 1 upwards it strikes the fields *)
(* behind it, the level itself first, and from TOP + 4 upwards the slots   *)
(* that follow, their state among the rest.  (Fields that are not here and *)
(* what lies behind ptable are struck unseen: see overrun.)                *)
(***************************************************************************)
Strike(p, s, word) ==
  IF TicksAt + priority[p] = (s - p) * Words + word THEN 1 ELSE 0
Struck(p, f, word) == [s \in Slots |-> f[s] + Strike(p, s, word)]

\* The values of enum procstate in order.  A ZOMBIE, UNUSED here, becomes a
\* value that no code looks for, UNUSED here as well.
NextState(st, zombie) ==
  CASE st = "UNUSED"   -> IF zombie THEN "UNUSED" ELSE "EMBRYO"
    [] st = "EMBRYO"   -> "SLEEPING"
    [] st = "SLEEPING" -> "RUNNABLE"
    [] st = "RUNNABLE" -> "RUNNING"
    [] st = "RUNNING"  -> "UNUSED"

ChargedTick(p) == Struck(p, [tick_remain EXCEPT ![p] = @ - 1], TickAt)
ChargedSlice(p) ==
  LET used == IF priority[p] = 0 /\ ~Level0Expires THEN 0 ELSE 1
  IN  Struck(p, [slice_remain EXCEPT ![p] = @ - used], SliceAt)
ChargedWait(p) ==
  [s \in Slots |-> IF s = p THEN 0
                  ELSE IF Strike(p, s, WaitAt) = 1 THEN Counted(wait_ticks[s])
                  ELSE wait_ticks[s]]

Waiting(p) == {s \in Runnable : s < p}
\* Variant: the threshold is passed, not met.
Escalates_Late(p, due) ==
  \A s \in Waiting(p) :
    \E t \in Lookup(TimeSlice, priority[s]) :
      s \in due <=> wait_ticks[s] = AgeFactor * t /\ priority[s] < TOP

\* "escalate": each RUNNABLE slot before p has waited once more, and is
\* promoted if it has waited long enough; due holds those that are.
Escalates(p, due) ==
  \A s \in Waiting(p) :
    \E t \in Lookup(TimeSlice, priority[s]) :
      s \in due <=> wait_ticks[s] + 1 = AgeFactor * t /\ priority[s] < TOP

\* Slot p is RUNNABLE at the highest level: account for it, age the slots
\* before it, which get the slices of the level of p, and run it.  It
\* releases ptable.lock as soon as it runs.
Dispatch(c) ==
  LET p == cursor[c] level == Struck(p, priority, PriorityAt) IN
  /\ running[c] = NoSlot /\ lock = c /\ p \in Slots /\ Eligible(p)
  /\ \E due \in SUBSET Waiting(p), t \in Lookup(TimeSlice, level[p]),
        n \in Lookup(Slices, level[p]) :
       /\ Escalates(p, due)
       /\ priority' = [s \in Slots |-> IF s \in due THEN level[s] + 1
                                      ELSE level[s]]
       /\ tick_remain' =
            [s \in Slots |-> IF s \in due THEN t ELSE ChargedTick(p)[s]]
       /\ slice_remain' =
            [s \in Slots |-> IF s \in due THEN n ELSE ChargedSlice(p)[s]]
       /\ wait_ticks' =
            [s \in Slots |-> CASE s \in due -> 0
                               [] s \in Waiting(p) \ due ->
                                    Counted(wait_ticks[s])
                               [] OTHER -> ChargedWait(p)[s]]
  /\ \E zombie \in BOOLEAN :
       state' = [s \in Slots |->
                   IF s = p THEN "RUNNING"
                   ELSE IF Strike(p, s, StateAt) = 1
                   THEN NextState(state[s], zombie)
                   ELSE state[s]]
  /\ running' = [running EXCEPT ![c] = p]
  /\ lock' = NoCpu
  /\ passed' = [s \in Slots |-> IF s # p /\ s \in Runnable /\ priority[s] = TOP
                                THEN PassedCount(passed[s]) ELSE 0]
  /\ overrun' = (overrun \/ TicksAt + priority[p] >= Words)
  /\ UNCHANGED <<cursor, boostVars>>

(***************************************************************************)
(* Process p, done running for now, is back in scheduler() with state st,  *)
(* the lock taken on the way in: relegate it, or run it again if its time  *)
(* slice is not used up (p--, and the loop's p++), or go on to the next.   *)
(***************************************************************************)
Relegate(c, p) ==
  /\ slice_remain[p] = 0
  /\ priority' = [priority EXCEPT ![p] = @ - 1]
  /\ \E t \in Lookup(TimeSlice, priority[p] - 1),
        n \in Lookup(Slices, priority[p] - 1) :
       /\ tick_remain' = [tick_remain EXCEPT ![p] = t]
       /\ slice_remain' = [slice_remain EXCEPT ![p] = n]
  /\ cursor' = [cursor EXCEPT ![c] = @ + 1]

RunAgain(c, p) ==
  /\ slice_remain[p] # 0 /\ tick_remain[p] # 0
  /\ UNCHANGED <<cursor, priority, tick_remain, slice_remain>>

\* Variant: every choice starts from the first slot again.
RunNext_FromFirst(c, p) ==
  /\ slice_remain[p] # 0 /\ tick_remain[p] = 0
  /\ \E t \in Lookup(TimeSlice, priority[p]) :
       tick_remain' = [tick_remain EXCEPT ![p] = t]
  /\ cursor' = [cursor EXCEPT ![c] = 1]
  /\ UNCHANGED <<priority, slice_remain>>

RunNext(c, p) ==
  /\ slice_remain[p] # 0 /\ tick_remain[p] = 0
  /\ \E t \in Lookup(TimeSlice, priority[p]) :
       tick_remain' = [tick_remain EXCEPT ![p] = t]
  /\ cursor' = [cursor EXCEPT ![c] = @ + 1]
  /\ UNCHANGED <<priority, slice_remain>>

Return(c, st) ==
  LET p == running[c] IN
  /\ p # NoSlot /\ lock = NoCpu
  /\ lock' = c
  /\ state' = [state EXCEPT ![p] = st]
  /\ running' = [running EXCEPT ![c] = NoSlot]
  /\ Relegate(c, p) \/ RunAgain(c, p) \/ RunNext(c, p)
  /\ passed' = [passed EXCEPT ![p] = 0]
  /\ UNCHANGED <<wait_ticks, boostVars, overrun>>

\* The end of a pass.
SchedRelease(c) ==
  /\ running[c] = NoSlot /\ lock = c /\ cursor[c] > NPROC
  /\ lock' = NoCpu
  /\ UNCHANGED <<running, cursor, state, queueVars, boostVars, history>>

-----------------------------------------------------------------------------
(* What processes do to the queue.                                         *)

\* The timer interrupt: yield(), from kernel and from user code.
Yield(c) == Return(c, "RUNNABLE")

\* A system call that sleeps; boostproc() does not.
Sleep(c) ==
  \E p \in Slots : Runs(c, p) /\ pc[p] = "other" /\ Return(c, "SLEEPING")

Exit(c) ==
  \E p \in Slots \ {Init0} :
    Runs(c, p) /\ pc[p] = "other" /\ Return(c, "UNUSED")

\* wakeup() or kill() of a sleeping process, by any CPU or interrupt.
Wakeup(s) ==
  /\ lock = NoCpu /\ state[s] = "SLEEPING"
  /\ state' = [state EXCEPT ![s] = "RUNNABLE"]
  /\ UNCHANGED <<cpuVars, queueVars, boostVars, history>>

\* Some CPU executes a process that is in other code than boostproc().
Busy == \E c \in CPUS, p \in Slots : Runs(c, p) /\ pc[p] = "other"

\* fork() in some running process: allocproc() claims slot s.  A ZOMBIE
\* being UNUSED here, s need not be the first one that is.
Alloc(s) ==
  /\ Busy /\ lock = NoCpu /\ state[s] = "UNUSED"
  /\ state' = [state EXCEPT ![s] = "EMBRYO"]
  /\ priority' = [priority EXCEPT ![s] = TOP]
  /\ tick_remain' = [tick_remain EXCEPT ![s] = TimeSlice[TOP]]
  /\ slice_remain' = [slice_remain EXCEPT ![s] = Slices[TOP]]
  /\ wait_ticks' = [wait_ticks EXCEPT ![s] = 0]
  /\ UNCHANGED <<cpuVars, boostVars, history>>

\* fork(): np->state = RUNNABLE, whoever holds the lock.
Launch(s) ==
  /\ Busy /\ state[s] = "EMBRYO"
  /\ state' = [state EXCEPT ![s] = "RUNNABLE"]
  /\ UNCHANGED <<cpuVars, queueVars, boostVars, history>>

-----------------------------------------------------------------------------
(* boostproc(), one load or store at a time.                               *)

At(p, l) == \E c \in CPUS : Runs(c, p) /\ pc[p] = l
Goto(p, l) == pc' = [pc EXCEPT ![p] = l]

\* if (proc->priority != 3): a level above is raised further.
BoostTest(p) ==
  /\ At(p, "other") /\ p \in Boosters
  /\ priority[p] # TOP
  /\ Goto(p, "load")
  /\ UNCHANGED <<cpuVars, state, queueVars, reg, history>>

\* proc->priority++: read it, then write it.
BoostLoad(p) ==
  /\ At(p, "load")
  /\ reg' = [reg EXCEPT ![p] = priority[p]]
  /\ Goto(p, "store")
  /\ UNCHANGED <<cpuVars, state, queueVars, history>>

BoostStore(p) ==
  /\ At(p, "store")
  /\ priority' = [priority EXCEPT ![p] = reg[p] + 1]
  /\ reg' = [reg EXCEPT ![p] = 0]
  /\ Goto(p, "wait")
  /\ UNCHANGED <<cpuVars, state, tick_remain, slice_remain, wait_ticks,
                 history>>

BoostWait(p) ==
  /\ At(p, "wait")
  /\ wait_ticks' = [wait_ticks EXCEPT ![p] = 0]
  /\ Goto(p, "slice")
  /\ UNCHANGED <<cpuVars, state, priority, tick_remain, slice_remain, reg,
                 history>>

BoostSlice(p) ==
  /\ At(p, "slice")
  /\ \E n \in Lookup(Slices, priority[p]) :
       slice_remain' = [slice_remain EXCEPT ![p] = n]
  /\ Goto(p, "tick")
  /\ UNCHANGED <<cpuVars, state, priority, tick_remain, wait_ticks, reg,
                 history>>

BoostTick(p) ==
  /\ At(p, "tick")
  /\ \E t \in Lookup(TimeSlice, priority[p]) :
       tick_remain' = [tick_remain EXCEPT ![p] = t]
  /\ Goto(p, "other")
  /\ UNCHANGED <<cpuVars, state, priority, slice_remain, wait_ticks, reg,
                 history>>

Scheduling(c) ==
  \/ SchedAcquire(c) \/ Skip(c) \/ Dispatch(c) \/ SchedRelease(c) \/ Yield(c)

Boosting(p) ==
  \/ BoostTest(p) \/ BoostLoad(p) \/ BoostStore(p)
  \/ BoostWait(p) \/ BoostSlice(p) \/ BoostTick(p)

Next ==
  \/ \E c \in CPUS : Scheduling(c) \/ Sleep(c) \/ Exit(c)
  \/ \E s \in Slots : Wakeup(s) \/ Alloc(s) \/ Launch(s) \/ Boosting(s)

Spec == Init /\ [][Next]_vars

(***************************************************************************)
(* Each CPU goes on with its scheduler(), and the timer interrupt comes.   *)
(* Nothing is assumed of processes that sleep, wake up, fork or exit.      *)
(***************************************************************************)
FairSpec == Spec /\ \A c \in CPUS : WF_vars(Scheduling(c))
-----------------------------------------------------------------------------
(* Properties.                                                             *)

Levels == 0..TOP
Idle == {s \in Slots : \A c \in CPUS : running[c] # s}

TypeOK ==
  /\ lock \in CPUS \cup {NoCpu}
  /\ running \in [CPUS -> Slots \cup {NoSlot}]
  /\ cursor \in [CPUS -> 1..NPROC+1]
  /\ state \in [Slots -> {"UNUSED", "EMBRYO", "SLEEPING", "RUNNABLE",
                          "RUNNING"}]
  /\ priority \in [Slots -> Int] /\ reg \in [Slots -> Int]
  /\ tick_remain \in [Slots -> Int] /\ slice_remain \in [Slots -> Int]
  /\ wait_ticks \in [Slots -> 0..WAITCAP]
  /\ pc \in [Slots -> {"other", "load", "store", "wait", "slice", "tick"}]
  /\ passed \in [Slots -> 0..MAXPASS+1] /\ overrun \in BOOLEAN

(***************************************************************************)
(* Unless scheduler() has written into another slot (boostproc() knows no  *)
(* highest level, and from TOP + 4 upwards ticks[priority] is there), a    *)
(* process is on one CPU at most, and RUNNING just while it is on one: two *)
(* schedulers with their own cursors share the queue, fork() adds to it    *)
(* behind their backs, and levels may be anything meanwhile.               *)
(***************************************************************************)
OneCpuEach ==
  ~overrun =>
    /\ \A c, d \in CPUS :
         c # d /\ running[c] = running[d] => running[c] = NoSlot
    /\ \A s \in Slots : state[s] = "RUNNING" <=> s \notin Idle

(***************************************************************************)
(* "escalate" tests wait_ticks for equality with the threshold of the      *)
(* current level, while levels change under it by relegation, promotion    *)
(* and boostproc().  The count never steps over the threshold: a process   *)
(* waiting below the top level can still be promoted.  (Unless a slot was  *)
(* overwritten.)                                                           *)
(***************************************************************************)
WaitBelowThreshold ==
  ~overrun =>
    \A s \in Runnable :
      priority[s] \in 0..TOP-1 =>
        wait_ticks[s] < AgeFactor * TimeSlice[priority[s]]

(***************************************************************************)
(* scheduler() tests tick_remain and slice_remain for equality with zero   *)
(* too: a process that may be dispatched has some of both left, or it      *)
(* would be run again and again and never be relegated.                    *)
(***************************************************************************)
BudgetPositive ==
  \A s \in Slots \cap Idle : tick_remain[s] >= 1 /\ slice_remain[s] >= 1

(***************************************************************************)
(* With one CPU and no boostproc(), a process waits at the top level for   *)
(* at most one time slice of each other slot.  All but one of these may be *)
(* those of the level below, twice as long: promoted processes bring them  *)
(* along, but not the one at whose dispatch they were promoted.            *)
(* This bounds what p-- and p++, sleepers that keep a slice they started,  *)
(* newcomers before and behind the cursor and promotions add up to.        *)
(***************************************************************************)
TopWaitBounded ==
  \A s \in Slots : passed[s] <= MAXPASS

(* What the documentation of the data structures says.                     *)

\* include/pstat.h: the priority level of a process is one of 0-3.
PriorityInRange == \A s \in Slots : priority[s] \in Levels

=============================================================================
