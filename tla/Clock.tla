------------------------------- MODULE Clock -------------------------------
(***************************************************************************)
(* The clock: the timer interrupt of the first CPU (kernel/trap.c), and    *)
(* sleep() and uptime() (kernel/sysproc.c), which share the counter ticks. *)
(*                                                                         *)
(* tickslock makes a step of the interrupt, and of what sys_sleep() does;  *)
(* but not of its test of killed and its sleep(), as kill() does not need  *)
(* that lock.  The counter is unsigned and wraps at WRAP; so the argument  *)
(* of sleep(), compared with a difference of it, is taken as unsigned.     *)
(***************************************************************************)
EXTENDS Integers

CONSTANTS
  Procs,
  WRAP,            \* where the counter wraps, 2^32
  Sleeps,          \* arguments of sleep()
  MAXLAG           \* bound: ticks in which a process that is ready runs

SleepAssumption ==
  \A n \in Sleeps : n \in -WRAP..WRAP - 1 /\ (n % WRAP) + MAXLAG < WRAP

VARIABLES
  ticks,
  pc,                 \* "user", "test", "sleep", or "going" to sleep
  ticks0, n,          \* when it began to sleep, and for how long
  slept,              \* history: ticks since then
  killed

vars == <<ticks, pc, ticks0, n, slept, killed>>

Init ==
  /\ ticks = 0 /\ pc = [p \in Procs |-> "user"]
  /\ ticks0 = [p \in Procs |-> 0] /\ n = [p \in Procs |-> 0]
  /\ slept = [p \in Procs |-> 0] /\ killed = [p \in Procs |-> FALSE]

Goto(p, l) == pc' = [pc EXCEPT ![p] = l]
Wanted(p) == n[p] % WRAP

\* tickslock is kept only by a process on its way into sleep().
Unlocked == \A p \in Procs : pc[p] # "going"

\* The scheduler lets nobody who is ready wait for longer than MAXLAG.
Timely == \A p \in Procs : pc[p] = "test" => slept[p] < Wanted(p) + MAXLAG

Tick ==
  /\ Unlocked /\ Timely
  /\ ticks' = (ticks + 1) % WRAP
  /\ pc' = [p \in Procs |-> IF pc[p] = "sleep" THEN "test" ELSE pc[p]]
  /\ slept' = [p \in Procs |-> IF pc[p] = "user" THEN 0 ELSE slept[p] + 1]
  /\ UNCHANGED <<ticks0, n, killed>>

Sleep(p, t) ==
  /\ pc[p] = "user" /\ Unlocked /\ ~killed[p] /\ Goto(p, "test")
  /\ ticks0' = [ticks0 EXCEPT ![p] = ticks] /\ n' = [n EXCEPT ![p] = t]
  /\ UNCHANGED <<ticks, slept, killed>>

\* Variant: the time when the sleep ends is compared.
Passed_End(p) == ticks >= (ticks0[p] + Wanted(p)) % WRAP
Passed(p) == (ticks - ticks0[p]) % WRAP >= Wanted(p)

Test(p) ==
  /\ pc[p] = "test" /\ Unlocked /\ ~Passed(p) /\ ~killed[p]
  /\ Goto(p, "going")
  /\ UNCHANGED <<ticks, ticks0, n, slept, killed>>

\* sleep() takes ptable.lock, releases tickslock and is asleep.
FallAsleep(p) ==
  /\ pc[p] = "going" /\ Goto(p, "sleep")
  /\ UNCHANGED <<ticks, ticks0, n, slept, killed>>

Return(p) ==
  /\ pc[p] = "test" /\ Unlocked /\ (Passed(p) \/ killed[p]) /\ Goto(p, "user")
  /\ ticks0' = [ticks0 EXCEPT ![p] = 0] /\ n' = [n EXCEPT ![p] = 0]
  /\ slept' = [slept EXCEPT ![p] = 0]
  /\ UNCHANGED <<ticks, killed>>

\* kill(): whoever sleeps goes on; whoever is about to sleep, does.
Kill(p) ==
  /\ ~killed[p] /\ killed' = [killed EXCEPT ![p] = TRUE]
  /\ Goto(p, IF pc[p] = "sleep" THEN "test" ELSE pc[p])
  /\ UNCHANGED <<ticks, ticks0, n, slept>>

\* A killed process exits, and another takes its place.
Exit(p) ==
  /\ pc[p] = "user" /\ killed[p] /\ killed' = [killed EXCEPT ![p] = FALSE]
  /\ UNCHANGED <<ticks, pc, ticks0, n, slept>>

Next ==
  \/ Tick
  \/ \E p \in Procs :
       \/ \E t \in Sleeps : Sleep(p, t)
       \/ Test(p) \/ FallAsleep(p) \/ Return(p) \/ Kill(p) \/ Exit(p)

Spec == Init /\ [][Next]_vars /\ WF_vars(Tick)
        /\ \A p \in Procs : WF_vars(Test(p) \/ FallAsleep(p) \/ Return(p))

-----------------------------------------------------------------------------
(* A process sleeps for as many ticks as it has asked for, neither fewer   *)
(* nor, once it can run, more, whenever the counter wraps; unless it is    *)
(* killed (if between its test and its sleep(), it returns a tick later).  *)
(* (sys_sleep, trap)                                                       *)
SleepsExactly ==
  \A p \in Procs :
    /\ pc[p] \in {"going", "sleep"} => slept[p] < Wanted(p)
    /\ pc[p] = "test" /\ ~killed[p] => (Passed(p) <=> slept[p] >= Wanted(p))

=============================================================================
