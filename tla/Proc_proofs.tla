----------------------------- MODULE Proc_proofs -----------------------------
(***************************************************************************)
(* Proofs, for any number of CPUs and slots, of the safety properties of   *)
(* Proc.  The inductive invariant is IInv; a step of Next is taken apart   *)
(* into the actions of Proc, and each conjunct of IInv that an action can  *)
(* disturb gets a step of its own.                                         *)
(***************************************************************************)
EXTENDS Proc, TLAPS

(***************************************************************************)
(* The null pointer is no slot, the channel of the devices is neither, and *)
(* initproc has a slot: all that is ever used of the numbers behind them.  *)
(***************************************************************************)
LEMMA SlotFacts ==
  /\ NoSlot \notin Slots /\ DevChan \notin Slots /\ DevChan # NoSlot
  /\ Init0 \in Slots
BY SizeAssumption DEF Slots, NoSlot, DevChan, Init0

(***************************************************************************)
(* The whole state is well typed.                                          *)
(***************************************************************************)
LEMMA InitType == Init => TypeOK
<1> SUFFICES ASSUME Init PROVE TypeOK
    OBVIOUS
<1>1. /\ lock \in CPUS \cup {NoCpu}
      /\ running \in [CPUS -> Slots \cup {NoSlot}]
      /\ state \in [Slots -> States]
      /\ parent \in [Slots -> Slots \cup {NoSlot}]
      /\ chan \in [Slots -> Slots \cup {NoSlot, DevChan}]
      /\ pc \in [Slots -> Labels]
      /\ child \in [Slots -> Slots \cup {NoSlot}]
    BY DEF Init, States, Labels, Unlocked, Building
<1>2. pid \in [Slots -> 0..MAXPID] /\ nextpid \in 1..MAXPID+1
    BY SizeAssumption DEF Init
<1>3. /\ killed \in [Slots -> BOOLEAN]
      /\ kstack \in [Slots -> BOOLEAN]
    BY DEF Init
<1> QED
    BY <1>1, <1>2, <1>3 DEF TypeOK

\* wakeup1() yields a table of states again.
LEMMA WokenType ==
  ASSUME TypeOK, NEW chans
  PROVE  Woken(chans) \in [Slots -> States]
BY DEF TypeOK, Woken, States

LEMMA SchedulingType ==
  ASSUME TypeOK, NEW c \in CPUS, Scheduling(c)
  PROVE  TypeOK'
<1> USE SlotFacts DEF TypeOK, States, Labels, Unlocked, Building, Goto, Runs, idVars
<1>1. CASE SchedAcquire(c)  BY <1>1 DEF SchedAcquire
<1>2. CASE SchedRelease(c)  BY <1>2 DEF SchedRelease
<1>3. CASE Sched(c)         BY <1>3 DEF Sched
<1>4. CASE Resume(c)        BY <1>4 DEF Resume
<1>5. CASE Yield(c)         BY <1>5 DEF Yield
<1>6. CASE \E p \in Slots : Dispatch(c, p)  BY <1>6 DEF Dispatch
<1> QED  BY <1>1, <1>2, <1>3, <1>4, <1>5, <1>6 DEF Scheduling

LEMMA ForkingType ==
  ASSUME TypeOK, NEW c \in CPUS, Forking(c)
  PROVE  TypeOK'
<1> USE SlotFacts DEF TypeOK, States, Labels, Unlocked, Building, Goto, Runs,
            cpuVars, idVars
<1>1. CASE AllocProc(c)   BY <1>1, SizeAssumption DEF AllocProc, InState
<1>2. CASE AllocStack(c)  BY <1>2 DEF AllocStack
<1>3. CASE AllocFails(c)  BY <1>3 DEF AllocFails
<1>4. CASE ForkCopy(c)    BY <1>4 DEF ForkCopy
<1>5. CASE ForkFails(c)   BY <1>5 DEF ForkFails
<1>6. CASE Launch(c)      BY <1>6 DEF Launch
<1> QED  BY <1>1, <1>2, <1>3, <1>4, <1>5, <1>6 DEF Forking

LEMMA EndingType ==
  ASSUME TypeOK, NEW c \in CPUS, Ending(c)
  PROVE  TypeOK'
<1> USE SlotFacts DEF TypeOK, States, Labels, Unlocked, Building, Goto, Runs,
            cpuVars, idVars
<1>1. CASE ExitCall(c)    BY <1>1 DEF ExitCall
<1>2. CASE ExitKilled(c)  BY <1>2 DEF ExitKilled
<1>3. CASE Fault(c)       BY <1>3 DEF Fault
<1>4. CASE InitExits(c)   BY <1>4 DEF InitExits
<1>5. CASE Exit(c)        BY <1>5 DEF Exit, Woken, Adopted
<1>6. CASE Reap(c)        BY <1>6, SizeAssumption DEF Reap, InWait,
                                      ZombieChildren, Children
<1>7. CASE WaitFails(c)   BY <1>7 DEF WaitFails, InWait
<1>8. CASE WaitSleep(c)   BY <1>8 DEF WaitSleep, InWait
<1> QED  BY <1>1, <1>2, <1>3, <1>4, <1>5, <1>6, <1>7, <1>8 DEF Ending

LEMMA CallingType ==
  ASSUME TypeOK, NEW c \in CPUS, Calling(c)
  PROVE  TypeOK'
<1> USE SlotFacts DEF TypeOK, States, Labels, Unlocked, Building, Goto,
            Runs, cpuVars, idVars
<1>1. CASE Syscall(c)    BY <1>1 DEF Syscall
<1>2. CASE SysReturn(c)  BY <1>2 DEF SysReturn
<1>3. CASE Sleep(c)      BY <1>3 DEF Sleep
<1>4. CASE \E k \in 0..MAXPID : Kill(c, k)  BY <1>4 DEF Kill, Roused
<1> QED  BY <1>1, <1>2, <1>3, <1>4 DEF Calling

LEMMA NextType == TypeOK /\ [Next]_vars => TypeOK'
<1> SUFFICES ASSUME TypeOK, [Next]_vars PROVE TypeOK'
    OBVIOUS
<1>1. CASE \E c \in CPUS :
             Scheduling(c) \/ Forking(c) \/ Ending(c) \/ Calling(c)
      BY <1>1, SchedulingType, ForkingType, EndingType, CallingType
<1>2. CASE Wakeup
      BY <1>2, WokenType DEF Wakeup, TypeOK, cpuVars, idVars
<1>3. CASE UNCHANGED vars
      BY <1>3 DEF TypeOK, vars
<1> QED
    BY <1>1, <1>2, <1>3 DEF Next, Halted

(* Type correctness: no handler leaves the domain of its variables.        *)
THEOREM TypeCorrect == Spec => []TypeOK
BY InitType, NextType, PTL DEF Spec

-----------------------------------------------------------------------------
(***************************************************************************)
(* The slot that a fork() in progress builds, from ForkInv.                *)
(***************************************************************************)
LEMMA Builder ==
  ASSUME IInv, NEW c \in CPUS, NEW l \in Building,
         Runs(c, running[c], l)
  PROVE  LET p == running[c] np == child[running[c]] IN
         /\ p \in Slots /\ np \in Slots /\ np # p
         /\ state[p] = "RUNNING" /\ state[np] = "EMBRYO"
         /\ kstack[np] <=> l \notin {"alloc", "unfork"}
         /\ parent[np] = IF l = "launch" THEN p ELSE NoSlot
BY DEF IInv, TypeOK, ForkInv, Building, Runs

\* The steps of one CPU.
OfCPU(c) == Scheduling(c) \/ Forking(c) \/ Ending(c) \/ Calling(c)

(* ptable.lock is handed over with the CPU, so a CPU is alone on its stack. *)
LEMMA CpuInvStep ==
  ASSUME IInv, TypeOK', NEW c \in CPUS, OfCPU(c)
  PROVE  CpuInv'
<1> USE SlotFacts, CpuAssumption
    DEF Building, IInv, TypeOK, CpuInv, Runs, Goto,
        cpuVars, idVars
<1>1. CASE SchedAcquire(c)  BY <1>1 DEF SchedAcquire
<1>2. CASE SchedRelease(c)  BY <1>2 DEF SchedRelease
<1>3. CASE Sched(c)  BY <1>3 DEF Sched
<1>4. CASE Resume(c)  BY <1>4 DEF Resume
<1>5. CASE Yield(c)  BY <1>5 DEF Yield
<1>6. CASE \E p \in Slots : Dispatch(c, p)  BY <1>6 DEF Dispatch
<1>7. CASE AllocProc(c)  BY <1>7 DEF AllocProc, InState
<1>8. CASE AllocStack(c)  BY <1>8 DEF AllocStack
<1>9. CASE AllocFails(c)  BY <1>9, Builder DEF AllocFails
<1>10. CASE ForkCopy(c)  BY <1>10 DEF ForkCopy
<1>11. CASE ForkFails(c)  BY <1>11, Builder DEF ForkFails
<1>12. CASE Launch(c)  BY <1>12, Builder DEF Launch
<1>13. CASE ExitCall(c)  BY <1>13 DEF ExitCall
<1>14. CASE ExitKilled(c)  BY <1>14 DEF ExitKilled
<1>15. CASE Fault(c)  BY <1>15 DEF Fault
<1>16. CASE InitExits(c)  BY <1>16 DEF InitExits
<1>17. CASE Exit(c)  BY <1>17 DEF Exit, Woken, ExitWakes, Adopted, Children
<1>18. CASE Reap(c)
      BY <1>18 DEF Reap, InWait, ZombieChildren, Children, InState
<1>19. CASE WaitFails(c)  BY <1>19 DEF WaitFails, InWait
<1>20. CASE WaitSleep(c)
      BY <1>20 DEF WaitSleep, InWait, ZombieChildren, Children, InState
<1>21. CASE Syscall(c)  BY <1>21 DEF Syscall
<1>22. CASE SysReturn(c)  BY <1>22 DEF SysReturn
<1>23. CASE Sleep(c)  BY <1>23 DEF Sleep
<1>24. CASE \E k \in 0..MAXPID : Kill(c, k)  BY <1>24 DEF Kill, Roused
<1> QED
    BY <1>1, <1>2, <1>3, <1>4, <1>5, <1>6, <1>7, <1>8, <1>9, <1>10, <1>11, <1>12,
       <1>13, <1>14, <1>15, <1>16, <1>17, <1>18, <1>19, <1>20, <1>21, <1>22, <1>23, <1>24
    DEF OfCPU, Scheduling, Forking, Ending, Calling

(* A slot has a kernel stack exactly while it is in use.                   *)
LEMMA SlotInvStep ==
  ASSUME IInv, TypeOK', NEW c \in CPUS, OfCPU(c)
  PROVE  SlotInv'
<1> USE SlotFacts, CpuAssumption
    DEF Building, IInv, TypeOK, SlotInv, StackOwned, Live, Runs, Goto,
        cpuVars, idVars
<1>1. CASE SchedAcquire(c)  BY <1>1 DEF SchedAcquire
<1>2. CASE SchedRelease(c)  BY <1>2 DEF SchedRelease
<1>3. CASE Sched(c)  BY <1>3 DEF Sched
<1>4. CASE Resume(c)  BY <1>4 DEF Resume
<1>5. CASE Yield(c)  BY <1>5 DEF Yield
<1>6. CASE \E p \in Slots : Dispatch(c, p)  BY <1>6 DEF Dispatch
<1>7. CASE AllocProc(c)  BY <1>7 DEF AllocProc, InState
<1>8. CASE AllocStack(c)  BY <1>8, Builder DEF AllocStack
<1>9. CASE AllocFails(c)  BY <1>9, Builder DEF AllocFails
<1>10. CASE ForkCopy(c)  BY <1>10, Builder DEF ForkCopy
<1>11. CASE ForkFails(c)  BY <1>11, Builder DEF ForkFails
<1>12. CASE Launch(c)  BY <1>12, Builder DEF Launch
<1>13. CASE ExitCall(c)  BY <1>13 DEF ExitCall
<1>14. CASE ExitKilled(c)  BY <1>14 DEF ExitKilled
<1>15. CASE Fault(c)  BY <1>15 DEF Fault
<1>16. CASE InitExits(c)  BY <1>16 DEF InitExits
<1>17. CASE Exit(c)  BY <1>17 DEF Exit, Woken, ExitWakes, Adopted, Children
<1>18. CASE Reap(c)
      BY <1>18 DEF Reap, InWait, ZombieChildren, Children, InState
<1>19. CASE WaitFails(c)  BY <1>19 DEF WaitFails, InWait
<1>20. CASE WaitSleep(c)
      BY <1>20 DEF WaitSleep, InWait, ZombieChildren, Children, InState
<1>21. CASE Syscall(c)  BY <1>21 DEF Syscall
<1>22. CASE SysReturn(c)  BY <1>22 DEF SysReturn
<1>23. CASE Sleep(c)  BY <1>23 DEF Sleep
<1>24. CASE \E k \in 0..MAXPID : Kill(c, k)  BY <1>24 DEF Kill, Roused
<1> QED
    BY <1>1, <1>2, <1>3, <1>4, <1>5, <1>6, <1>7, <1>8, <1>9, <1>10, <1>11, <1>12,
       <1>13, <1>14, <1>15, <1>16, <1>17, <1>18, <1>19, <1>20, <1>21, <1>22, <1>23, <1>24
    DEF OfCPU, Scheduling, Forking, Ending, Calling

(* exit() leaves no process without a live parent.                         *)
LEMMA FamilyInvStep ==
  ASSUME IInv, TypeOK', NEW c \in CPUS, OfCPU(c)
  PROVE  FamilyInv'
<1> USE SlotFacts, CpuAssumption
    DEF Building, IInv, TypeOK, FamilyInv, ParentAlive, Live, Runs, Goto,
        cpuVars, idVars
<1>1. CASE SchedAcquire(c)  BY <1>1 DEF SchedAcquire
<1>2. CASE SchedRelease(c)  BY <1>2 DEF SchedRelease
<1>3. CASE Sched(c)  BY <1>3 DEF Sched
<1>4. CASE Resume(c)  BY <1>4 DEF Resume
<1>5. CASE Yield(c)  BY <1>5 DEF Yield
<1>6. CASE \E p \in Slots : Dispatch(c, p)  BY <1>6 DEF Dispatch
<1>7. CASE AllocProc(c)  BY <1>7 DEF AllocProc, InState
<1>8. CASE AllocStack(c)  BY <1>8 DEF AllocStack
<1>9. CASE AllocFails(c)  BY <1>9, Builder DEF AllocFails
<1>10. CASE ForkCopy(c)  BY <1>10, Builder DEF ForkCopy
<1>11. CASE ForkFails(c)  BY <1>11, Builder DEF ForkFails
<1>12. CASE Launch(c)  BY <1>12, Builder DEF Launch
<1>13. CASE ExitCall(c)  BY <1>13 DEF ExitCall
<1>14. CASE ExitKilled(c)  BY <1>14 DEF ExitKilled
<1>15. CASE Fault(c)  BY <1>15 DEF Fault
<1>16. CASE InitExits(c)  BY <1>16 DEF InitExits
<1>17. CASE Exit(c)  BY <1>17 DEF Exit, Woken, ExitWakes, Adopted, Children
<1>18. CASE Reap(c)
      BY <1>18 DEF Reap, InWait, ZombieChildren, Children, InState
<1>19. CASE WaitFails(c)  BY <1>19 DEF WaitFails, InWait
<1>20. CASE WaitSleep(c)
      BY <1>20 DEF WaitSleep, InWait, ZombieChildren, Children, InState
<1>21. CASE Syscall(c)  BY <1>21 DEF Syscall
<1>22. CASE SysReturn(c)  BY <1>22 DEF SysReturn
<1>23. CASE Sleep(c)  BY <1>23 DEF Sleep
<1>24. CASE \E k \in 0..MAXPID : Kill(c, k)  BY <1>24 DEF Kill, Roused
<1> QED
    BY <1>1, <1>2, <1>3, <1>4, <1>5, <1>6, <1>7, <1>8, <1>9, <1>10, <1>11, <1>12,
       <1>13, <1>14, <1>15, <1>16, <1>17, <1>18, <1>19, <1>20, <1>21, <1>22, <1>23, <1>24
    DEF OfCPU, Scheduling, Forking, Ending, Calling

(* pids are handed out in increasing order.                                *)
LEMMA PidInvStep ==
  ASSUME IInv, TypeOK', NEW c \in CPUS, OfCPU(c)
  PROVE  PidInv'
<1> USE SlotFacts, CpuAssumption
    DEF Building, IInv, TypeOK, PidInv, PidUnique, Runs, Goto,
        cpuVars, idVars
<1>1. CASE SchedAcquire(c)  BY <1>1 DEF SchedAcquire
<1>2. CASE SchedRelease(c)  BY <1>2 DEF SchedRelease
<1>3. CASE Sched(c)  BY <1>3 DEF Sched
<1>4. CASE Resume(c)  BY <1>4 DEF Resume
<1>5. CASE Yield(c)  BY <1>5 DEF Yield
<1>6. CASE \E p \in Slots : Dispatch(c, p)  BY <1>6 DEF Dispatch
<1>7. CASE AllocProc(c)  BY <1>7 DEF AllocProc, InState
<1>8. CASE AllocStack(c)  BY <1>8 DEF AllocStack
<1>9. CASE AllocFails(c)  BY <1>9 DEF AllocFails
<1>10. CASE ForkCopy(c)  BY <1>10 DEF ForkCopy
<1>11. CASE ForkFails(c)  BY <1>11 DEF ForkFails
<1>12. CASE Launch(c)  BY <1>12 DEF Launch
<1>13. CASE ExitCall(c)  BY <1>13 DEF ExitCall
<1>14. CASE ExitKilled(c)  BY <1>14 DEF ExitKilled
<1>15. CASE Fault(c)  BY <1>15 DEF Fault
<1>16. CASE InitExits(c)  BY <1>16 DEF InitExits
<1>17. CASE Exit(c)  BY <1>17 DEF Exit, Woken, ExitWakes, Adopted, Children
<1>18. CASE Reap(c)
      BY <1>18 DEF Reap, InWait, ZombieChildren, Children, InState
<1>19. CASE WaitFails(c)  BY <1>19 DEF WaitFails, InWait
<1>20. CASE WaitSleep(c)
      BY <1>20 DEF WaitSleep, InWait, ZombieChildren, Children, InState
<1>21. CASE Syscall(c)  BY <1>21 DEF Syscall
<1>22. CASE SysReturn(c)  BY <1>22 DEF SysReturn
<1>23. CASE Sleep(c)  BY <1>23 DEF Sleep
<1>24. CASE \E k \in 0..MAXPID : Kill(c, k)  BY <1>24 DEF Kill, Roused
<1> QED
    BY <1>1, <1>2, <1>3, <1>4, <1>5, <1>6, <1>7, <1>8, <1>9, <1>10, <1>11, <1>12,
       <1>13, <1>14, <1>15, <1>16, <1>17, <1>18, <1>19, <1>20, <1>21, <1>22, <1>23, <1>24
    DEF OfCPU, Scheduling, Forking, Ending, Calling

\* allocproc() takes a slot that no other fork() is building.
LEMMA AllocForks ==
  ASSUME IInv, TypeOK', NEW c \in CPUS, AllocProc(c)
  PROVE  ForkInv'
<1> DEFINE p == running[c]
<1>1. p \in Slots /\ state[p] = "RUNNING" /\ pc[p] = "kernel"
    BY DEF IInv, TypeOK, AllocProc, Runs
<1>2. PICK np \in Slots :
        /\ state[np] = "UNUSED" /\ state' = [state EXCEPT ![np] = "EMBRYO"]
        /\ child' = [child EXCEPT ![p] = np]
    BY DEF AllocProc, InState
<1>3. pc' = [pc EXCEPT ![p] = "alloc"] /\ UNCHANGED <<kstack, parent>>
    BY DEF AllocProc, Goto
<1>4. ~kstack[np] /\ parent[np] = NoSlot
    BY <1>2 DEF IInv, SlotInv, StackOwned
<1>5. child[p] = NoSlot
    BY <1>1 DEF IInv, ForkInv, Building
<1>6. \A q \in Slots : child[q] # np
    BY <1>2, SlotFacts DEF IInv, ForkInv, Building, TypeOK
<1> QED
    BY <1>1, <1>2, <1>3, <1>4, <1>5, <1>6, SlotFacts DEF IInv, ForkInv, Building, TypeOK

(* Nobody disturbs a slot that a fork() is building.                       *)
LEMMA ForkInvStep ==
  ASSUME IInv, TypeOK', NEW c \in CPUS, OfCPU(c)
  PROVE  ForkInv'
<1> USE SlotFacts, CpuAssumption
    DEF IInv, TypeOK, ForkInv, Building, Runs, Goto,
        cpuVars, idVars
<1>1. CASE SchedAcquire(c)  BY <1>1 DEF SchedAcquire
<1>2. CASE SchedRelease(c)  BY <1>2 DEF SchedRelease
<1>3. CASE Sched(c)  BY <1>3 DEF Sched
<1>4. CASE Resume(c)  BY <1>4 DEF Resume
<1>5. CASE Yield(c)  BY <1>5 DEF Yield
<1>6. CASE \E p \in Slots : Dispatch(c, p)  BY <1>6 DEF Dispatch
<1>7. CASE AllocProc(c)  BY <1>7, AllocForks
<1>8. CASE AllocStack(c)  BY <1>8 DEF AllocStack
<1>9. CASE AllocFails(c)  BY <1>9 DEF AllocFails
<1>10. CASE ForkCopy(c)  BY <1>10 DEF ForkCopy
<1>11. CASE ForkFails(c)  BY <1>11 DEF ForkFails
<1>12. CASE Launch(c)  BY <1>12 DEF Launch
<1>13. CASE ExitCall(c)  BY <1>13 DEF ExitCall
<1>14. CASE ExitKilled(c)  BY <1>14 DEF ExitKilled
<1>15. CASE Fault(c)  BY <1>15 DEF Fault
<1>16. CASE InitExits(c)  BY <1>16 DEF InitExits
<1>17. CASE Exit(c)  BY <1>17 DEF Exit, Woken, ExitWakes, Adopted, Children
<1>18. CASE Reap(c)
      BY <1>18 DEF Reap, InWait, ZombieChildren, Children, InState
<1>19. CASE WaitFails(c)  BY <1>19 DEF WaitFails, InWait
<1>20. CASE WaitSleep(c)
      BY <1>20 DEF WaitSleep, InWait, ZombieChildren, Children, InState
<1>21. CASE Syscall(c)  BY <1>21 DEF Syscall
<1>22. CASE SysReturn(c)  BY <1>22 DEF SysReturn
<1>23. CASE Sleep(c)  BY <1>23 DEF Sleep
<1>24. CASE \E k \in 0..MAXPID : Kill(c, k)  BY <1>24 DEF Kill, Roused
<1> QED
    BY <1>1, <1>2, <1>3, <1>4, <1>5, <1>6, <1>7, <1>8, <1>9, <1>10, <1>11, <1>12,
       <1>13, <1>14, <1>15, <1>16, <1>17, <1>18, <1>19, <1>20, <1>21, <1>22, <1>23, <1>24
    DEF OfCPU, Scheduling, Forking, Ending, Calling

\* exit() leaves nobody asleep who should see the zombie it makes, or one of
\* the zombies it hands to init.
LEMMA ExitTellsAll ==
  ASSUME IInv, TypeOK', NEW c \in CPUS, Exit(c)
  PROVE  NoLostWakeup'
<1> DEFINE q == running[c]
<1>1. /\ q \in Slots /\ q # Init0 /\ state[q] = "RUNNING"
      /\ parent[q] # q
      BY DEF IInv, TypeOK, Exit, Runs, FamilyInv
<1>2. /\ parent' = [s \in Slots |-> IF parent[s] = q THEN Init0 ELSE parent[s]]
      /\ chan' = chan /\ killed' = killed
      BY DEF Exit, Adopted
<1>3. \A s \in Slots : state'[s] = "SLEEPING" =>
        /\ state[s] = "SLEEPING"
        /\ chan[s] # parent[q]
        /\ chan[s] = Init0 => \A t \in Children(q) : state[t] # "ZOMBIE"
      BY <1>1 DEF IInv, TypeOK, Exit, Woken, ExitWakes, Children
<1>4. \A t \in Slots : state'[t] = "ZOMBIE" => t = q \/ state[t] = "ZOMBIE"
      BY <1>1 DEF IInv, TypeOK, Exit, Woken
<1> SUFFICES ASSUME NEW p \in Slots, state'[p] = "SLEEPING", chan'[p] = p
             PROVE  Children(p)' # {} /\ ZombieChildren(p)' = {} /\ ~killed'[p]
    BY DEF NoLostWakeup
<1>5. /\ state[p] = "SLEEPING" /\ chan[p] = p /\ p # q /\ p # parent[q]
      /\ Children(p) # {} /\ ZombieChildren(p) = {} /\ ~killed[p]
      BY <1>1, <1>2, <1>3 DEF IInv, NoLostWakeup
<1>6. Children(p) \subseteq Children(p)'
      BY <1>2, <1>5 DEF Children, IInv, TypeOK
<1>7. ASSUME NEW z \in Slots, parent'[z] = p, state'[z] = "ZOMBIE"
      PROVE  FALSE
  <2>1. CASE parent[z] = p
        BY <2>1, <1>4, <1>5, <1>7 DEF ZombieChildren, Children, InState
  <2>2. CASE parent[z] = q /\ p = Init0
        BY <2>2, <1>1, <1>3, <1>4, <1>5, <1>7 DEF Children
  <2> QED BY <2>1, <2>2, <1>2, <1>7
<1> QED
    BY <1>2, <1>5, <1>6, <1>7 DEF ZombieChildren, Children, InState

(* Nobody sleeps in wait() past the event it waits for.                    *)
LEMMA NoLostWakeupStep ==
  ASSUME IInv, TypeOK', NEW c \in CPUS, OfCPU(c)
  PROVE  NoLostWakeup'
<1> USE SlotFacts, CpuAssumption
    DEF Building, IInv, TypeOK, NoLostWakeup, ZombieChildren, Children, InState, Runs, Goto,
        cpuVars, idVars
<1>1. CASE SchedAcquire(c)  BY <1>1 DEF SchedAcquire
<1>2. CASE SchedRelease(c)  BY <1>2 DEF SchedRelease
<1>3. CASE Sched(c)  BY <1>3 DEF Sched
<1>4. CASE Resume(c)  BY <1>4 DEF Resume
<1>5. CASE Yield(c)  BY <1>5 DEF Yield
<1>6. CASE \E p \in Slots : Dispatch(c, p)  BY <1>6 DEF Dispatch
<1>7. CASE AllocProc(c)  BY <1>7 DEF AllocProc
<1>8. CASE AllocStack(c)  BY <1>8 DEF AllocStack
<1>9. CASE AllocFails(c)  BY <1>9 DEF AllocFails
<1>10. CASE ForkCopy(c)  BY <1>10, Builder DEF ForkCopy
<1>11. CASE ForkFails(c)  BY <1>11 DEF ForkFails
<1>12. CASE Launch(c)  BY <1>12 DEF Launch
<1>13. CASE ExitCall(c)  BY <1>13 DEF ExitCall
<1>14. CASE ExitKilled(c)  BY <1>14 DEF ExitKilled
<1>15. CASE Fault(c)  BY <1>15 DEF Fault
<1>16. CASE InitExits(c)  BY <1>16 DEF InitExits
<1>17. CASE Exit(c)  BY <1>17, ExitTellsAll
<1>18. CASE Reap(c)  BY <1>18 DEF Reap, InWait
<1>19. CASE WaitFails(c)  BY <1>19 DEF WaitFails, InWait
<1>20. CASE WaitSleep(c)  BY <1>20 DEF WaitSleep, InWait
<1>21. CASE Syscall(c)  BY <1>21 DEF Syscall
<1>22. CASE SysReturn(c)  BY <1>22 DEF SysReturn
<1>23. CASE Sleep(c)  BY <1>23 DEF Sleep
<1>24. CASE \E k \in 0..MAXPID : Kill(c, k)  BY <1>24 DEF Kill, Roused
<1> QED
    BY <1>1, <1>2, <1>3, <1>4, <1>5, <1>6, <1>7, <1>8, <1>9, <1>10, <1>11, <1>12,
       <1>13, <1>14, <1>15, <1>16, <1>17, <1>18, <1>19, <1>20, <1>21, <1>22, <1>23, <1>24
    DEF OfCPU, Scheduling, Forking, Ending, Calling

(***************************************************************************)
(* The inductive invariant.                                                *)
(***************************************************************************)
LEMMA InitIInv == Init => IInv
<1> SUFFICES ASSUME Init PROVE IInv
    OBVIOUS
<1>1. TypeOK
    BY InitType
<1>2. /\ \A s \in Slots : state[s] = IF s = Init0 THEN "RUNNABLE" ELSE "UNUSED"
      /\ \A s \in Slots : /\ parent[s] = NoSlot /\ child[s] = NoSlot
                         /\ pc[s] = "user"
      /\ \A c \in CPUS : running[c] = NoSlot
    BY DEF Init
<1>3. \A s \in Slots : kstack[s] <=> s = Init0
    BY DEF Init
<1>4. \A s \in Slots : pid[s] = (IF s = Init0 THEN 1 ELSE 0) /\ nextpid = 2
    BY DEF Init
<1>5. CpuInv /\ ForkInv
    BY <1>2, SlotFacts DEF CpuInv, ForkInv, Building
<1>6. SlotInv
    BY <1>2, <1>3 DEF SlotInv, StackOwned, Live
<1>7. FamilyInv
    BY <1>2, SlotFacts DEF FamilyInv, ParentAlive, Live
<1>8. PidInv
  <2>1. \A s \in Slots : pid[s] < nextpid
        BY <1>4
  <2>2. PidUnique
        BY <1>4, SlotFacts DEF PidUnique
  <2> QED
        BY <2>1, <2>2 DEF PidInv
<1>9. NoLostWakeup
    BY <1>2 DEF NoLostWakeup
<1> QED
    BY <1>1, <1>5, <1>6, <1>7, <1>8, <1>9 DEF IInv

\* wakeup() of a device channel leaves those who sleep in wait() alone.
LEMMA WakeupStep == IInv /\ TypeOK' /\ Wakeup => IInv'
<1> SUFFICES ASSUME IInv, TypeOK', Wakeup PROVE IInv'
    OBVIOUS
<1> USE SlotFacts, CpuAssumption
    DEF Building, IInv, TypeOK, Wakeup, Woken, cpuVars, idVars
<1>1. CpuInv'        BY DEF CpuInv
<1>2. ForkInv'       BY DEF ForkInv, Building
<1>3. SlotInv'       BY DEF SlotInv, StackOwned, Live
<1>4. FamilyInv'     BY DEF FamilyInv, ParentAlive, Live
<1>5. PidInv'        BY DEF PidInv, PidUnique
<1>6. NoLostWakeup'  BY DEF NoLostWakeup, ZombieChildren, Children, InState
<1> QED              BY <1>1, <1>2, <1>3, <1>4, <1>5, <1>6

LEMMA NextIInv == IInv /\ [Next]_vars => IInv'
<1> SUFFICES ASSUME IInv, [Next]_vars PROVE IInv'
    OBVIOUS
<1>1. TypeOK'
    BY NextType DEF IInv
<1>2. CASE \E c \in CPUS : OfCPU(c)
    BY <1>1, <1>2, CpuInvStep, SlotInvStep, FamilyInvStep, PidInvStep,
       ForkInvStep, NoLostWakeupStep DEF IInv
<1>3. CASE Wakeup
    BY <1>1, <1>3, WakeupStep
<1>4. CASE UNCHANGED vars
    BY <1>4 DEF vars, IInv, TypeOK, CpuInv, ForkInv, Building, SlotInv, StackOwned,
       FamilyInv, ParentAlive, PidInv, PidUnique, NoLostWakeup, ZombieChildren,
       Children, InState
<1> QED
    BY <1>2, <1>3, <1>4 DEF Next, Halted, OfCPU

THEOREM Inductive == Spec => []IInv
BY InitIInv, NextIInv, PTL DEF Spec

-----------------------------------------------------------------------------
(* What follows from the inductive invariant.                              *)

\* No stack is shared by two CPUs or freed under one.
THEOREM StackSafety == Spec => []OwnStack
<1>1. IInv => OwnStack
    BY DEF IInv, TypeOK, CpuInv, SlotInv, StackOwned, Live, OwnStack
<1> QED
    BY <1>1, Inductive, PTL

\* A process asleep in wait() has something to wait for.
THEOREM WaitSafety == Spec => []NoLostWakeup
<1>1. IInv => NoLostWakeup
    BY DEF IInv
<1> QED
    BY <1>1, Inductive, PTL

\* Every process but init has a live parent, which can collect it.
THEOREM OrphanSafety == Spec => []ParentAlive
<1>1. IInv => ParentAlive
    BY DEF IInv, FamilyInv
<1> QED
    BY <1>1, Inductive, PTL

\* kill(pid) cannot hit the wrong process: nobody shares a pid.
THEOREM PidSafety == Spec => []PidUnique
<1>1. IInv => PidUnique
    BY DEF IInv, PidInv
<1> QED
    BY <1>1, Inductive, PTL

\* Kernel stacks are neither leaked nor missing.
THEOREM StackAccounting == Spec => []StackOwned
<1>1. IInv => StackOwned
    BY DEF IInv, SlotInv
<1> QED
    BY <1>1, Inductive, PTL

(***************************************************************************)
(* A zombie is only ever collected, by its own parent, once off its stack. *)
(***************************************************************************)
LEMMA ReapZombie ==
  ASSUME IInv, NEW c \in CPUS, Reap(c), NEW s \in Slots
  PROVE  ZombieStep(s)
<1> SUFFICES ASSUME state[s] = "ZOMBIE", state'[s] # "ZOMBIE"
             PROVE  /\ state'[s] = "UNUSED" /\ running[c] = parent[s]
                    /\ \A d \in CPUS : running[d] # s
    BY DEF ZombieStep
<1>1. PICK z \in ZombieChildren(running[c]) :
         state' = [state EXCEPT ![z] = "UNUSED"]
    BY DEF Reap
<1>2. z = s /\ state'[s] = "UNUSED" /\ parent[s] = running[c]
    BY <1>1 DEF ZombieChildren, Children, IInv, TypeOK
<1>3. lock \in {c, NoCpu} /\ running[c] # s
    BY DEF Reap, InWait, Runs
<1>4. \A d \in CPUS : running[d] # s
    BY <1>3, CpuAssumption, SlotFacts DEF IInv, CpuInv
<1> QED
    BY <1>2, <1>4

LEMMA OnlyReap ==
  ASSUME IInv, [Next]_vars, NEW s \in Slots
  PROVE  ZombieStep(s)
<1> SUFFICES ASSUME \A c \in CPUS : ~Reap(c),
                    state[s] = "ZOMBIE", state'[s] # "ZOMBIE"
             PROVE  FALSE
    BY ReapZombie DEF ZombieStep
<1> USE SlotFacts DEF Building, IInv, TypeOK, Runs
<1>1. ASSUME NEW c \in CPUS, Scheduling(c) PROVE FALSE
    BY <1>1 DEF Scheduling, SchedAcquire, SchedRelease, Sched, Resume, Yield,
                Dispatch
<1>2. ASSUME NEW c \in CPUS, Forking(c) PROVE FALSE
  <2>1. CASE AllocProc(c)   BY <2>1 DEF AllocProc, InState
  <2>2. CASE AllocStack(c)  BY <2>2 DEF AllocStack
  <2>3. CASE AllocFails(c)  BY <2>3, Builder DEF AllocFails
  <2>4. CASE ForkCopy(c)    BY <2>4 DEF ForkCopy
  <2>5. CASE ForkFails(c)   BY <2>5, Builder DEF ForkFails
  <2>6. CASE Launch(c)      BY <2>6, Builder DEF Launch
  <2> QED  BY <1>2, <2>1, <2>2, <2>3, <2>4, <2>5, <2>6 DEF Forking
<1>3. ASSUME NEW c \in CPUS, Ending(c) PROVE FALSE
    BY <1>3 DEF Ending, ExitCall, ExitKilled, Fault, InitExits, Exit, Woken,
                WaitFails, WaitSleep, InWait, cpuVars
<1>4. ASSUME NEW c \in CPUS, Calling(c) PROVE FALSE
    BY <1>4 DEF Calling, Syscall, SysReturn, Sleep, Kill, Roused, cpuVars
<1>5. CASE Wakeup
    BY <1>5 DEF Wakeup, Woken
<1>6. CASE UNCHANGED vars
    BY <1>6 DEF vars
<1> QED
    BY <1>1, <1>2, <1>3, <1>4, <1>5, <1>6 DEF Next, Halted

\* Nothing but the wait() of its parent takes a zombie out of the table.
THEOREM ZombieSafety == Spec => ZombieStaysDead
<1>1. IInv /\ [Next]_vars => [\A s \in Slots : ZombieStep(s)]_vars
    BY OnlyReap
<1> QED
    BY <1>1, Inductive, PTL DEF Spec, ZombieStaysDead

-----------------------------------------------------------------------------
(***************************************************************************)
(* Proc implements ProcTree: Launch is a Spawn, Exit a Die, Reap a         *)
(* Collect, and every other step of the kernel is a stutter.               *)
(***************************************************************************)
Life(s) == CASE state[s] \in {"UNUSED", "EMBRYO"} -> "free"
             [] state[s] = "ZOMBIE" -> "zombie"
             [] OTHER -> "alive"
Elder(s) == IF state[s] \in {"UNUSED", "EMBRYO"} THEN NoSlot ELSE parent[s]

LEMMA TreeInit == Init => Tree!Init
<1> SUFFICES ASSUME Init PROVE Tree!Init
    OBVIOUS
<1>1. \A s \in Slots : state[s] = IF s = Init0 THEN "RUNNABLE" ELSE "UNUSED"
    BY DEF Init
<1>2. \A s \in Slots : parent[s] = NoSlot
    BY DEF Init
<1> QED
    BY <1>1, <1>2 DEF Tree!Init, Tree!Slots, Tree!Init0, Tree!Nobody, Slots,
                      Init0, NoSlot

\* A step that keeps every slot's life and elder is a stutter of the tree.
LEMMA TreeStutter ==
  ASSUME \A s \in Slots : Life(s)' = Life(s) /\ Elder(s)' = Elder(s)
  PROVE  UNCHANGED Tree!vars
BY DEF Life, Elder, Tree!vars

\* The definitions of ProcTree, read over the process table.
LEMMA TreeDefs ==
  /\ Tree!Slots = Slots /\ Tree!Init0 = Init0 /\ Tree!Nobody = NoSlot
BY DEF Tree!Slots, Tree!Init0, Tree!Nobody, Slots, Init0, NoSlot

\* Launch: the child under construction comes to life below its parent.
LEMMA TreeLaunch ==
  ASSUME IInv, TypeOK', NEW c \in CPUS, Launch(c)
  PROVE  Tree!Next
<1>1. PICK p \in Slots, np \in Slots :
        /\ p = running[c] /\ np = child[p] /\ np # p
        /\ state[p] = "RUNNING" /\ state[np] = "EMBRYO" /\ parent[np] = p
    BY Builder DEF Launch, Building
<1>2. state' = [state EXCEPT ![np] = "RUNNABLE"] /\ parent' = parent
    BY <1>1 DEF Launch
<1>3. Tree!Spawn(p, np)
    BY <1>1, <1>2 DEF Tree!Spawn, IInv, TypeOK
<1> QED
    BY <1>3, TreeDefs DEF Tree!Next

\* Exit: p dies, its children go to init; wakeups change nothing here.
LEMMA TreeExit ==
  ASSUME IInv, TypeOK', NEW c \in CPUS, Exit(c)
  PROVE  Tree!Next
<1>1. PICK p \in Slots : /\ p = running[c] /\ p # Init0
                        /\ state[p] = "RUNNING" /\ pc[p] = "exit"
    BY DEF IInv, TypeOK, Exit, Runs
<1>2. parent' = [s \in Slots |-> IF parent[s] = p THEN Init0 ELSE parent[s]]
    BY <1>1 DEF Exit, Adopted
<1>3. \A s \in Slots :
        \/ s = p /\ state'[s] = "ZOMBIE"
        \/ s # p /\ state'[s] = state[s]
        \/ s # p /\ state[s] = "SLEEPING" /\ state'[s] = "RUNNABLE"
    BY <1>1 DEF Exit, Woken, IInv, TypeOK
<1>4. ASSUME NEW s \in Slots, state[s] \in {"UNUSED", "EMBRYO"}
      PROVE  parent[s] # p
  <2>1. CASE state[s] = "UNUSED"
        BY <2>1, <1>1, SlotFacts DEF IInv, SlotInv
  <2>2. CASE state[s] = "EMBRYO"
    <3>1. PICK q \in Slots : child[q] = s
          BY <2>2 DEF IInv, ForkInv, Building
    <3>2. pc[q] \in Building
          BY <3>1, SlotFacts DEF IInv, ForkInv, Building
    <3>3. parent[s] \in {q, NoSlot} /\ q # p
          BY <3>1, <3>2, <1>1 DEF IInv, ForkInv, Building
    <3> QED
          BY <3>3, <1>1, SlotFacts
  <2> QED
        BY <1>4, <2>1, <2>2
<1>5. \A s \in Slots : Life(s)' = IF s = p THEN "zombie" ELSE Life(s)
    BY <1>1, <1>3 DEF Life
<1>6. \A s \in Slots : Elder(s)' = IF Elder(s) = p THEN Init0 ELSE Elder(s)
    BY <1>1, <1>2, <1>3, <1>4, SlotFacts DEF Elder
<1>7. Life(p) = "alive"
    BY <1>1 DEF Life
<1>8. Tree!Die(p)
    BY <1>1, <1>5, <1>6, <1>7, TreeDefs DEF Tree!Die, Life, Elder
<1> QED
    BY <1>8, TreeDefs DEF Tree!Next

\* Reap: the parent collects z.
LEMMA TreeReap ==
  ASSUME IInv, TypeOK', NEW c \in CPUS, Reap(c)
  PROVE  Tree!Next
<1> DEFINE p == running[c]
<1>1. p \in Slots /\ state[p] = "RUNNING"
    BY DEF IInv, TypeOK, Reap, InWait, Runs
<1>2. PICK z \in Slots :
        /\ state[z] = "ZOMBIE" /\ parent[z] = p
        /\ state' = [state EXCEPT ![z] = "UNUSED"]
        /\ parent' = [parent EXCEPT ![z] = NoSlot]
    BY DEF Reap, ZombieChildren, Children, InState
<1>3. Tree!Collect(p, z)
    BY <1>1, <1>2, TreeDefs DEF Tree!Collect, IInv, TypeOK
<1> QED
    BY <1>1, <1>2, <1>3, TreeDefs DEF Tree!Next

\* All other steps of a CPU leave the tree alone.
LEMMA TreeQuiet ==
  ASSUME IInv, TypeOK', NEW c \in CPUS, OfCPU(c),
         ~Launch(c), ~Exit(c), ~Reap(c)
  PROVE  \A s \in Slots : Life(s)' = Life(s) /\ Elder(s)' = Elder(s)
<1> USE SlotFacts DEF Building, IInv, TypeOK, Runs, Life, Elder
<1>1. CASE Scheduling(c)
    BY <1>1 DEF Scheduling, SchedAcquire, SchedRelease, Sched, Resume, Yield,
                Dispatch
<1>2. CASE Forking(c)
  <2>1. CASE AllocProc(c)   BY <2>1 DEF AllocProc, InState
  <2>2. CASE AllocStack(c)  BY <2>2 DEF AllocStack, cpuVars
  <2>3. CASE AllocFails(c)  BY <2>3, Builder DEF AllocFails
  <2>4. CASE ForkCopy(c)    BY <2>4, Builder DEF ForkCopy
  <2>5. CASE ForkFails(c)   BY <2>5, Builder DEF ForkFails
  <2> QED  BY <1>2, <2>1, <2>2, <2>3, <2>4, <2>5 DEF Forking
<1>3. CASE Ending(c)
    BY <1>3 DEF Ending, ExitCall, ExitKilled, Fault, InitExits, WaitFails,
                WaitSleep, InWait, cpuVars
<1>4. CASE Calling(c)
  <2>1. CASE Syscall(c) \/ SysReturn(c)
        BY <2>1 DEF Syscall, SysReturn
  <2>2. CASE Sleep(c)
        BY <2>2 DEF Sleep
  <2>3. CASE \E k \in 0..MAXPID : Kill(c, k)
        BY <2>3 DEF Kill, Roused
  <2> QED
        BY <1>4, <2>1, <2>2, <2>3 DEF Calling
<1> QED
    BY <1>1, <1>2, <1>3, <1>4 DEF OfCPU

LEMMA TreeStep == IInv /\ [Next]_vars => [Tree!Next]_(Tree!vars)
<1> SUFFICES ASSUME IInv, [Next]_vars PROVE [Tree!Next]_(Tree!vars)
    OBVIOUS
<1>1. TypeOK'
    BY NextType DEF IInv
<1>2. ASSUME NEW c \in CPUS, OfCPU(c) PROVE [Tree!Next]_(Tree!vars)
    BY <1>1, <1>2, TreeLaunch, TreeExit, TreeReap, TreeQuiet, TreeStutter
<1>3. CASE Wakeup
  <2>1. \A s \in Slots : Life(s)' = Life(s) /\ Elder(s)' = Elder(s)
        BY <1>3 DEF Wakeup, Woken, Life, Elder, IInv, TypeOK
  <2> QED
        BY <2>1, TreeStutter
<1>4. CASE UNCHANGED vars
  <2>1. \A s \in Slots : Life(s)' = Life(s) /\ Elder(s)' = Elder(s)
        BY <1>4 DEF vars, Life, Elder
  <2> QED
        BY <2>1, TreeStutter
<1> QED
    BY <1>2, <1>3, <1>4 DEF Next, Halted, OfCPU

(* Every behaviour of the process table is a behaviour of the tree.        *)
THEOREM TreeImplemented == Spec => ImplementsTree
BY TreeInit, TreeStep, Inductive, PTL DEF Spec, ImplementsTree, Tree!Spec
=============================================================================
