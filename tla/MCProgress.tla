----------------------------- MODULE MCProgress -----------------------------
(***************************************************************************)
(* The parts that must come to an end or go on for ever, one at a time:    *)
(* the checker of images, the MapReduce library, the queue of one CPU and  *)
(* the shell.  PartsInit chooses the part; what belongs to the others      *)
(* alone stays as it is.                                                   *)
(***************************************************************************)
EXTENDS MCInputs, Sh

VARIABLES
  part,
  \* Xfsck
  image, ino, addr, above, directAddrArray, indirectAddrArray, used_datablock,
  count_db_inode, file_block_arr, dir_block_arr, dirPointedInodes,
  curAndpre_dir, badsize, exit_code, verdict,
  \* MapReduce
  combining, stage, next, sem, file, pos, keys, key, acc, seen, maplist,
  redlist, mutex, spare, old, gone, out,
  \* Mlfq
  lock, running, cursor, priority, tick_remain, slice_remain, wait_ticks,
  reg, passed, overrun,
  pc

xfsckVars == <<image, ino, addr, above, directAddrArray, indirectAddrArray,
                used_datablock, count_db_inode, file_block_arr,
                dir_block_arr, dirPointedInodes, curAndpre_dir, badsize,
                exit_code, verdict>>
reduceVars == <<combining, stage, next, sem, file, pos, keys, key, acc, seen,
                 maplist, redlist, mutex, spare, old, gone, out>>
mlfqVars == <<lock, running, cursor, priority, tick_remain, slice_remain,
               wait_ticks, reg, passed, overrun>>
shOnlyVars == <<sh, parent, todo, fd, prog, line, files, script, typed,
                begun, failed>>
partVars == <<part, pc, state, xfsckVars, reduceVars, mlfqVars, shOnlyVars>>

Checker == INSTANCE Xfsck WITH
  NINODES <- 4, MINSIZE <- 5, Images <- Families,
  i <- ino, j <- addr, at <- above
Counting == INSTANCE MapReduce WITH
  Files <- TextFiles, Keys <- {"k", "l"}, NMAPPER <- 3, NREDUCER <- 2,
  Partition <- [word \in {"k", "l"} |-> IF word = "k" THEN 0 ELSE 1]

\* One CPU, three levels, no boostproc(), up for less than slices[0] ticks.
Cpu == "cpu"
Turns == INSTANCE Mlfq WITH
  CPUS <- {Cpu}, NoCpu <- "none", NPROC <- 3, TOP <- 2,
  TimeSlice <- 0 :> 2 @@ 1 :> 2 @@ 2 :> 1,
  Slices <- 0 :> 4 @@ 1 :> 2 @@ 2 :> 2,
  AgeFactor <- 1, Garbage <- {1}, Boosters <- {}, Level0Expires <- FALSE,
  WAITCAP <- 3

ASSUME CountingAssumption == Counting!SizeAssumption

Off == 0
NoXfsck ==
  /\ image = Off /\ ino = Off /\ addr = Off /\ above = Off
  /\ directAddrArray = Off /\ indirectAddrArray = Off
  /\ used_datablock = Off /\ count_db_inode = Off /\ file_block_arr = Off
  /\ dir_block_arr = Off /\ dirPointedInodes = Off
  /\ curAndpre_dir = Off /\ badsize = Off /\ exit_code = Off
  /\ verdict = Off
NoReduce ==
  /\ combining = Off /\ stage = Off /\ next = Off /\ sem = Off /\ file = Off
  /\ pos = Off /\ keys = Off /\ key = Off /\ acc = Off /\ seen = Off
  /\ maplist = Off /\ redlist = Off /\ mutex = Off /\ spare = Off
  /\ old = Off /\ gone = Off /\ out = Off
NoMlfq ==
  /\ lock = Off /\ running = Off /\ cursor = Off /\ priority = Off
  /\ tick_remain = Off /\ slice_remain = Off /\ wait_ticks = Off
  /\ reg = Off /\ passed = Off /\ overrun = Off
NoSh ==
  /\ sh = Off /\ parent = Off /\ todo = Off /\ fd = Off /\ prog = Off
  /\ line = Off /\ files = Off /\ script = Off /\ typed = Off /\ begun = Off
  /\ failed = Off

PartsInit ==
  \/ /\ part = "xfsck" /\ Checker!Init /\ state = Off
     /\ NoReduce /\ NoMlfq /\ NoSh
  \/ /\ part = "mapreduce" /\ Counting!Init /\ state = Off
     /\ NoXfsck /\ NoMlfq /\ NoSh
  \/ /\ part = "mlfq" /\ Turns!Init
     /\ NoXfsck /\ NoReduce /\ NoSh
  \/ /\ part = "sh" /\ Init /\ pc = Off
     /\ NoXfsck /\ NoReduce /\ NoMlfq

XfsckNext ==
  /\ part = "xfsck" /\ Checker!Next
  /\ UNCHANGED <<part, state, reduceVars, mlfqVars, shOnlyVars>>
ReduceNext ==
  /\ part = "mapreduce" /\ Counting!Next
  /\ UNCHANGED <<part, state, xfsckVars, mlfqVars, shOnlyVars>>
MlfqNext(A) ==
  /\ part = "mlfq" /\ A
  /\ UNCHANGED <<part, xfsckVars, reduceVars, shOnlyVars>>
ShNext(A) ==
  /\ part = "sh" /\ A
  /\ UNCHANGED <<part, pc, xfsckVars, reduceVars, mlfqVars>>

PartsNext ==
  XfsckNext \/ ReduceNext \/ MlfqNext(Turns!Next) \/ ShNext(Next)

\* The fairness of Xfsck, of the scheduler and of Sh; and some thread of
\* MR_Run() goes on.
PartsProgress ==
  \/ XfsckNext \/ ReduceNext
  \/ MlfqNext(Turns!Scheduling(Cpu)) \/ ShNext(Progress)
PartsSpec ==
  PartsInit /\ [][PartsNext]_partVars /\ WF_partVars(PartsProgress)

-----------------------------------------------------------------------------
(* xfsck calls an image clean only if it is sound, complains only of one   *)
(* that is not consistent, and of none that mkfs has made (main() of       *)
(* xfsck.c, add_dir() of mkfs.c).                                          *)
VerdictRight ==
  part = "xfsck" =>
    /\ Checker!CleanIsSound /\ Checker!ConsistentIsClean
    /\ pc = "done" /\ image \in Made => verdict = "clean"

(* No word is lost or counted twice, and every key comes out with all its  *)
(* words (mapreduce.c).                                                    *)
WordsCounted ==
  part = "mapreduce" =>
    Counting!TypeOK /\ Counting!Conserved /\ Counting!AllReduced

(* Programs begin in order, and are wired as the line says (sh.c).         *)
ProgramsStart == part = "sh" => InOrder /\ ProgramsWired

(* A process may be dispatched only while it has some of its slices left,  *)
(* and at the top level waits for one time slice of each of the others at  *)
(* most, one of them of the top level (scheduler() of proc.c).             *)
TurnsBounded ==
  part = "mlfq" => Turns!BudgetPositive /\ Turns!TopWaitBounded

(* Once no more processes are created, a RUNNABLE process gets to run in   *)
(* the end, whatever level it is at, as long as at any time no more than   *)
(* AgeFactor others (one, in this instance) want the CPU: those above it   *)
(* are relegated before they are promoted.  With more of them it may wait  *)
(* for ever (scheduler() of proc.c).                                       *)
NoStarvation ==
  \A s \in 1..3 :
    <>[](part = "mlfq" =>
           \E t \in (1..3) \ {s} : \A q \in 1..3 :
             /\ state[q] # "EMBRYO"
             /\ q \notin {s, t} => state[q] \notin {"RUNNABLE", "RUNNING"}) =>
      ((part = "mlfq" /\ state[s] = "RUNNABLE")
         ~> (part = "mlfq" /\ state[s] = "RUNNING"))

(* xfsck ends, except on its way up from a directory whose parents lead    *)
(* neither to the root nor back to it; MR_Run() returns, no thread waiting *)
(* for a list that nobody gives back; and the prompt of the shell comes    *)
(* back, no program waiting for a pipe that nobody writes to, except when  *)
(* a background job has taken init's last slot (xfsck.c, mapreduce.c,      *)
(* sh.c, init.c).                                                          *)
PartsEnd ==
  []<>(\/ part = "xfsck" /\ (pc = "done" \/ Checker!Endless)
       \/ part = "mapreduce" /\ stage = "done"
       \/ part = "sh" /\ (Prompted \/ PanicJustified)
       \/ part = "mlfq")

=============================================================================
