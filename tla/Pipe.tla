-------------------------------- MODULE Pipe --------------------------------
(***************************************************************************)
(* A pipe of xv6 (kernel/pipe.c) with the two open files that share it     *)
(* (fileclose() and filedup() of kernel/file.c, sys_pipe() and sys_close() *)
(* of kernel/sysfile.c) and the processes that hold descriptors for them.  *)
(*                                                                         *)
(* pipewrite() and piperead() hold p->lock from one sleep() to the next,   *)
(* so what they do in between is one step, up to the one place where that  *)
(* is seen from outside: they read proc->killed, which kill() sets under   *)
(* another lock, before they sleep.  Here they stop with p->lock held      *)
(* (plock) between the test and the sleep().                               *)
(***************************************************************************)
EXTENDS Integers, Sequences, FiniteSets, FiniteSetsExt

CONSTANTS
  Procs, NoProc,      \* process slots; the lock is free
  First,              \* the process that calls pipe()
  PIPESIZE,           \* size of the ring, 512 in the code
  WRAP,               \* nread and nwrite are counted modulo this, 2^32
  Writes,             \* bound: the strings of bytes that write() is given
  Junk,               \* what kfree() fills pages with
  MAXIO               \* bound: bytes asked for in one read()

ASSUME ProcAssumption ==
  First \in Procs /\ NoProc \notin Procs /\ IsFiniteSet(Procs)
ASSUME RingAssumption ==
  /\ PIPESIZE \in Nat \ {0} /\ WRAP \in Nat /\ MAXIO \in Nat
  /\ WRAP % PIPESIZE = 0 /\ WRAP > PIPESIZE

Ends == {"r", "w"}
Bytes == UNION {{s[i] : i \in DOMAIN s} : s \in Writes}
ASSUME WritesAssumption == Writes \subseteq Seq(Bytes)

VARIABLES
  page,               \* the page of the pipe: "none", "used" or "freed"
  plock,              \* who holds p->lock across steps
  data, nread, nwrite, ropen, wopen,         \* struct pipe
  ref,                \* ref of the struct file of each end
  live,               \* processes that have not called exit()
  fds,                \* the ends each process has descriptors for
  killed,
  pc,                 \* "user", or where in the kernel a process is
  todo,               \* the files it has yet to fileclose()
  buf,                \* write(): the bytes left;
  want,               \* read(): the count asked for
  got,                \* what the last read() returned
  quiet               \* history: bytes left by a write() that gave up, with
                      \* no wakeup() of the readers since

pipe == <<data, nread, nwrite, ropen, wopen>>
files == <<ref, fds>>
life == <<live, killed>>
io == <<buf, want>>
vars == <<page, plock, pipe, files, life, pc, todo, io, got, quiet>>

-----------------------------------------------------------------------------
\* Unsigned addition.
Plus(n, k) == (n + k) % WRAP

\* Variant: the index is taken of the count of bytes in the ring.
Index_Relative(n) == (n - nread) % PIPESIZE

Index(n) == n % PIPESIZE

\* How often nwrite can be increased before the test for a full ring holds,
\* and nread before the test for an empty one does.
Room == (nread + PIPESIZE - nwrite) % WRAP
Count == (nwrite - nread) % WRAP

Free == plock = NoProc
Goto(p, l) == pc' = [pc EXCEPT ![p] = l]

\* Where sleep() returns to.
Resumed(l) == IF l = "rwait" THEN "read" ELSE "write"

\* wakeup() of those asleep on &p->nread ("rwait") or &p->nwrite ("wwait"):
\* they are back in the loop once they get p->lock; p itself goes to l.
Woken(chans, p, l) ==
  [q \in Procs |-> CASE q = p                     -> l
                     [] q # p /\ pc[q] \in chans -> Resumed(pc[q])
                     [] OTHER                     -> pc[q]]

InUser(p) == p \in live /\ pc[p] = "user" /\ todo[p] = {}
Calls(p) == InUser(p) /\ ~killed[p]         \* trap() lets p into a system call

Init ==
  /\ page = "none" /\ plock = NoProc
  /\ data = [i \in 0..PIPESIZE-1 |-> Junk]
  /\ nread = 0 /\ nwrite = 0 /\ ropen = TRUE /\ wopen = TRUE
  /\ ref = [e \in Ends |-> 0] /\ fds = [p \in Procs |-> {}]
  /\ live = {First} /\ killed = [p \in Procs |-> FALSE]
  /\ pc = [p \in Procs |-> "user"] /\ todo = [p \in Procs |-> {}]
  /\ buf = [p \in Procs |-> <<>>] /\ want = [p \in Procs |-> 0]
  /\ got = <<>> /\ quiet = FALSE

-----------------------------------------------------------------------------
(* Creating, passing on and closing descriptors.                           *)

\* sys_pipe(): pipealloc() fills in the pipe and its two files, each with
\* one reference, and fdalloc() finds descriptors for both or fails; then
\* both files are closed again.
SysPipe(p) ==
  /\ Calls(p) /\ p = First /\ page = "none"
  /\ page' = "used"
  /\ ref' = [e \in Ends |-> 1]
  /\ nread' = 0 /\ nwrite' = 0 /\ ropen' = TRUE /\ wopen' = TRUE
  /\ \/ fds' = [fds EXCEPT ![p] = Ends] /\ todo' = todo
     \/ todo' = [todo EXCEPT ![p] = Ends] /\ fds' = fds
  /\ UNCHANGED <<plock, data, life, pc, io, got, quiet>>

\* Variant: the child's descriptors are not counted.
Dup_Uncounted(ends) == ref

\* filedup() of each end in a set.
Dup(ends) == [e \in Ends |-> IF e \in ends THEN ref[e] + 1 ELSE ref[e]]

\* fork(): the child has the descriptors of its parent.
Fork(p, q) ==
  /\ Calls(p) /\ q \notin live /\ pc[q] = "user" /\ todo[q] = {}
  /\ live' = live \cup {q}
  /\ fds' = [fds EXCEPT ![q] = fds[p]]
  /\ ref' = Dup(fds[p])
  /\ killed' = [killed EXCEPT ![q] = FALSE]
  /\ UNCHANGED <<page, plock, pipe, pc, todo, io, got, quiet>>

\* sys_close(): the descriptor goes first, then fileclose().
SysClose(p, e) ==
  /\ Calls(p) /\ e \in fds[p]
  /\ fds' = [fds EXCEPT ![p] = @ \ {e}]
  /\ todo' = [todo EXCEPT ![p] = {e}]
  /\ UNCHANGED <<page, plock, pipe, ref, life, pc, io, got, quiet>>

\* exit(), called or forced by kill(): fileclose() of all descriptors.
Exit(p) ==
  /\ InUser(p)
  /\ live' = live \ {p}
  /\ fds' = [fds EXCEPT ![p] = {}]
  /\ todo' = [todo EXCEPT ![p] = fds[p]]
  /\ UNCHANGED <<page, plock, pipe, ref, killed, pc, io, got, quiet>>

\* Where a process is that has dropped the last reference to an end.
Closing(e) == IF e = "r" THEN "close_r" ELSE "close_w"

\* fileclose() under ftable.lock: the last reference closes the pipe's end.
FileClose(p, e) ==
  /\ pc[p] = "user" /\ e \in todo[p]
  /\ ref' = [ref EXCEPT ![e] = @ - 1]
  /\ todo' = [todo EXCEPT ![p] = @ \ {e}]
  /\ Goto(p, IF ref[e] = 1 THEN Closing(e) ELSE "user")
  /\ UNCHANGED <<page, plock, pipe, fds, life, io, got, quiet>>

\* Variant: one closed end is enough to free the page.
BothClosed_One(r, w) == ~r \/ ~w

BothClosed(r, w) == ~r /\ ~w

\* Variant: the writers sleep on when the last reader leaves.
HangupWakes_None(e) == {"rwait"}

\* Closing an end wakes those asleep at the other one.
HangupWakes(e) == IF e = "w" THEN {"rwait"} ELSE {"wwait"}

\* pipeclose(): the second end to go frees the page, after release().
PipeClose(p, e) ==
  /\ pc[p] = Closing(e) /\ Free
  /\ wopen' = (wopen /\ e # "w") /\ ropen' = (ropen /\ e # "r")
  /\ pc' = Woken(HangupWakes(e), p,
                 IF BothClosed(ropen', wopen') THEN "kfree" ELSE "user")
  /\ quiet' = (quiet /\ e # "w")
  /\ UNCHANGED <<page, plock, data, nread, nwrite, files, life, todo, io, got>>

KFree(p) ==
  /\ pc[p] = "kfree"
  /\ page' = "freed"
  /\ Goto(p, "user")
  /\ UNCHANGED <<plock, pipe, files, life, todo, io, got, quiet>>

-----------------------------------------------------------------------------
(* pipewrite()                                                             *)

SysWrite(p) ==
  /\ Calls(p) /\ "w" \in fds[p]
  /\ \E s \in Writes : buf' = [buf EXCEPT ![p] = s]
  /\ Goto(p, "write")
  /\ UNCHANGED <<page, plock, pipe, files, life, todo, want, got, quiet>>

\* The first k bytes of s go into the ring.
Store(s, k) ==
  /\ nwrite' = Plus(nwrite, k)
  /\ data' = [i \in DOMAIN data |->
       LET at == {j \in 1..k : Index(Plus(nwrite, j - 1)) = i}
       IN IF at = {} THEN data[i] ELSE s[Max(at)]]

\* All that is left fits.
WriteAll(p) ==
  /\ pc[p] = "write" /\ Free /\ Len(buf[p]) <= Room
  /\ Store(buf[p], Len(buf[p]))
  /\ buf' = [buf EXCEPT ![p] = <<>>]
  /\ pc' = Woken({"rwait"}, p, "user")
  /\ quiet' = FALSE
  /\ UNCHANGED <<page, plock, nread, ropen, wopen, files, life, todo, want,
                 got>>

\* Variant: the readers are not woken when the ring is full.
FullWakes_None == {}

FullWakes == {"rwait"}

\* The ring is full, perhaps after some more bytes: give up, or wait.
WriteFull(p) ==
  /\ pc[p] = "write" /\ Free /\ Len(buf[p]) > Room
  /\ Store(buf[p], Room)
  /\ IF ~ropen \/ killed[p]
     THEN /\ buf' = [buf EXCEPT ![p] = <<>>]
          /\ Goto(p, "user")
          /\ plock' = plock /\ quiet' = (quiet \/ Room > 0)
     ELSE /\ buf' = [buf EXCEPT ![p] = SubSeq(@, Room + 1, Len(@))]
          /\ pc' = Woken(FullWakes, p, "wsleep")
          /\ plock' = p /\ quiet' = FALSE
  /\ UNCHANGED <<page, nread, ropen, wopen, files, life, todo, want, got>>

-----------------------------------------------------------------------------
(* piperead()                                                              *)

SysRead(p) ==
  /\ Calls(p) /\ "r" \in fds[p]
  /\ \E n \in 0..MAXIO : want' = [want EXCEPT ![p] = n]
  /\ Goto(p, "read")
  /\ UNCHANGED <<page, plock, pipe, files, life, todo, buf, got, quiet>>

\* There is something to read, or nobody left to write it.
ReadSome(p) ==
  LET k == IF want[p] < Count THEN want[p] ELSE Count IN
  /\ pc[p] = "read" /\ Free /\ (nread # nwrite \/ ~wopen)
  /\ got' = [j \in 1..k |-> data[Index(Plus(nread, j - 1))]]
  /\ nread' = Plus(nread, k)
  /\ want' = [want EXCEPT ![p] = 0]
  /\ pc' = Woken({"wwait"}, p, "user")
  /\ UNCHANGED <<page, plock, data, nwrite, ropen, wopen, files, life, todo,
                 buf, quiet>>

\* The pipe is empty: give up, or wait.
ReadEmpty(p) ==
  /\ pc[p] = "read" /\ Free /\ nread = nwrite /\ wopen
  /\ IF killed[p]
     THEN /\ want' = [want EXCEPT ![p] = 0]
          /\ Goto(p, "user") /\ plock' = plock
     ELSE /\ want' = want
          /\ Goto(p, "rsleep") /\ plock' = p
  /\ UNCHANGED <<page, pipe, files, life, todo, buf, got, quiet>>

-----------------------------------------------------------------------------
\* sleep(): p->lock is released once ptable.lock is held.
Sleep(p) ==
  /\ plock = p
  /\ plock' = NoProc
  /\ Goto(p, IF pc[p] = "rsleep" THEN "rwait" ELSE "wwait")
  /\ UNCHANGED <<page, pipe, files, life, todo, io, got, quiet>>

\* kill(), by anybody at any time; it wakes a sleeping process.
Kill(p) ==
  /\ p \in live /\ ~killed[p]
  /\ killed' = [killed EXCEPT ![p] = TRUE]
  /\ pc' = [pc EXCEPT ![p] = IF @ \in {"rwait", "wwait"} THEN Resumed(@)
                             ELSE @]
  /\ UNCHANGED <<page, plock, pipe, files, live, todo, io, got, quiet>>

\* What a process does in the kernel once it has called it.
Kernel(p) ==
  \/ \E e \in Ends : FileClose(p, e) \/ PipeClose(p, e)
  \/ KFree(p) \/ Sleep(p)
  \/ WriteAll(p) \/ WriteFull(p) \/ ReadSome(p) \/ ReadEmpty(p)

Next ==
  \E p \in Procs :
    \/ Kernel(p)
    \/ SysPipe(p) \/ SysWrite(p) \/ SysRead(p) \/ Exit(p) \/ Kill(p)
    \/ \E q \in Procs : Fork(p, q)
    \/ \E e \in Ends : SysClose(p, e)

Spec == Init /\ [][Next]_vars

(***************************************************************************)
(* The scheduler runs every process in the kernel that can go on.  Nothing *)
(* is assumed of user programs.                                            *)
(***************************************************************************)
FairSpec == Spec /\ \A p \in Procs : WF_vars(Kernel(p))
-----------------------------------------------------------------------------
(* Properties.                                                             *)

TypeOK ==
  /\ page \in {"none", "used", "freed"} /\ plock \in Procs \cup {NoProc}
  /\ data \in [0..PIPESIZE-1 -> Bytes \cup {Junk}]
  /\ nread \in 0..WRAP-1 /\ nwrite \in 0..WRAP-1
  /\ ropen \in BOOLEAN /\ wopen \in BOOLEAN
  /\ ref \in [Ends -> Nat] /\ fds \in [Procs -> SUBSET Ends]
  /\ live \subseteq Procs /\ killed \in [Procs -> BOOLEAN]
  /\ pc \in [Procs -> {"user", "close_r", "close_w", "kfree", "write",
                       "wsleep", "wwait", "read", "rsleep", "rwait"}]
  /\ todo \in [Procs -> SUBSET Ends]
  /\ buf \in [Procs -> Seq(Bytes)] /\ want \in [Procs -> 0..MAXIO]
  /\ got \in Seq(Bytes)             \* never junk

(***************************************************************************)
(* Nobody sleeps through what it waits for: a reader is asleep only while  *)
(* the pipe is empty and may still be written to, a writer only while it   *)
(* is full and may still be read.  Writers wake readers in two places of   *)
(* pipewrite(), and one wakeup() is for all of several readers.  The one   *)
(* exception are the bytes of a killed writer (see quiet).                 *)
(***************************************************************************)
SleepersWait ==
  \A p \in Procs :
    /\ pc[p] = "rwait" => wopen /\ (nread = nwrite \/ quiet)
    /\ pc[p] = "wwait" => Room = 0 /\ ropen

(***************************************************************************)
(* The page is there for everyone who may use it: whoever holds a          *)
(* descriptor, has one to close, or is in the middle of a read, a write or *)
(* a close.  fileclose() drops the reference under one lock and closes the *)
(* pipe under another, with the page freed after that one is released.     *)
(***************************************************************************)
PageHeld ==
  \A p \in Procs :
    fds[p] \cup todo[p] # {} \/ pc[p] # "user" => page = "used"

(***************************************************************************)
(* An end is closed just when nobody holds it any more: a read() sees the  *)
(* end of file and a write() a broken pipe only if every descriptor of the *)
(* other end is gone, those of forked children included.                   *)
(***************************************************************************)
HangupJustified ==
  \A p \in Procs :
    /\ "w" \in fds[p] \cup todo[p] => wopen
    /\ "r" \in fds[p] \cup todo[p] => ropen

\* What is in the ring, oldest first.
Content == [j \in 1..Count |-> data[Index(Plus(nread, j - 1))]]

Queue == IF page = "used" THEN Content ELSE <<>>
OpenEnds ==
  {e \in Ends : page # "freed" /\ (e = "r" => ropen) /\ (e = "w" => wopen)}

Fifo == INSTANCE PipeFifo WITH
  Capacity <- PIPESIZE, queue <- Queue, ends <- OpenEnds

(***************************************************************************)
(* The ring with its wrapping counters, several readers and writers, and   *)
(* ends closed in either order implements a bounded first-in-first-out     *)
(* queue that keeps its bytes when the writers leave.                      *)
(***************************************************************************)
ImplementsFifo == Fifo!Spec

(***************************************************************************)
(* Once the last descriptor of one end is gone, every process reading from *)
(* or writing to the other end returns to its user program.                *)
(***************************************************************************)
HangupSeen ==
  \A p \in Procs :
    /\ ref["w"] = 0 /\ pc[p] \in {"read", "rsleep", "rwait"} ~> pc[p] = "user"
    /\ ref["r"] = 0 /\ pc[p] \in {"write", "wsleep", "wwait"} ~> pc[p] = "user"

(* What comments in the code say.                                          *)

\* proc.c, kill(): "Wake process from sleep if necessary."  A killed process
\* is not asleep in a pipe.
KilledAwake == \A p \in Procs : killed[p] => pc[p] \notin {"rwait", "wwait"}
=============================================================================
