------------------------------- MODULE Bcache -------------------------------
(***************************************************************************)
(* The buffer cache of xv6 (kernel/bio.c) and the disk driver below it     *)
(* (kernel/ide.c), with the processes that use them and the disk.          *)
(*                                                                         *)
(* bget() and brelse() work under bcache.lock, iderw() and ideintr() under *)
(* idelock, each up to a sleep(), which gives the lock back; such a        *)
(* stretch is one step.  Waiting for a buffer in bget() and for the disk   *)
(* in iderw() use the same channel, the buffer, so each is woken by the    *)
(* other's wakeup() and has to look again; kill() wakes both as well.      *)
(*                                                                         *)
(* The callers are those of kernel/fs.c: a process holds one buffer, or a  *)
(* second one of a later sector (the bitmap, while it holds an indirect    *)
(* block or the like), and writes what it has changed before releasing it. *)
(***************************************************************************)
EXTENDS Naturals, Sequences, FiniteSets

CONSTANTS
  Procs, Nobody,      \* the processes; none of them
  NBUF,               \* number of buffers, 10 in the code
  NSECTOR,            \* number of disk sectors in use
  Data,               \* Data[s]: what sector s may hold
  Zero                \* what memory holds after booting

ASSUME SizeAssumption ==
  /\ NBUF \in Nat \ {0} /\ NSECTOR \in Nat \ {0}
  /\ Nobody \notin Procs
  /\ DOMAIN Data = 1..NSECTOR

Bufs == 1..NBUF
Sectors == 1..NSECTOR
NoSector == 0
Disks == {f \in [Sectors -> UNION {Data[s] : s \in Sectors}] :
            \A s \in Sectors : f[s] \in Data[s]}
Contents == {Zero} \cup UNION {Data[s] : s \in Sectors}
NoBuf == 0

VARIABLES
  lru,                \* the buffers from bcache.head.next on
  sector, flags, data,                       \* struct buf
  idequeue,           \* the requests, through qnext
  device,             \* the disk: "ready", "busy" or "done" (interrupting)
  failed,             \* the status it reports
  disk,               \* what is on it
  bad,                \* history: buffers whose last request failed
  pc,                 \* where a process is
  want,               \* the sector it is after
  cur,                \* the buffer it is at
  kept                \* the buffer it holds besides, or NoBuf

bufVars == <<sector, flags, data>>
ideVars == <<idequeue, device, failed>>
procVars == <<want, cur, kept>>
vars == <<lru, bufVars, ideVars, disk, bad, pc, procVars>>

-----------------------------------------------------------------------------
Busy(b) == "BUSY" \in flags[b]
\* bcache.lock can be had: no CPU went into panic() with it.
Free == \A p \in Procs : pc[p] # "panic"
Goto(p, l) == pc' = [pc EXCEPT ![p] = l]

\* What a sleeper goes on with: bget() starts over, iderw() tests the flags.
Resumed(l) == IF l = "bgetwait" THEN "bget" ELSE "idetest"
Asleep(p) == pc[p] \in {"bgetwait", "idewait"}

\* wakeup(b), while p goes to l.
Woken(b, p, l) ==
  [q \in Procs |-> CASE q = p                            -> l
                     [] q # p /\ Asleep(q) /\ cur[q] = b -> Resumed(pc[q])
                     [] OTHER                            -> pc[q]]

Init ==
  /\ lru = [i \in Bufs |-> NBUF + 1 - i]                             \* binit()
  /\ sector = [b \in Bufs |-> NoSector] /\ flags = [b \in Bufs |-> {}]
  /\ data = [b \in Bufs |-> Zero] /\ disk \in Disks
  /\ idequeue = <<>> /\ device = "ready" /\ failed = FALSE /\ bad = {}
  /\ pc = [p \in Procs |-> "idle"] /\ want = [p \in Procs |-> NoSector]
  /\ cur = [p \in Procs |-> NoBuf] /\ kept = [p \in Procs |-> NoBuf]

-----------------------------------------------------------------------------
(* bread()                                                                 *)

Bread(p, s) ==
  /\ \/ pc[p] = "idle"
     \/ pc[p] = "hold" /\ kept[p] = NoBuf /\ s > sector[cur[p]]
  /\ want' = [want EXCEPT ![p] = s]
  /\ kept' = [kept EXCEPT ![p] = cur[p]]
  /\ cur' = [cur EXCEPT ![p] = NoBuf]
  /\ Goto(p, "bget")
  /\ UNCHANGED <<lru, bufVars, ideVars, disk, bad>>

Cached(s) == {b \in Bufs : sector[b] = s}

\* bget(): the sector is cached and nobody has it.
BgetHit(p) ==
  \E b \in Cached(want[p]) :
    /\ pc[p] = "bget" /\ Free /\ ~Busy(b)
    /\ flags' = [flags EXCEPT ![b] = @ \cup {"BUSY"}]
    /\ cur' = [cur EXCEPT ![p] = b]
    /\ Goto(p, "bread")
    /\ UNCHANGED <<lru, sector, data, ideVars, disk, bad, want, kept>>

\* Somebody has it: sleep(b), and then "goto loop".
BgetWait(p) ==
  \E b \in Cached(want[p]) :
    /\ pc[p] = "bget" /\ Free /\ Busy(b)
    /\ cur' = [cur EXCEPT ![p] = b]
    /\ Goto(p, "bgetwait")
    /\ UNCHANGED <<lru, bufVars, ideVars, disk, bad, want, kept>>

\* The free buffer nearest to the end of the list.
Victim(b) ==
  \E i \in Bufs : lru[i] = b /\ ~Busy(b) /\ \A j \in i+1..NBUF : Busy(lru[j])

\* Variant: the flags of the old sector survive.
FreshFlags_Keep(b) == flags[b] \cup {"BUSY"}

FreshFlags(b) == {"BUSY"}

\* Variant: a copy in use does not count.
Missed_Busy(s) == \A b \in Cached(s) : Busy(b)

Missed(s) == Cached(s) = {}

\* It is not cached: take the least recently released free buffer for it.
BgetRecycle(p) ==
  /\ pc[p] = "bget" /\ Free /\ Missed(want[p])
  /\ \E b \in Bufs :
       /\ Victim(b)
       /\ sector' = [sector EXCEPT ![b] = want[p]]
       /\ flags' = [flags EXCEPT ![b] = FreshFlags(b)]
       /\ cur' = [cur EXCEPT ![p] = b]
       /\ bad' = bad \ {b}
  /\ Goto(p, "bread")
  /\ UNCHANGED <<lru, data, ideVars, disk, want, kept>>

\* panic("bget: no buffers"): the CPU stops, with bcache.lock.
BgetPanic(p) ==
  /\ pc[p] = "bget" /\ Free /\ Missed(want[p]) /\ \A b \in Bufs : Busy(b)
  /\ Goto(p, "panic")
  /\ UNCHANGED <<lru, bufVars, ideVars, disk, bad, procVars>>

\* The rest of bread(): read the sector if the buffer is not valid.
BreadDone(p) ==
  /\ pc[p] = "bread"
  /\ Goto(p, IF "VALID" \in flags[cur[p]] THEN "hold" ELSE "iderw")
  /\ UNCHANGED <<lru, bufVars, ideVars, disk, bad, procVars>>

-----------------------------------------------------------------------------
(* bwrite(), brelse()                                                      *)

\* The caller changes the contents and calls bwrite().
Bwrite(p, d) ==
  /\ pc[p] = "hold" /\ d \in Data[sector[cur[p]]]
  /\ data' = [data EXCEPT ![cur[p]] = d]
  /\ flags' = [flags EXCEPT ![cur[p]] = @ \cup {"DIRTY"}]
  /\ Goto(p, "iderw")
  /\ UNCHANGED <<lru, sector, ideVars, disk, bad, procVars>>

\* Variant: a waiting process is not woken.
ReleaseWakes_None(p, l) == [pc EXCEPT ![p] = l]

ReleaseWakes(p, l) == Woken(cur[p], p, l)

\* The list with b taken out and put first.
ToFront(b) ==
  LET n == CHOOSE i \in Bufs : lru[i] = b IN
  [i \in Bufs |->
     IF i = 1 THEN b ELSE IF i <= n THEN lru[i - 1] ELSE lru[i]]

\* brelse(): the buffer moves to the front of the list.
Brelse(p) ==
  /\ pc[p] = "hold" /\ Free
  /\ lru' = ToFront(cur[p])
  /\ flags' = [flags EXCEPT ![cur[p]] = @ \ {"BUSY"}]
  /\ pc' = ReleaseWakes(p, IF kept[p] = NoBuf THEN "idle" ELSE "hold")
  /\ cur' = [cur EXCEPT ![p] = kept[p]]
  /\ kept' = [kept EXCEPT ![p] = NoBuf]
  /\ UNCHANGED <<sector, data, ideVars, disk, bad, want>>

-----------------------------------------------------------------------------
(* iderw(), ideintr() and the disk                                         *)

\* iderw() starts the disk only if there is no other request.
Starts(q) == Len(q) = 1

\* iderw(): append the request, start the disk if it is the only one, and
\* sleep: it cannot be done yet.
IdeRw(p) ==
  /\ pc[p] = "iderw"
  /\ idequeue' = Append(idequeue, cur[p])
  /\ device' = IF Starts(idequeue') THEN "busy" ELSE device
  /\ Goto(p, "idewait")
  /\ UNCHANGED <<lru, bufVars, failed, disk, bad, procVars>>

\* Variant: a process that is woken takes its request for done.
IsDone_Woken(b) == TRUE

IsDone(b) == "VALID" \in flags[b] /\ "DIRTY" \notin flags[b]

\* iderw() woken up: go on, or sleep again.
IdeTest(p) ==
  /\ pc[p] = "idetest"
  /\ Goto(p, IF IsDone(cur[p]) THEN "hold" ELSE "idewait")
  /\ UNCHANGED <<lru, bufVars, ideVars, disk, bad, procVars>>

\* The disk carries out the request at the head, or fails.
DiskWorks ==
  LET b == Head(idequeue) IN
  /\ device = "busy"
  /\ device' = "done"
  /\ failed' \in BOOLEAN
  /\ disk' = IF "DIRTY" \in flags[b] /\ ~failed'
             THEN [disk EXCEPT ![sector[b]] = data[b]] ELSE disk
  /\ UNCHANGED <<lru, bufVars, bad, idequeue, pc, procVars>>

\* Variant: the next request is forgotten.
NextRequest_None(q) == "ready"

NextRequest(q) == IF q = <<>> THEN "ready" ELSE "busy"

\* ideintr(): whatever the status, the request is done; start the next.
IdeIntr ==
  LET b == Head(idequeue) IN
  /\ device = "done"
  /\ idequeue' = Tail(idequeue)
  /\ data' = IF "DIRTY" \notin flags[b] /\ ~failed
             THEN [data EXCEPT ![b] = disk[sector[b]]] ELSE data
  /\ flags' = [flags EXCEPT ![b] = (@ \cup {"VALID"}) \ {"DIRTY"}]
  /\ pc' = Woken(b, Nobody, "idle")
  /\ device' = NextRequest(idequeue')
  /\ failed' = FALSE
  /\ bad' = IF failed THEN bad \cup {b} ELSE bad \ {b}
  /\ UNCHANGED <<lru, sector, disk, procVars>>

\* kill() of a sleeping process: it goes on as if woken.
Kill(p) ==
  /\ Asleep(p)
  /\ Goto(p, Resumed(pc[p]))
  /\ UNCHANGED <<lru, bufVars, ideVars, disk, bad, procVars>>

Kernel(p) ==
  \/ BgetHit(p) \/ BgetWait(p) \/ BgetRecycle(p) \/ BgetPanic(p)
  \/ BreadDone(p) \/ IdeRw(p) \/ IdeTest(p)

Next ==
  \/ \E p \in Procs :
       \/ Kernel(p) \/ Brelse(p) \/ Kill(p)
       \/ \E s \in Sectors : Bread(p, s)
       \/ \E d \in Contents : Bwrite(p, d)
  \/ DiskWorks \/ IdeIntr

Spec == Init /\ [][Next]_vars

(***************************************************************************)
(* Processes in the kernel go on, the disk works and interrupts.  Nothing  *)
(* is assumed of what a process does with a buffer it holds, nor for how   *)
(* long.                                                                   *)
(***************************************************************************)
FairSpec ==
  /\ Spec /\ WF_vars(DiskWorks) /\ WF_vars(IdeIntr)
  /\ \A p \in Procs : WF_vars(Kernel(p))
-----------------------------------------------------------------------------
(* Properties.                                                             *)

TypeOK ==
  /\ lru \in [Bufs -> Bufs]
  /\ sector \in [Bufs -> Sectors \cup {NoSector}]
  /\ flags \in [Bufs -> SUBSET {"BUSY", "VALID", "DIRTY"}]
  /\ data \in [Bufs -> Contents] /\ disk \in Disks
  /\ idequeue \in Seq(Bufs)
  /\ device \in {"ready", "busy", "done"} /\ failed \in BOOLEAN
  /\ bad \subseteq Bufs
  /\ pc \in [Procs -> {"idle", "bget", "bgetwait", "bread", "iderw", "idewait",
                       "idetest", "hold", "panic"}]
  /\ want \in [Procs -> Sectors \cup {NoSector}]
  /\ cur \in [Procs -> Bufs \cup {NoBuf}]
  /\ kept \in [Procs -> Bufs \cup {NoBuf}]

\* The buffers process p has locked.
Has(p) == pc[p] \in {"bread", "iderw", "idewait", "idetest", "hold"}
Holds(p) == {b \in Bufs : b = kept[p] \/ (Has(p) /\ b = cur[p])}

(***************************************************************************)
(* A sector is in one buffer at most, and a buffer with one process at     *)
(* most: bget() gives bcache.lock up while it waits, and the buffer it     *)
(* waits for may be recycled for another sector, or its own sector be      *)
(* cached elsewhere meanwhile.                                             *)
(***************************************************************************)
OneBufferPerSector ==
  \A b, c \in Bufs : sector[b] = sector[c] /\ sector[b] # NoSector => b = c

OneOwner ==
  /\ \A p, q \in Procs : p # q => Holds(p) \cap Holds(q) = {}
  /\ \A b \in Bufs : Busy(b) <=> \E p \in Procs : b \in Holds(p)

(***************************************************************************)
(* What a process finds in a buffer it has from bread() is what is on the  *)
(* disk: the cache is never behind or ahead, and a request is not taken    *)
(* for done because something else woke the process.  Except for what a    *)
(* failed request leaves: ideintr() marks the buffer valid all the same.   *)
(***************************************************************************)
Coherent ==
  \A p \in Procs : \A b \in Holds(p) \ bad :
    pc[p] = "hold" \/ b = kept[p] =>
      "VALID" \in flags[b] /\ data[b] = disk[sector[b]]

(***************************************************************************)
(* Every process waiting for the disk has one request in the queue, unless *)
(* that is done; nobody else has; and the disk works on the first one.     *)
(***************************************************************************)
QueueExact ==
  /\ \A i, j \in 1..Len(idequeue) : idequeue[i] = idequeue[j] => i = j
  /\ \A b \in Bufs :
       (\E i \in 1..Len(idequeue) : idequeue[i] = b) <=>
         \E p \in Procs :
           pc[p] \in {"idewait", "idetest"} /\ cur[p] = b /\ ~IsDone(b)
  /\ device = "ready" <=> idequeue = <<>>

(***************************************************************************)
(* A process asleep in bget() waits for a buffer that is in use.  It may   *)
(* by now hold another sector, but then its release wakes the process.     *)
(***************************************************************************)
NoLostBuffer == \A p \in Procs : pc[p] = "bgetwait" => Busy(cur[p])

\* Who has a sector locked.
Locks(p, s) == \E b \in Holds(p) : sector[b] = s
Holders ==
  [s \in Sectors |->
     IF \E p \in Procs : Locks(p, s)
     THEN CHOOSE p \in Procs : Locks(p, s) ELSE Nobody]

Store == INSTANCE SectorStore WITH value <- disk, holder <- Holders

(***************************************************************************)
(* Cache and driver implement a lock and a register for each sector: what  *)
(* is on the disk changes only while the sector is locked.                 *)
(***************************************************************************)
ImplementsStore == Store!Spec

\* A request to the disk is done some time, whatever is queued behind it.
RequestsDone ==
  \A p \in Procs : pc[p] \in {"iderw", "idewait", "idetest"} ~> pc[p] = "hold"

=============================================================================
