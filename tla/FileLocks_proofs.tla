-------------------------- MODULE FileLocks_proofs --------------------------
(***************************************************************************)
(* Proofs about FileSys: who has locked which inode, and what the cache    *)
(* says of it.                                                             *)
(***************************************************************************)
EXTENDS FileSys_proofs

-----------------------------------------------------------------------------
(* The inductive invariant.                                                *)

\* Where iput() has locked the inode that it frees.
Freeing == {"trunc", "free", "freed"}

\* Where a call has locked its ip and its dp.
HoldsIp(l) ==
  l \in {"opened", "dots", "dots2", "enter", "made", "erased", "unlinked"}
HoldsDp(l) ==
  l \in {"init", "dots", "dots2", "enter", "unlink", "kept", "erased",
         "exists"}

\* The process of frame f has locked i.
Holds(f, i) ==
  \/ f.ip = i /\ HoldsIp(Place(f))
  \/ f.dp = i /\ HoldsDp(Place(f))
  \/ f.drop = i /\ f.pc \in Freeing

\* It has not locked an inode twice.
Apart(f) ==
  /\ HoldsIp(Place(f)) /\ HoldsDp(Place(f)) => f.ip # f.dp
  /\ f.pc \in Freeing => f.drop # f.ip /\ f.drop # f.dp

LocksOK ==
  /\ \A p \in Procs : Apart(k[p])
  /\ \A i \in Inums, p \in Procs : icache[i].busy = p <=> Holds(k[p], i)

\* iput() has freed i on the disk, but not yet in memory.
FreedOf(i) == \E p \in Procs : k[p].pc = "freed" /\ k[p].drop = i

\* A locked inode has been read from the disk; what has been read from the
\* disk is there.
CacheOK ==
  \A i \in Inums :
    /\ icache[i].busy # Nobody => icache[i].valid
    /\ panicked = "no" /\ icache[i].valid /\ ~FreedOf(i) =>
         /\ icache[i].type = disk[i].type /\ disk[i].type # "free"
         /\ icache[i].nlink = disk[i].nlink

\* What iput() frees, no directory names.
FreeingOK ==
  \A p \in Procs :
    k[p].pc \in {"trunc", "free"} => icache[k[p].drop].nlink = 0

LocksInv == RefsInv /\ LocksOK /\ CacheOK /\ FreeingOK

-----------------------------------------------------------------------------
(* What a step of p does to locks and cache.                               *)

\* The slot of i says the same.
Same(cache, i) ==
  /\ cache[i].busy = icache[i].busy /\ cache[i].valid = icache[i].valid
  /\ cache[i].type = icache[i].type /\ cache[i].nlink = icache[i].nlink

\* It says nothing, and did not have to.
Reset(cache, i) ==
  ~cache[i].valid /\ cache[i].busy = Nobody /\ icache[i].busy = Nobody

Kept(i) == disk'[i].type = disk[i].type /\ disk'[i].nlink = disk[i].nlink

\* It says what there is on disk d.
Fits(cache, d, i) ==
  /\ cache[i].valid /\ cache[i].type = d[i].type /\ d[i].type # "free"
  /\ cache[i].nlink = d[i].nlink

\* How p, going on with frame f and cache c, may change the slot of i.
CacheMove(p, c, f, i) ==
  \/ Same(c, i) /\ (Kept(i) \/ FreedOf(i))
     /\ (k[p].pc = "freed" => k[p].drop # i)
  \/ ~c[i].valid /\ c[i].busy = Nobody
  \/ Fits(c, disk', i) /\ icache[i].busy \in {p, Nobody}
  \/ /\ c[i].valid /\ icache[i].busy \in {p, Nobody}
     /\ f.pc = "freed" /\ f.drop = i

\* And how its lock.
LockMove(p, c, f, i) ==
  \/ /\ c[i].busy = icache[i].busy
     /\ Holds(f, i) <=> Holds(k[p], i)
  \/ icache[i].busy = Nobody /\ c[i].busy = p /\ Holds(f, i)
  \/ c[i].busy = Nobody /\ Holds(k[p], i) /\ ~Holds(f, i)

Moved(p) ==
  /\ panicked = "no" /\ \A q \in Procs \ {p} : k'[q] = k[q]
  /\ Apart(k'[p])
  /\ k'[p].pc \in {"trunc", "free"} => icache'[k'[p].drop].nlink = 0
  /\ \A i \in Inums : /\ LockMove(p, icache', k'[p], i)
                      /\ CacheMove(p, icache', k'[p], i)

Stopped == UNCHANGED <<icache, k>> /\ panicked' # "no"

\* Such a step keeps the invariant.
LEMMA MovedLocks ==
  ASSUME NEW p \in Procs, LocksInv, RefsInv', Moved(p)
  PROVE  LocksInv'
<1>1. \A q \in Procs : k[q] \in Frame /\ k'[q] \in Frame
  BY DEF LocksInv, RefsInv, TypeOK
<1>2. \A i \in Inums : /\ icache[i].busy \in Procs \cup {Nobody}
                       /\ icache'[i].busy \in Procs \cup {Nobody}
  BY DEF LocksInv, RefsInv, TypeOK, Slot
<1>3. \A q \in Procs, i \in Inums :
        icache'[i].busy = q <=> Holds(k'[q], i)
  <2> SUFFICES ASSUME NEW q \in Procs, NEW i \in Inums
               PROVE  icache'[i].busy = q <=> Holds(k'[q], i)
    OBVIOUS
  <2>1. /\ LockMove(p, icache', k'[p], i) /\ q # Nobody /\ p # Nobody
        /\ icache[i].busy = q <=> Holds(k[q], i)
        /\ icache[i].busy = p <=> Holds(k[p], i)
        /\ q # p => k'[q] = k[q]
    BY ProcAssumption DEF Moved, LocksInv, LocksOK
  <2> QED BY <2>1 DEF LockMove
<1>4. LocksOK'
  <2>1. \A q \in Procs : Apart(k'[q])
    BY DEF Moved, LocksInv, LocksOK
  <2>2. \A x \in Procs, i \in Inums : Holds(k[x], i)' <=> Holds(k'[x], i)
    BY DEF Holds, HoldsIp, HoldsDp, Freeing, Place
  <2>3. \A x \in Procs : Apart(k[x])' <=> Apart(k'[x])
    BY DEF Apart, HoldsIp, HoldsDp, Freeing, Place
  <2> QED BY <1>3, <2>1, <2>2, <2>3 DEF LocksOK
<1>5. CacheOK'
  <2> SUFFICES ASSUME NEW i \in Inums
               PROVE  /\ icache'[i].busy # Nobody => icache'[i].valid
                      /\ icache'[i].valid /\ ~FreedOf(i)' =>
                           Fits(icache', disk', i)
    BY DEF CacheOK, Fits
  <2>1. /\ CacheMove(p, icache', k'[p], i) /\ panicked = "no"
        /\ LockMove(p, icache', k'[p], i)
        /\ icache[i].busy # Nobody => icache[i].valid
        /\ icache[i].valid /\ ~FreedOf(i) => Fits(icache, disk, i)
    BY DEF Moved, LocksInv, CacheOK, Fits
  <2>2. CASE Same(icache', i) /\ (Kept(i) \/ FreedOf(i))
             /\ (k[p].pc = "freed" => k[p].drop # i)
    <3>1. FreedOf(i) => FreedOf(i)'
      BY <2>2 DEF FreedOf, Moved
    <3> QED BY <2>1, <2>2, <3>1 DEF Same, Fits, Kept
  <2>3. CASE ~icache'[i].valid /\ icache'[i].busy = Nobody
    BY <2>3
  <2>4. CASE Fits(icache', disk', i) /\ icache[i].busy \in {p, Nobody}
    BY <2>4 DEF Fits
  <2>5. CASE /\ icache'[i].valid /\ icache[i].busy \in {p, Nobody}
             /\ k'[p].pc = "freed" /\ k'[p].drop = i
    BY <2>5 DEF FreedOf
  <2> QED BY <2>1, <2>2, <2>3, <2>4, <2>5 DEF CacheMove
<1>6. FreeingOK'
  <2> SUFFICES ASSUME NEW q \in Procs, k'[q].pc \in {"trunc", "free"}
               PROVE  icache'[k'[q].drop].nlink = 0
    BY DEF FreeingOK
  <2>1. CASE q = p
    BY <2>1 DEF Moved
  <2>2. CASE q # p
    <3>1. k'[q] = k[q] /\ icache[k[q].drop].nlink = 0
      BY <2>2 DEF Moved, LocksInv, FreeingOK
    <3>2. PICK i \in Inums : i = k[q].drop
      <4>1. FrameOK(k[q]) /\ k[q] \in Frame
        BY <1>1 DEF LocksInv, RefsInv, FramesOK
      <4> QED BY <3>1, <4>1 DEF FrameOK, Frame, Dropping, Pointers
    <3>3. Holds(k[q], i)
      BY <3>1, <3>2 DEF Holds, Freeing
    <3>4. icache[i].busy = q /\ icache'[i].busy = q
      BY <3>1, <3>3, <1>3 DEF LocksInv, LocksOK
    <3>5. Same(icache', i)
      BY <2>2, <3>4, ProcAssumption DEF Moved, CacheMove
    <3> QED BY <3>1, <3>2, <3>5 DEF Same
  <2> QED BY <2>1, <2>2
<1> QED BY <1>4, <1>5, <1>6 DEF LocksInv

\* When the kernel stops, locks and cache stay.
LEMMA StoppedLocks == ASSUME LocksInv, RefsInv', Stopped PROVE LocksInv'
<1>1. LocksOK' /\ FreeingOK'
  BY DEF LocksInv, LocksOK, FreeingOK, Stopped, Apart, Holds, HoldsIp,
         HoldsDp, Freeing, Place
<1>2. CacheOK'
  BY DEF LocksInv, CacheOK, Stopped
<1> QED BY <1>1, <1>2 DEF LocksInv

-----------------------------------------------------------------------------
(* What is known before a step.                                            *)

\* The frame of p, or one that follows it, holds what it points to.
LEMMA HoldsPoints ==
  ASSUME NEW p \in Procs, NEW i \in Inums, LocksInv, Holds(k[p], i)
  PROVE  /\ icache[i].busy = p /\ icache[i].ref >= 1 /\ icache[i].valid
         /\ p \in live
<1>1. /\ k[p] \in Frame /\ FrameOK(k[p]) /\ icache[i].busy = p /\ p # Nobody
      /\ icache[i].valid
  BY ProcAssumption
     DEF LocksInv, LocksOK, CacheOK, RefsInv, TypeOK, FramesOK
<1>2. p \in live
  <2>1. ~Holds(User, i)
    BY DEF Holds, HoldsIp, HoldsDp, Freeing, Place, User, Dropping
  <2> QED BY <2>1 DEF LocksInv, RefsInv, ProcsOK
<1>3. Points(k[p], i) \in Int /\ Points(k[p], i) >= 1
  BY DEF Holds, Points, Is
<1>4. /\ References(i) \in Nat /\ References(i) = icache[i].ref
      /\ References(i) >= Is(cwd[p], i) + Points(k[p], i)
  BY <1>2, RefsNat DEF LocksInv, RefsInv, InodeRefs
<1>5. icache[i].ref >= 1
  BY <1>3, <1>4 DEF Is
<1> QED BY <1>1, <1>2, <1>5

\* So an inode that nobody refers to is unlocked.
LEMMA FreeSlot ==
  ASSUME LocksInv, NEW i \in Inums, icache[i].ref = 0
  PROVE  icache[i].busy = Nobody
<1>1. icache[i].busy \in Procs \cup {Nobody}
  BY DEF LocksInv, RefsInv, TypeOK, Slot
<1>2. \A p \in Procs : icache[i].busy = p => Holds(k[p], i)
  BY DEF LocksInv, LocksOK
<1>3. \A p \in Procs : ~Holds(k[p], i)
  BY HoldsPoints
<1> QED BY <1>1, <1>2, <1>3

\* What p has locked, and is not freeing, is as it is on the disk.
LEMMA HeldFits ==
  ASSUME NEW p \in Procs, NEW i \in Inums, LocksInv, panicked = "no",
         Holds(k[p], i), k[p].pc # "freed"
  PROVE  /\ icache[i].busy = p /\ Fits(icache, disk, i)
         /\ icache[i].ref >= 1
<1>1. icache[i].busy = p /\ icache[i].valid /\ icache[i].ref >= 1
  BY HoldsPoints
<1>2. ~FreedOf(i)
  <2> SUFFICES ASSUME NEW q \in Procs, k[q].pc = "freed", k[q].drop = i
               PROVE  FALSE
    BY DEF FreedOf
  <2>1. Holds(k[q], i)
    BY DEF Holds, Freeing
  <2> QED BY <2>1, <1>1, HoldsPoints
<1> QED BY <1>1, <1>2 DEF LocksInv, CacheOK, Fits

\* What p locks is as it is on the disk from then on; nothing else changes.
LEMMA LockedSlots ==
  ASSUME NEW p \in Procs, NEW l, LocksInv, Locks(p, l)
  PROVE  LET w == Wants(k[p]) IN
         /\ p \in live /\ k[p].pc = l /\ panicked = "no" /\ w \in Inums
         /\ k[p] \in Frame /\ FrameOK(k[p])
         /\ icache[w].busy = Nobody /\ icache[w].ref >= 1 /\ w # Null
         /\ Fits(Locked(p), disk, w) /\ Locked(p)[w].busy = p
         /\ Fits(Visited(p), disk, w) /\ Visited(p)[w].busy = Nobody
         /\ \A j \in Inums \ {w} :
              Locked(p)[j] = icache[j] /\ Visited(p)[j] = icache[j]
<1> DEFINE w == Wants(k[p])
<1>1. /\ p \in live /\ k[p].pc = l /\ panicked = "no" /\ w \in Inums
      /\ k[p] \in Frame /\ FrameOK(k[p]) /\ icache \in [Inums -> Slot]
      /\ TypeOK
  BY LocksRefs, FrameOf DEF LocksInv, RefsInv, Locks, At
<1>2. icache[w].busy = Nobody /\ ~NoType(w) /\ w # Null
  BY DEF Locks, Unlocked
<1>3. icache[w].ref >= 1
  <2>1. Points(k[p], w) \in Int /\ Points(k[p], w) >= 1
    BY <1>1, <1>2 DEF Wants, Points, Is
  <2>2. /\ References(w) \in Nat /\ References(w) = icache[w].ref
        /\ References(w) >= Is(cwd[p], w) + Points(k[p], w)
    BY <1>1, RefsNat DEF LocksInv, RefsInv, InodeRefs
  <2> QED BY <2>1, <2>2 DEF Is
<1>4. ~FreedOf(w)
  <2> SUFFICES ASSUME NEW q \in Procs, k[q].pc = "freed", k[q].drop = w
               PROVE  FALSE
    BY DEF FreedOf
  <2>1. Holds(k[q], w)
    BY DEF Holds, Freeing
  <2> QED BY <2>1, <1>1, <1>2, HoldsPoints, ProcAssumption
<1>5. icache[w].valid => Fits(icache, disk, w)
  BY <1>1, <1>4 DEF LocksInv, CacheOK, Fits
<1> DEFINE s == IF icache[w].valid THEN [icache[w] EXCEPT !.busy = p]
                ELSE [icache[w] EXCEPT !.busy = p, !.valid = TRUE,
                        !.type = disk[w].type, !.nlink = disk[w].nlink]
<1>6. /\ s \in Slot /\ s.busy = p /\ s.valid /\ s.type = disk[w].type
      /\ disk[w].type # "free" /\ s.nlink = disk[w].nlink
  <2>1. icache[w] \in Slot /\ disk[w] \in Inode
    BY <1>1 DEF TypeOK
  <2>2. CASE icache[w].valid
    BY <2>1, <2>2, <1>5 DEF Fits, Slot
  <2>3. CASE ~icache[w].valid
    BY <2>1, <2>3, <1>2 DEF NoType, Slot, Inode
  <2> QED BY <2>2, <2>3
<1>7. Locked(p) = [icache EXCEPT ![w] = s]
  BY DEF Locked, ilock
<1> HIDE DEF s
<1>8. Visited(p) = [Locked(p) EXCEPT ![w] = [s EXCEPT !.busy = Nobody]]
  BY <1>1, <1>7 DEF Visited, iunlock
<1>9. LET t == [s EXCEPT !.busy = Nobody] IN
      /\ t.busy = Nobody /\ t.valid = s.valid /\ t.type = s.type
      /\ t.nlink = s.nlink
  BY <1>6 DEF Slot
<1> HIDE DEF w
<1>10. Fits(Locked(p), disk, w) /\ Locked(p)[w].busy = p
  BY <1>1, <1>6, <1>7 DEF Fits
<1>11. Fits(Visited(p), disk, w) /\ Visited(p)[w].busy = Nobody
  BY <1>1, <1>6, <1>7, <1>8, <1>9 DEF Fits
<1>12. \A j \in Inums \ {w} :
         Locked(p)[j] = icache[j] /\ Visited(p)[j] = icache[j]
  BY <1>1, <1>7, <1>8
<1> QED BY <1>1, <1>2, <1>3, <1>10, <1>11, <1>12 DEF w

-----------------------------------------------------------------------------
(* The shapes of the steps.                                                *)

\* p may go on with frame f and cache c.
Turn(p, c, f) ==
  /\ panicked = "no" /\ Apart(f) /\ f.pc \notin {"trunc", "free"}
  /\ \A i \in Inums : LockMove(p, c, f, i) /\ CacheMove(p, c, f, i)

\* It does.
LEMMA TurnMoved ==
  ASSUME NEW p \in Procs, NEW c, NEW f, LocksInv, Turn(p, c, f),
         icache' = c, Become(p, f)
  PROVE  Moved(p)
<1>1. k'[p] = f /\ \A q \in Procs \ {p} : k'[q] = k[q]
  BY DEF Become, LocksInv, RefsInv, TypeOK
<1> QED BY <1>1 DEF Turn, Moved

\* It takes a reference too.
LEMMA TurnIget ==
  ASSUME NEW p \in Procs, NEW c, NEW f, NEW i \in Inums, LocksInv,
         Turn(p, c, f), SameRefs(c), icache' = iget(c, i), Become(p, f),
         icache[i].ref = 0 => c[i].busy = icache[i].busy
  PROVE  Moved(p)
<1>1. k'[p] = f /\ \A q \in Procs \ {p} : k'[q] = k[q]
  BY DEF Become, LocksInv, RefsInv, TypeOK
<1>2. c \in [Inums -> Slot] /\ c[i].ref = icache[i].ref
  BY DEF SameRefs
<1>3. icache[i].ref \in Nat
  BY RefsNat DEF LocksInv, RefsInv, InodeRefs
<1>4. ASSUME NEW j \in Inums
      PROVE  \/ /\ icache'[j].busy = c[j].busy
                /\ icache'[j].valid = c[j].valid
                /\ icache'[j].type = c[j].type
                /\ icache'[j].nlink = c[j].nlink
             \/ /\ ~icache'[j].valid /\ icache'[j].busy = Nobody
                /\ c[j].busy = Nobody
  <2>1. CASE j # i
    BY <1>2, <2>1 DEF iget
  <2>2. CASE j = i /\ c[i].ref > 0
    <3>1. icache'[i] = [c[i] EXCEPT !.ref = @ + 1]
      BY <1>2, <2>2 DEF iget
    <3> QED BY <3>1, <1>2, <2>2 DEF Slot
  <2>3. CASE j = i /\ ~(c[i].ref > 0)
    <3>1. icache'[i] = [Uncached EXCEPT !.ref = 1]
      BY <1>2, <2>3 DEF iget
    <3>2. c[i].busy = Nobody
      BY <1>2, <1>3, <2>3, FreeSlot
    <3> QED BY <3>1, <3>2, <2>3 DEF Uncached
  <2> QED BY <2>1, <2>2, <2>3
<1>5. ASSUME NEW j \in Inums
      PROVE  LockMove(p, icache', f, j) /\ CacheMove(p, icache', f, j)
  <2>1. LockMove(p, c, f, j) /\ CacheMove(p, c, f, j)
    BY DEF Turn
  <2>2. LockMove(p, icache', f, j)
    BY <1>4, <2>1 DEF LockMove
  <2>3. CacheMove(p, icache', f, j)
    BY <1>4, <2>1 DEF CacheMove, Same, Fits
  <2> QED BY <2>2, <2>3
<1> QED BY <1>1, <1>5 DEF Turn, Moved

\* Or the kernel stops.
LEMMA TurnGets ==
  ASSUME NEW p \in Procs, NEW c, NEW f, NEW i \in Inums, LocksInv,
         Turn(p, c, f), SameRefs(c), Get(p, c, i, f),
         icache[i].ref = 0 => c[i].busy = icache[i].busy
  PROVE  Moved(p) \/ Stopped
<1>1. CASE NoSlot(i)
  BY <1>1 DEF Get, Stop, Stopped
<1>2. CASE ~NoSlot(i)
  BY <1>2, TurnIget DEF Get
<1> QED BY <1>1, <1>2

\* It changes the slot of w only, and makes it fit.
LEMMA TurnAt ==
  ASSUME NEW p \in Procs, NEW c, NEW f, NEW w \in Inums, panicked = "no",
         Apart(f), f.pc \notin {"trunc", "free"}, k[p].pc # "freed",
         \A j \in Inums \ {w} :
           c[j] = icache[j] /\ Kept(j) /\ (Holds(f, j) <=> Holds(k[p], j)),
         Fits(c, disk', w), icache[w].busy \in {p, Nobody},
         LockMove(p, c, f, w)
  PROVE  Turn(p, c, f)
<1> SUFFICES ASSUME NEW i \in Inums
             PROVE  LockMove(p, c, f, i) /\ CacheMove(p, c, f, i)
  BY DEF Turn
<1>1. CASE i = w
  BY <1>1 DEF CacheMove
<1>2. CASE i # w
  BY <1>2 DEF LockMove, CacheMove, Same
<1> QED BY <1>1, <1>2

\* It changes neither locks nor slots, nor what the disk says of inodes.
LEMMA QuietMoved ==
  ASSUME NEW p \in Procs, NEW f, LocksInv, panicked = "no", Apart(f),
         f.pc \notin {"trunc", "free"}, k[p].pc # "freed",
         Become(p, f), UNCHANGED icache,
         \A j \in Inums : Kept(j) /\ (Holds(f, j) <=> Holds(k[p], j))
  PROVE  Moved(p)
<1>1. Turn(p, icache, f)
  BY DEF Turn, LockMove, CacheMove, Same
<1> QED BY <1>1, TurnMoved

\* The process of frame f has locked nothing.
FreeHanded(f) ==
  ~HoldsIp(Place(f)) /\ ~HoldsDp(Place(f)) /\ f.pc \notin Freeing

\* So it can lock nothing twice.
LEMMA FreeHandedHolds ==
  ASSUME NEW f, FreeHanded(f)
  PROVE  /\ Apart(f) /\ \A i : ~Holds(f, i)
         /\ f.pc \notin {"trunc", "free", "freed"}
BY DEF FreeHanded, Apart, Holds, Freeing

\* A step between two such frames that does not touch locks.
LEMMA IdleMoved ==
  ASSUME NEW p \in Procs, NEW f, LocksInv, panicked = "no",
         FreeHanded(k[p]), FreeHanded(f), Become(p, f), UNCHANGED icache,
         \A j \in Inums : Kept(j)
  PROVE  Moved(p)
BY FreeHandedHolds, QuietMoved

\* And one that takes the lock it wants and gives it back.
LEMMA VisitTurn ==
  ASSUME NEW p \in Procs, NEW l, NEW f, LocksInv, Locks(p, l),
         FreeHanded(k[p]), FreeHanded(f), \A j \in Inums : Kept(j)
  PROVE  Turn(p, Visited(p), f)
<1> DEFINE w == Wants(k[p])
<1>1. /\ panicked = "no" /\ w \in Inums /\ icache[w].busy = Nobody
      /\ Fits(Visited(p), disk, w) /\ Visited(p)[w].busy = Nobody
      /\ \A j \in Inums \ {w} : Visited(p)[j] = icache[j]
  BY LockedSlots
<1> HIDE DEF w
<1>2. LockMove(p, Visited(p), f, w)
  BY <1>1, FreeHandedHolds DEF LockMove
<1>3. Fits(Visited(p), disk', w)
  BY <1>1 DEF Fits, Kept
<1> QED BY <1>1, <1>2, <1>3, FreeHandedHolds, TurnAt

\* So it moves locks and slots as it may.
LEMMA VisitMoved ==
  ASSUME NEW p \in Procs, NEW l, NEW f, LocksInv, Locks(p, l),
         FreeHanded(k[p]), FreeHanded(f), \A j \in Inums : Kept(j),
         icache' = Visited(p), Become(p, f)
  PROVE  Moved(p)
BY VisitTurn, TurnMoved

\* The frames of calls that wait for their first lock hold nothing.
LEMMA WaitingFrame ==
  ASSUME NEW p, k[p].pc \in {"user", "walk", "go", "found", "rest", "bad",
                             "cd", "exit", "dead", "put"},
         k[p].pc = "put" => k[p].back = "user"
  PROVE  FreeHanded(k[p])
BY DEF FreeHanded, HoldsIp, HoldsDp, Place, Dropping, Freeing

\* Those in which such a call ends, or goes on.
LEMMA DropFree ==
  ASSUME NEW g, NEW i, NEW l, {"pc", "drop", "back"} \subseteq DOMAIN g,
         ~HoldsIp(l), ~HoldsDp(l)
  PROVE  FreeHanded(Drop(g, i, l))
BY DEF FreeHanded, Drop, Place, Dropping, Freeing

\* A step that leaves the disk alone.
LEMMA NoDiskKept == ASSUME NoDisk PROVE \A j \in Inums : Kept(j)
BY DEF NoDisk, Kept

-----------------------------------------------------------------------------
(* Steps that lock nothing, or only for a moment.                          *)

\* User space holds nothing.
LEMMA UserFree == FreeHanded(User)
BY DEF FreeHanded, User, Place, Dropping, Freeing, HoldsIp, HoldsDp

\* The path is used up.
LEMMA WalkEndLocks ==
  ASSUME NEW p \in Procs, LocksInv, WalkEnd(p) PROVE Moved(p)
<1>1. /\ k[p] \in Frame /\ k[p].pc = "walk" /\ panicked = "no"
      /\ \A j \in Inums : Kept(j)
  BY NoDiskKept DEF WalkEnd, At, LocksInv, RefsInv, TypeOK
<1> DEFINE f == IF k[p].op \in ForParent THEN Fail(k[p])
                ELSE [k[p] EXCEPT !.pc = "go"]
<1>2. FreeHanded(f)
  BY <1>1 DEF Frame, FreeHanded, Fail, Failed, Drop, Place, Dropping, Freeing,
              HoldsIp, HoldsDp
<1> HIDE DEF f
<1>3. Become(p, f) /\ UNCHANGED icache
  BY DEF WalkEnd, f
<1> QED BY <1>1, <1>2, <1>3, WaitingFrame, IdleMoved

\* No directory, or no such name.
LEMMA WalkFailsLocks ==
  ASSUME NEW p \in Procs, LocksInv, WalkFails(p) PROVE Moved(p)
<1>1. /\ Locks(p, "walk") /\ k[p] \in Frame /\ k[p].pc = "walk"
      /\ icache' = Visited(p) /\ Become(p, Fail(k[p]))
      /\ \A j \in Inums : Kept(j)
  BY NoDiskKept, LockedSlots DEF WalkFails
<1>2. FreeHanded(Fail(k[p]))
  BY <1>1 DEF Frame, FreeHanded, Fail, Failed, Drop, Place, Dropping, Freeing,
              HoldsIp, HoldsDp
<1> QED BY <1>1, <1>2, WaitingFrame, VisitMoved

\* nameiparent() has found the directory.
LEMMA WalkStopsLocks ==
  ASSUME NEW p \in Procs, LocksInv, WalkStops(p) PROVE Moved(p)
<1> DEFINE f == [k[p] EXCEPT !.pc = "go", !.ip = Null, !.dp = k[p].ip,
                             !.name = k[p].path[1], !.path = <<>>]
<1>1. /\ Locks(p, "walk") /\ k[p] \in Frame /\ k[p].pc = "walk"
      /\ icache' = Visited(p) /\ Become(p, f)
      /\ \A j \in Inums : Kept(j)
  BY NoDiskKept, LockedSlots DEF WalkStops
<1>2. FreeHanded(f)
  BY <1>1 DEF Frame, FreeHanded, Place, Dropping, Freeing, HoldsIp, HoldsDp
<1> HIDE DEF f
<1> QED BY <1>1, <1>2, WaitingFrame, VisitMoved

\* One element: the next inode is taken.
LEMMA WalkOnLocks ==
  ASSUME NEW p \in Procs, LocksInv, WalkOn(p) PROVE Moved(p) \/ Stopped
<1> DEFINE next == dirlookup(k[p].ip, k[p].path[1])
           f == Drop([k[p] EXCEPT !.ip = next, !.name = k[p].path[1],
                                  !.path = Tail(@)], k[p].ip, "walk")
<1>1. /\ Locks(p, "walk") /\ k[p] \in Frame /\ k[p].pc = "walk"
      /\ next # Null /\ Get(p, Visited(p), next, f)
      /\ \A j \in Inums : Kept(j)
  BY NoDiskKept, LockedSlots DEF WalkOn
<1>2. next \in Inums /\ SameRefs(Visited(p))
  <2>1. /\ k[p].ip \in Inums /\ k[p].path[1] \in Elements
        /\ SameRefs(Visited(p)) /\ TypeOK
    BY <1>1, WalkLocks, FailFollows, FrameOf DEF LocksInv
  <2> QED BY <1>1, <2>1, LookupType DEF Pointers
<1>3. FreeHanded(f)
  <2>1. {"pc", "drop", "back"} \subseteq
          DOMAIN [k[p] EXCEPT !.ip = next, !.name = k[p].path[1],
                              !.path = Tail(@)]
    BY <1>1 DEF Frame
  <2> QED BY <2>1, DropFree DEF HoldsIp, HoldsDp
<1> HIDE DEF f
<1>4. Turn(p, Visited(p), f)
  BY <1>1, <1>3, WaitingFrame, VisitTurn
<1>5. icache[next].ref = 0 => Visited(p)[next].busy = icache[next].busy
  BY <1>1, <1>2, LockedSlots
<1> QED BY <1>1, <1>2, <1>4, <1>5, TurnGets

\* A call begins.
LEMMA CallLocks ==
  ASSUME NEW p \in Procs, NEW r \in Requests, LocksInv, Call(p, r)
  PROVE  Moved(p) \/ Stopped
<1> DEFINE i == Start(p, r.path)
           f == Walking([User EXCEPT !.op = r.op, !.new = r.new], i, r.path)
<1>1. /\ p \in live /\ k[p].pc = "user" /\ panicked = "no" /\ UNCHANGED disk
      /\ Place(k[p]) = "user"
  BY DEF Call, At, Panic, Place, Dropping
<1>2. i \in Inums
  <2>1. r.path \in Paths
    BY RequestAssumption DEF Paths, IsPath
  <2> QED BY <1>1, <2>1, StartIn DEF LocksInv
<1>3. CASE NoSlot(i)
  BY <1>3 DEF Call, Panic, Stop, Stopped
<1>4. CASE ~NoSlot(i)
  <2>1. icache' = iget(icache, i) /\ Become(p, f)
    BY <1>4 DEF Call
  <2>2. FreeHanded(f)
    BY DEF User, Walking, FreeHanded, Place, Dropping, Freeing, HoldsIp,
           HoldsDp
  <2> HIDE DEF i, f
  <2>3. SameRefs(icache)
    BY <1>1, FrameOf DEF LocksInv
  <2>4. Turn(p, icache, f)
    <3>1. \A j : ~Holds(k[p], j) /\ ~Holds(f, j)
      BY <1>1, <2>2, WaitingFrame, FreeHandedHolds
    <3>2. \A j \in Inums : Kept(j)
      BY <1>1 DEF Kept
    <3> QED BY <1>1, <2>2, <3>1, <3>2, FreeHandedHolds
            DEF Turn, LockMove, CacheMove, Same
  <2> QED BY <1>2, <2>1, <2>3, <2>4, TurnIget
<1> QED BY <1>3, <1>4

\* The lock that p wants is taken, and frame f has it.
LEMMA TakeTurn ==
  ASSUME NEW p \in Procs, NEW l, NEW f, LocksInv, Locks(p, l),
         k[p].pc # "freed", Apart(f), f.pc \notin {"trunc", "free"},
         \A j \in Inums : Holds(f, j) <=> Holds(k[p], j) \/ j = Wants(k[p]),
         \A j \in Inums : Kept(j)
  PROVE  Turn(p, Locked(p), f)
<1> DEFINE w == Wants(k[p])
<1>1. /\ panicked = "no" /\ w \in Inums /\ icache[w].busy = Nobody
      /\ Fits(Locked(p), disk, w) /\ Locked(p)[w].busy = p
      /\ \A j \in Inums \ {w} : Locked(p)[j] = icache[j]
  BY LockedSlots
<1> HIDE DEF w
<1>2. LockMove(p, Locked(p), f, w)
  BY <1>1 DEF LockMove, w
<1>3. Fits(Locked(p), disk', w)
  BY <1>1 DEF Fits, Kept
<1>4. \A j \in Inums \ {w} : Holds(f, j) <=> Holds(k[p], j)
  BY DEF w
<1> QED BY <1>1, <1>2, <1>3, <1>4, TurnAt

\* The lock of w, that p holds, is given back, after a change perhaps.
LEMMA GiveTurn ==
  ASSUME NEW p \in Procs, NEW c, NEW w \in Inums, NEW f, LocksInv,
         panicked = "no", k[p].pc # "freed", Apart(f),
         f.pc \notin {"trunc", "free"}, Holds(k[p], w), c[w].busy = Nobody,
         \A j \in Inums : Holds(f, j) <=> Holds(k[p], j) /\ j # w,
         \A j \in Inums \ {w} : c[j] = icache[j] /\ Kept(j),
         Fits(c, disk', w)
  PROVE  Turn(p, c, f)
<1>1. icache[w].busy = p
  BY HoldsPoints
<1>2. LockMove(p, c, f, w)
  BY DEF LockMove
<1>3. \A j \in Inums \ {w} : Holds(f, j) <=> Holds(k[p], j)
  OBVIOUS
<1> QED BY <1>1, <1>2, <1>3, TurnAt

\* Without a change.
LEMMA UnlockMoved ==
  ASSUME NEW p \in Procs, NEW w \in Inums, NEW f, LocksInv,
         panicked = "no", k[p].pc # "freed", Apart(f),
         f.pc \notin {"trunc", "free"}, Holds(k[p], w),
         \A j \in Inums : Holds(f, j) <=> Holds(k[p], j) /\ j # w,
         \A j \in Inums : Kept(j),
         icache' = iunlock(icache, w), Become(p, f)
  PROVE  Moved(p)
<1>1. icache \in [Inums -> Slot] /\ Fits(icache, disk, w)
  BY HeldFits DEF LocksInv, RefsInv, TypeOK
<1>2. /\ icache'[w] = [icache[w] EXCEPT !.busy = Nobody]
      /\ \A j \in Inums \ {w} : icache'[j] = icache[j]
  BY <1>1 DEF iunlock
<1>3. icache'[w].busy = Nobody /\ Fits(icache', disk', w)
  BY <1>1, <1>2 DEF Slot, Fits, Kept
<1>4. Turn(p, icache', f)
  BY <1>2, <1>3, GiveTurn
<1> QED BY <1>4, TurnMoved

-----------------------------------------------------------------------------
(* The steps of open() and create().                                       *)

\* open() locks what it has found, or fails.
LEMMA OpenLockLocks ==
  ASSUME NEW p \in Procs, LocksInv, OpenLock(p) PROVE Moved(p)
<1>1. /\ Locks(p, "go") /\ k[p] \in Frame /\ k[p].pc = "go"
      /\ Wants(k[p]) = k[p].ip /\ FreeHanded(k[p])
      /\ \A j \in Inums : Kept(j)
  BY NoDiskKept, LockedSlots, GoLocks, WaitingFrame
     DEF OpenLock, LocksInv, ForParent, Making
<1>2. CASE Locked(p)[k[p].ip].type = "dir" /\ k[p].op = "openw"
  <2> DEFINE f == Drop([k[p] EXCEPT !.ip = Null], k[p].ip, "user")
  <2>1. icache' = Visited(p) /\ Become(p, f)
    BY <1>1, <1>2 DEF OpenLock, PutLocked, Visited
  <2>2. FreeHanded(f)
    BY <1>1 DEF Frame, FreeHanded, Drop, Place, Dropping, Freeing,
                HoldsIp, HoldsDp
  <2> HIDE DEF f
  <2> QED BY <1>1, <2>1, <2>2, VisitMoved
<1>3. CASE ~(Locked(p)[k[p].ip].type = "dir" /\ k[p].op = "openw")
  <2> DEFINE f == [k[p] EXCEPT !.pc = "opened"]
  <2>1. icache' = Locked(p) /\ Become(p, f)
    BY <1>1, <1>3 DEF OpenLock
  <2>2. /\ Apart(f) /\ f.pc \notin {"trunc", "free"}
        /\ \A j \in Inums : Holds(f, j) <=> j = k[p].ip
    BY <1>1 DEF Frame, Apart, Holds, Place, Dropping, Freeing,
                HoldsIp, HoldsDp
  <2> HIDE DEF f
  <2>3. Turn(p, Locked(p), f)
    BY <1>1, <2>2, FreeHandedHolds, TakeTurn
  <2> QED BY <2>1, <2>3, TurnMoved
<1> QED BY <1>2, <1>3

\* A call at a label where it holds its ip only.
LEMMA HasLockedIp ==
  ASSUME NEW p \in Procs, LocksInv,
         k[p].pc \in {"opened", "made", "unlinked"}
  PROVE  /\ k[p] \in Frame /\ k[p].ip \in Inums
         /\ \A j \in Inums : Holds(k[p], j) <=> j = k[p].ip
<1>1. k[p] \in Frame /\ FrameOK(k[p])
  BY DEF LocksInv, RefsInv, TypeOK, FramesOK
<1>2. Place(k[p]) = k[p].pc
  BY DEF Place, Dropping
<1>3. k[p].ip \in Inums
  BY <1>1, <1>2 DEF FrameOK, HasIp, Frame, Pointers
<1> QED BY <1>1, <1>2, <1>3 DEF Holds, HoldsIp, HoldsDp, Freeing

\* open() unlocks what it has opened.
LEMMA OpenDoneLocks ==
  ASSUME NEW p \in Procs, LocksInv, OpenDone(p) PROVE Moved(p)
<1>1. /\ panicked = "no" /\ k[p].pc = "opened" /\ Become(p, User)
      /\ icache' = iunlock(icache, k[p].ip) /\ \A j \in Inums : Kept(j)
  BY DEF OpenDone, At, Kept
<1>2. /\ k[p].ip \in Inums /\ \A j \in Inums : Holds(k[p], j) <=> j = k[p].ip
  BY <1>1, HasLockedIp
<1> QED BY <1>1, <1>2, UserFree, FreeHandedHolds, UnlockMoved

\* Or it drops it.
LEMMA OpenFailsLocks ==
  ASSUME NEW p \in Procs, LocksInv, OpenFails(p) PROVE Moved(p)
<1> DEFINE f == Drop([k[p] EXCEPT !.ip = Null], k[p].ip, "user")
<1>1. /\ panicked = "no" /\ k[p].pc = "opened" /\ Become(p, f)
      /\ icache' = iunlock(icache, k[p].ip) /\ \A j \in Inums : Kept(j)
  BY NoDiskKept DEF OpenFails, At, PutLocked
<1>2. /\ k[p] \in Frame /\ k[p].ip \in Inums
      /\ \A j \in Inums : Holds(k[p], j) <=> j = k[p].ip
  BY <1>1, HasLockedIp
<1>3. FreeHanded(f)
  BY <1>2 DEF Frame, FreeHanded, Drop, Place, Dropping, Freeing,
              HoldsIp, HoldsDp
<1> HIDE DEF f
<1> QED BY <1>1, <1>2, <1>3, FreeHandedHolds, UnlockMoved

\* So do mkdir() and mknod().
LEMMA MadeLocks ==
  ASSUME NEW p \in Procs, LocksInv, Made(p) PROVE Moved(p)
<1> DEFINE f == Drop([k[p] EXCEPT !.ip = Null], k[p].ip, "user")
<1>1. /\ panicked = "no" /\ k[p].pc = "made" /\ Become(p, f)
      /\ icache' = iunlock(icache, k[p].ip) /\ \A j \in Inums : Kept(j)
  BY NoDiskKept DEF Made, At, PutLocked
<1>2. /\ k[p] \in Frame /\ k[p].ip \in Inums
      /\ \A j \in Inums : Holds(k[p], j) <=> j = k[p].ip
  BY <1>1, HasLockedIp
<1>3. FreeHanded(f)
  BY <1>2 DEF Frame, FreeHanded, Drop, Place, Dropping, Freeing,
              HoldsIp, HoldsDp
<1> HIDE DEF f
<1> QED BY <1>1, <1>2, <1>3, FreeHandedHolds, UnlockMoved

\* iupdate() changes cache and disk alike.
Relinked(cache, w, n, c) ==
  /\ c = [cache EXCEPT ![w].nlink = n]
  /\ disk' = [disk EXCEPT ![w].nlink = n]

\* So they still fit.
LEMMA RelinkFits ==
  ASSUME NEW cache, NEW w \in Inums, NEW n, NEW c, TypeOK, SameRefs(cache),
         Fits(cache, disk, w), Relinked(cache, w, n, c)
  PROVE  /\ Fits(c, disk', w) /\ c[w].busy = cache[w].busy
         /\ \A j \in Inums \ {w} : c[j] = cache[j] /\ Kept(j)
<1>1. /\ cache \in [Inums -> Slot] /\ disk \in [Inums -> Inode]
  BY DEF TypeOK, SameRefs
<1>2. /\ c[w] = [cache[w] EXCEPT !.nlink = n]
      /\ disk'[w] = [disk[w] EXCEPT !.nlink = n]
      /\ \A j \in Inums \ {w} : c[j] = cache[j] /\ disk'[j] = disk[j]
  BY <1>1 DEF Relinked
<1>3. cache[w] \in Slot /\ disk[w] \in Inode
  BY <1>1
<1> QED BY <1>2, <1>3 DEF Fits, Kept, Slot, Inode

\* create() finds the name.
LEMMA CreateFindsLocks ==
  ASSUME NEW p \in Procs, LocksInv, CreateFinds(p) PROVE Moved(p) \/ Stopped
<1> DEFINE i == dirlookup(k[p].dp, k[p].name)
           f == Drop([k[p] EXCEPT !.ip = i, !.dp = Null], k[p].dp, "found")
<1>1. /\ Locks(p, "go") /\ k[p] \in Frame /\ k[p].pc = "go"
      /\ Wants(k[p]) = k[p].dp /\ Wants(k[p]) \in Inums
      /\ FreeHanded(k[p]) /\ SameRefs(Visited(p))
      /\ i # Null /\ Get(p, Visited(p), i, f) /\ \A j \in Inums : Kept(j)
  BY NoDiskKept, LockedSlots, GoLocks, WaitingFrame
     DEF CreateFinds, LocksInv, ForParent
<1>2. i \in Inums
  BY <1>1, LookupType DEF Pointers, Frame, LocksInv, RefsInv
<1>3. FreeHanded(f)
  <2>1. {"pc", "drop", "back"} \subseteq
          DOMAIN [k[p] EXCEPT !.ip = i, !.dp = Null]
    BY <1>1 DEF Frame
  <2> QED BY <2>1, DropFree DEF HoldsIp, HoldsDp
<1> HIDE DEF f, i
<1>4. Turn(p, Visited(p), f)
  BY <1>1, <1>3, VisitTurn
<1>5. icache[i].ref = 0 => Visited(p)[i].busy = icache[i].busy
  BY <1>1, <1>2, LockedSlots
<1> QED BY <1>1, <1>2, <1>4, <1>5, TurnGets

\* And looks at what it names.
LEMMA CreateFoundLocks ==
  ASSUME NEW p \in Procs, LocksInv, CreateFound(p) PROVE Moved(p)
<1>1. /\ Locks(p, "found") /\ k[p] \in Frame /\ k[p].pc = "found"
      /\ Wants(k[p]) = k[p].ip /\ FreeHanded(k[p])
      /\ \A j \in Inums : Kept(j)
  BY NoDiskKept, LockedSlots, WaitingFrame DEF CreateFound, Wants
<1>2. CASE ~(k[p].op = "create" /\ Locked(p)[k[p].ip].type = "file")
  <2> DEFINE f == Drop([k[p] EXCEPT !.ip = Null], k[p].ip, "user")
  <2>1. icache' = Visited(p) /\ Become(p, f)
    BY <1>1, <1>2 DEF CreateFound, PutLocked, Visited
  <2>2. FreeHanded(f)
    BY <1>1 DEF Frame, FreeHanded, Drop, Place, Dropping, Freeing,
                HoldsIp, HoldsDp
  <2> HIDE DEF f
  <2> QED BY <1>1, <2>1, <2>2, VisitMoved
<1>3. CASE k[p].op = "create" /\ Locked(p)[k[p].ip].type = "file"
  <2> DEFINE f == [k[p] EXCEPT !.pc = "opened"]
  <2>1. icache' = Locked(p) /\ Become(p, f)
    BY <1>1, <1>3 DEF CreateFound
  <2>2. /\ Apart(f) /\ f.pc \notin {"trunc", "free"}
        /\ \A j \in Inums : Holds(f, j) <=> j = k[p].ip
    BY <1>1 DEF Frame, Apart, Holds, Place, Dropping, Freeing,
                HoldsIp, HoldsDp
  <2> HIDE DEF f
  <2>3. Turn(p, Locked(p), f)
    BY <1>1, <2>2, FreeHandedHolds, TakeTurn
  <2> QED BY <2>1, <2>3, TurnMoved
<1> QED BY <1>2, <1>3

\* A new inode: what the cache says of it is not to be read.
LEMMA CreateAllocLocks ==
  ASSUME NEW p \in Procs, LocksInv, CreateAlloc(p) PROVE Moved(p) \/ Stopped
<1>1. /\ Locks(p, "go") /\ k[p] \in Frame /\ k[p].pc = "go"
      /\ Wants(k[p]) = k[p].dp /\ Wants(k[p]) \in Inums
      /\ FreeHanded(k[p]) /\ SameRefs(Locked(p)) /\ panicked = "no"
      /\ disk \in [Inums -> Inode]
  <2>1. Locks(p, "go") /\ k[p].op \in ForParent /\ RefsInv
    BY DEF CreateAlloc, ForParent, LocksInv
  <2> QED BY <2>1, LockedSlots, GoLocks, WaitingFrame DEF RefsInv, TypeOK
<1>2. CASE Panic("ialloc: no inodes")
  BY <1>2 DEF Panic, Stop, Stopped
<1>3. ASSUME NEW i \in FreeInums,
             Get(p, Locked(p), i, [k[p] EXCEPT !.pc = "init", !.ip = i]),
             disk' = [disk EXCEPT ![i] =
                        [FreeInode EXCEPT !.type = TypeMade(k[p].op)]]
      PROVE  Moved(p) \/ Stopped
  <2> DEFINE f == [k[p] EXCEPT !.pc = "init", !.ip = i]
             d == k[p].dp
  <2>1. i \in Inums /\ disk[i].type = "free"
    BY DEF FreeInums
  <2>2. /\ Apart(f) /\ f.pc \notin {"trunc", "free"}
        /\ \A j \in Inums : Holds(f, j) <=> j = d
    BY <1>1 DEF Frame, Apart, Holds, Place, Dropping, Freeing,
                HoldsIp, HoldsDp
  <2>3. /\ icache[d].busy = Nobody /\ Fits(Locked(p), disk, d)
        /\ Locked(p)[d].busy = p /\ icache[d].ref >= 1
        /\ \A j \in Inums \ {d} : Locked(p)[j] = icache[j]
    BY <1>1, LockedSlots
  <2>4. i # d
    BY <2>1, <2>3 DEF Fits
  <2>5. \A j \in Inums : ~Holds(k[p], j)
    BY <1>1, FreeHandedHolds
  <2>6. \A j \in Inums \ {i} : disk'[j] = disk[j]
    BY <1>1, <1>3
  <2> HIDE DEF f, d
  <2>7. ASSUME NEW j \in Inums
        PROVE  LockMove(p, Locked(p), f, j) /\ CacheMove(p, Locked(p), f, j)
    <3>1. CASE j = d
      <4>1. LockMove(p, Locked(p), f, j)
        BY <3>1, <2>2, <2>3 DEF LockMove
      <4>2. Fits(Locked(p), disk', j)
        BY <3>1, <2>3, <2>4, <2>6 DEF Fits, d
      <4> QED BY <3>1, <2>3, <4>1, <4>2 DEF CacheMove
    <3>2. CASE j # d
      <4>1. LockMove(p, Locked(p), f, j)
        BY <3>2, <2>2, <2>3, <2>5 DEF LockMove
      <4>2. CASE j # i
        BY <3>2, <4>1, <4>2, <2>3, <2>6, <1>1 DEF CacheMove, Same, Kept
      <4>3. CASE j = i /\ icache[i].valid
        <5>1. FreedOf(i)
          BY <1>1, <2>1, <4>3 DEF LocksInv, CacheOK
        <5> QED BY <3>2, <4>1, <4>3, <5>1, <2>3, <1>1 DEF CacheMove, Same
      <4>4. CASE j = i /\ ~icache[i].valid
        <5>1. icache[i].busy = Nobody
          BY <2>1, <4>4 DEF LocksInv, CacheOK
        <5> QED BY <3>2, <4>1, <4>4, <5>1, <2>3 DEF CacheMove
      <4> QED BY <4>2, <4>3, <4>4
    <3> QED BY <3>1, <3>2
  <2>8. Turn(p, Locked(p), f)
    BY <1>1, <2>2, <2>7 DEF Turn
  <2>9. icache[i].ref = 0 => Locked(p)[i].busy = icache[i].busy
    BY <2>1, <2>3, <2>4
  <2> QED BY <1>1, <1>3, <2>1, <2>8, <2>9, TurnGets DEF f
<1> QED BY <1>2, <1>3 DEF CreateAlloc

\* The new inode is locked, and its link counted.
LEMMA CreateInitLocks ==
  ASSUME NEW p \in Procs, LocksInv, CreateInit(p) PROVE Moved(p)
<1> DEFINE f == [k[p] EXCEPT !.pc = IF k[p].op = "mkdir" THEN "dots"
                                    ELSE "enter"]
           w == k[p].ip
<1>1. /\ Locks(p, "init") /\ k[p] \in Frame /\ k[p].pc = "init"
      /\ Wants(k[p]) = w /\ w \in Inums /\ panicked = "no"
      /\ icache[w].busy = Nobody /\ Fits(Locked(p), disk, w)
      /\ Locked(p)[w].busy = p /\ TypeOK /\ SameRefs(Locked(p))
      /\ \A j \in Inums \ {w} : Locked(p)[j] = icache[j]
  <2>1. Locks(p, "init") /\ TypeOK
    BY DEF CreateInit, LocksInv, RefsInv
  <2>2. k[p].pc = "init"
    BY <2>1, LockedSlots
  <2>3. Wants(k[p]) = w
    BY <2>2 DEF Wants
  <2> HIDE DEF w
  <2> QED BY <2>1, <2>2, <2>3, LocksRefs, LockedSlots
<1>2. Relinked(Locked(p), w, 1, icache') /\ Become(p, f)
  BY DEF CreateInit, Relink, Relinked
<1>3. /\ Holds(k[p], k[p].dp) /\ k[p].dp \in Inums
      /\ \A j \in Inums : Holds(k[p], j) <=> j = k[p].dp
  <2>1. FrameOK(k[p])
    BY DEF LocksInv, RefsInv, FramesOK
  <2> QED BY <1>1, <2>1 DEF FrameOK, HasDp, Frame, Pointers, Holds, HoldsIp,
                            HoldsDp, Place, Dropping, Freeing
<1>4. w # k[p].dp
  BY <1>1, <1>3, HoldsPoints, ProcAssumption
<1>5. /\ Apart(f) /\ f.pc \notin {"trunc", "free"}
      /\ \A j \in Inums : Holds(f, j) <=> j = k[p].dp \/ j = w
  BY <1>1, <1>4 DEF Frame, Apart, Holds, Place, Dropping, Freeing,
                    HoldsIp, HoldsDp
<1> HIDE DEF f, w
<1>6. /\ Fits(icache', disk', w) /\ icache'[w].busy = p
      /\ \A j \in Inums \ {w} : icache'[j] = icache[j] /\ Kept(j)
  BY <1>1, <1>2, RelinkFits
<1>7. LockMove(p, icache', f, w)
  BY <1>1, <1>5, <1>6 DEF LockMove
<1>8. Turn(p, icache', f)
  BY <1>1, <1>3, <1>5, <1>6, <1>7, TurnAt
<1> QED BY <1>2, <1>8, TurnMoved

\* A call at a label where it holds its ip and its dp.
LEMMA HasLockedBoth ==
  ASSUME NEW p \in Procs, LocksInv,
         k[p].pc \in {"dots", "dots2", "enter", "erased"}
  PROVE  /\ k[p] \in Frame /\ k[p].ip \in Inums /\ k[p].dp \in Inums
         /\ k[p].ip # k[p].dp
         /\ \A j \in Inums : Holds(k[p], j) <=> j = k[p].ip \/ j = k[p].dp
<1>1. k[p] \in Frame /\ FrameOK(k[p]) /\ Apart(k[p])
  BY DEF LocksInv, LocksOK, RefsInv, TypeOK, FramesOK
<1>2. Place(k[p]) = k[p].pc
  BY DEF Place, Dropping
<1>3. k[p].ip \in Inums /\ k[p].dp \in Inums
  BY <1>1, <1>2 DEF FrameOK, HasIp, HasDp, Frame, Pointers
<1> QED BY <1>1, <1>2, <1>3 DEF Apart, Holds, HoldsIp, HoldsDp, Freeing

\* mkdir: the directory counts one more.
LEMMA CreateCountLocks ==
  ASSUME NEW p \in Procs, LocksInv, CreateCount(p) PROVE Moved(p)
<1> DEFINE w == k[p].dp
           n == icache[w].nlink + 1
           f == [k[p] EXCEPT !.pc = "dots2"]
<1>1. /\ panicked = "no" /\ k[p].pc = "dots" /\ Become(p, f)
      /\ Relinked(icache, w, n, icache')
  BY DEF CreateCount, Relink, Relinked, At
<1>2. /\ k[p] \in Frame /\ w \in Inums /\ Holds(k[p], w)
  BY <1>1, HasLockedBoth
<1>3. icache[w].busy = p /\ Fits(icache, disk, w)
  BY <1>1, <1>2, HeldFits
<1>4. /\ Apart(f) /\ f.pc \notin {"trunc", "free"}
      /\ \A j \in Inums : Holds(f, j) <=> Holds(k[p], j)
  <2>1. Apart(k[p])
    BY DEF LocksInv, LocksOK
  <2> QED BY <1>1, <1>2, <2>1 DEF Frame, Apart, Holds, Place, Dropping,
                                  Freeing, HoldsIp, HoldsDp
<1> HIDE DEF f, n, w
<1>5. /\ Fits(icache', disk', w) /\ icache'[w].busy = p
      /\ \A j \in Inums \ {w} : icache'[j] = icache[j] /\ Kept(j)
  <2>1. TypeOK /\ SameRefs(icache)
    BY DEF LocksInv, RefsInv, TypeOK, SameRefs
  <2> QED BY <1>1, <1>2, <1>3, <2>1, RelinkFits
<1>6. LockMove(p, icache', f, w)
  BY <1>2, <1>3, <1>4, <1>5 DEF LockMove
<1>7. Turn(p, icache', f)
  BY <1>1, <1>2, <1>3, <1>4, <1>5, <1>6, TurnAt
<1> QED BY <1>1, <1>7, TurnMoved

\* A new entry says nothing of the types and counts.
LEMMA EntryKept ==
  ASSUME TypeOK, NEW i, NEW n, NEW x, disk' = [disk EXCEPT ![i].ents[n] = x]
  PROVE  \A j \in Inums : Kept(j)
<1> TAKE j \in Inums
<1>1. disk \in [Inums -> Inode]
  BY DEF TypeOK
<1> QED BY <1>1 DEF Kept, Inode

\* mkdir: the new directory gets its entries.
LEMMA CreateDotsLocks ==
  ASSUME NEW p \in Procs, LocksInv, CreateDots(p) PROVE Moved(p)
<1> DEFINE f == [k[p] EXCEPT !.pc = "enter"]
<1>1. /\ panicked = "no" /\ k[p].pc = "dots2" /\ Become(p, f)
      /\ UNCHANGED icache /\ \A j \in Inums : Kept(j)
  BY EntryKept DEF CreateDots, At, LocksInv, RefsInv
<1>2. k[p] \in Frame /\ Apart(k[p])
  BY <1>1, HasLockedBoth DEF LocksInv, LocksOK
<1>3. /\ Apart(f) /\ f.pc \notin {"trunc", "free"}
      /\ \A j \in Inums : Holds(f, j) <=> Holds(k[p], j)
  BY <1>1, <1>2 DEF Frame, Apart, Holds, Place, Dropping,
                    Freeing, HoldsIp, HoldsDp
<1> HIDE DEF f
<1> QED BY <1>1, <1>3, QuietMoved

\* The entry is written; the directory is unlocked.
LEMMA CreateEnterLocks ==
  ASSUME NEW p \in Procs, LocksInv, CreateEnter(p) PROVE Moved(p)
<1> DEFINE w == k[p].dp
           f == Drop([k[p] EXCEPT !.dp = Null], w,
                     IF k[p].op = "create" THEN "opened" ELSE "made")
<1>1. /\ panicked = "no" /\ k[p].pc = "enter" /\ Become(p, f)
      /\ icache' = iunlock(icache, w) /\ \A j \in Inums : Kept(j)
  BY EntryKept DEF CreateEnter, PutLocked, At, LocksInv, RefsInv
<1>2. /\ k[p] \in Frame /\ w \in Inums /\ k[p].ip # w
      /\ \A j \in Inums : Holds(k[p], j) <=> j = k[p].ip \/ j = w
  BY <1>1, HasLockedBoth
<1>3. /\ Apart(f) /\ f.pc \notin {"trunc", "free"}
      /\ \A j \in Inums : Holds(f, j) <=> j = k[p].ip
  BY <1>2 DEF Frame, Drop, Apart, Holds, Place, Dropping, Freeing,
              HoldsIp, HoldsDp
<1> HIDE DEF f, w
<1> QED BY <1>1, <1>2, <1>3, UnlockMoved

-----------------------------------------------------------------------------
(* The steps of unlink() and link().                                       *)

\* unlink() and link() that end where they begin.
LEMMA UnlinkFailsLocks ==
  ASSUME NEW p \in Procs, LocksInv, UnlinkFails(p) PROVE Moved(p)
<1> DEFINE f == Drop([k[p] EXCEPT !.dp = Null], k[p].dp, "user")
<1>1. Locks(p, "go") /\ k[p].op \in ForParent /\ RefsInv
  BY DEF UnlinkFails, ForParent, LocksInv
<1>2. /\ k[p] \in Frame /\ k[p].pc = "go" /\ Wants(k[p]) = k[p].dp
      /\ FreeHanded(k[p])
  BY <1>1, LockedSlots, GoLocks, WaitingFrame
<1>3. /\ icache' = Visited(p) /\ Become(p, f) /\ \A j \in Inums : Kept(j)
  BY <1>2, NoDiskKept DEF UnlinkFails, PutLocked, Visited
<1>4. FreeHanded(f)
  BY <1>2 DEF Frame, FreeHanded, Drop, Place, Dropping, Freeing,
              HoldsIp, HoldsDp
<1> HIDE DEF f
<1> QED BY <1>1, <1>2, <1>3, <1>4, VisitMoved

\* link() of a directory.
LEMMA LinkFailsLocks ==
  ASSUME NEW p \in Procs, LocksInv, LinkFails(p) PROVE Moved(p)
<1> DEFINE f == Drop([k[p] EXCEPT !.ip = Null], k[p].ip, "user")
<1>1. Locks(p, "go") /\ k[p].op \notin ForParent /\ RefsInv
  BY DEF LinkFails, ForParent, Making, LocksInv
<1>2. /\ k[p] \in Frame /\ k[p].pc = "go" /\ Wants(k[p]) = k[p].ip
      /\ FreeHanded(k[p])
  BY <1>1, LockedSlots, GoLocks, WaitingFrame
<1>3. /\ icache' = Visited(p) /\ Become(p, f) /\ \A j \in Inums : Kept(j)
  BY <1>2, NoDiskKept DEF LinkFails, PutLocked, Visited
<1>4. FreeHanded(f)
  BY <1>2 DEF Frame, FreeHanded, Drop, Place, Dropping, Freeing,
              HoldsIp, HoldsDp
<1> HIDE DEF f
<1> QED BY <1>1, <1>2, <1>3, <1>4, VisitMoved

\* unlink() finds the name, and keeps the directory locked.
LEMMA UnlinkFindsLocks ==
  ASSUME NEW p \in Procs, LocksInv, UnlinkFinds(p) PROVE Moved(p) \/ Stopped
<1> DEFINE i == dirlookup(k[p].dp, k[p].name)
           f == [k[p] EXCEPT !.pc = "unlink", !.ip = i]
<1>1. Locks(p, "go") /\ k[p].op \in ForParent /\ RefsInv
  BY DEF UnlinkFinds, ForParent, LocksInv
<1>2. /\ k[p] \in Frame /\ k[p].pc = "go" /\ Wants(k[p]) = k[p].dp
      /\ Wants(k[p]) \in Inums /\ SameRefs(Locked(p)) /\ FreeHanded(k[p])
  BY <1>1, LockedSlots, GoLocks, WaitingFrame
<1>3. i # Null /\ Get(p, Locked(p), i, f) /\ \A j \in Inums : Kept(j)
  BY NoDiskKept DEF UnlinkFinds
<1>4. i \in Inums
  BY <1>1, <1>2, <1>3, LookupType DEF Pointers, Frame, RefsInv
<1>5. /\ Apart(f) /\ f.pc \notin {"trunc", "free"}
      /\ \A j \in Inums : Holds(f, j) <=> j = k[p].dp
  BY <1>2 DEF Frame, Apart, Holds, Place, Dropping, Freeing,
              HoldsIp, HoldsDp
<1> HIDE DEF f, i
<1>6. Turn(p, Locked(p), f)
  BY <1>1, <1>2, <1>3, <1>5, FreeHandedHolds, TakeTurn
<1>7. icache[i].ref = 0 => Locked(p)[i].busy = icache[i].busy
  BY <1>1, <1>4, LockedSlots
<1> QED BY <1>2, <1>3, <1>4, <1>6, <1>7, TurnGets

\* An inode that is unlocked is still as it is on the disk.
LEMMA IunlockFits ==
  ASSUME NEW c \in [Inums -> Slot], NEW d, NEW w \in Inums, Fits(c, d, w)
  PROVE  /\ Fits(iunlock(c, w), d, w) /\ iunlock(c, w)[w].busy = Nobody
         /\ iunlock(c, w) \in [Inums -> Slot]
         /\ \A j \in Inums \ {w} : iunlock(c, w)[j] = c[j]
<1>1. /\ iunlock(c, w)[w] = [c[w] EXCEPT !.busy = Nobody]
      /\ \A j \in Inums \ {w} : iunlock(c, w)[j] = c[j]
  BY DEF iunlock
<1>2. c[w] \in Slot
  OBVIOUS
<1>3. [c[w] EXCEPT !.busy = Nobody] \in Slot
  BY <1>2 DEF Slot
<1>4. iunlock(c, w) \in [Inums -> Slot]
  BY <1>3 DEF iunlock
<1> QED BY <1>1, <1>2, <1>4 DEF Fits, Slot

\* unlink() of an entry: it is erased, with both inodes locked.
LEMMA UnlinkEraseLocks ==
  ASSUME NEW p \in Procs, LocksInv, UnlinkErase(p) PROVE Moved(p) \/ Stopped
<1> DEFINE w == k[p].ip
           d == k[p].dp
           n == Locked(p)[w].nlink
           dir == Locked(p)[w].type = "dir"
<1>1. Locks(p, "unlink") /\ RefsInv
  BY DEF UnlinkErase, LocksInv
<1>2. /\ k[p] \in Frame /\ k[p].pc = "unlink" /\ Wants(k[p]) = w
      /\ FrameOK(k[p]) /\ panicked = "no" /\ w \in Inums
  <2>1. k[p] \in Frame /\ k[p].pc = "unlink" /\ Wants(k[p]) \in Inums
        /\ FrameOK(k[p]) /\ panicked = "no"
    BY <1>1, LockedSlots
  <2> QED BY <2>1 DEF Wants
<1>3. /\ icache[w].busy = Nobody /\ Fits(Locked(p), disk, w)
      /\ Locked(p)[w].busy = p /\ SameRefs(Locked(p))
      /\ \A j \in Inums \ {w} : Locked(p)[j] = icache[j]
  BY <1>1, <1>2, LockedSlots, LocksRefs DEF RefsInv
<1>4. /\ d \in Inums /\ \A j \in Inums : Holds(k[p], j) <=> j = d
  BY <1>2 DEF FrameOK, HasDp, Frame, Pointers, Holds, HoldsIp,
              HoldsDp, Place, Dropping, Freeing
<1>5. w # d /\ icache[d].busy = p /\ Fits(icache, disk, d)
  BY <1>2, <1>3, <1>4, HeldFits, ProcAssumption
<1>6. n \in Int
  BY <1>2, <1>3 DEF SameRefs, Slot
<1>7. CASE n < 1
  <2>1. Panic("unlink: nlink < 1")
    <3>1. ~(n >= 1)
      BY <1>6, <1>7
    <3> QED BY <1>7, <3>1 DEF UnlinkErase
  <2> QED BY <2>1 DEF Panic, Stop, Stopped
<1>8. CASE n >= 1 /\ dir /\ ~isdirempty(w)
  <2> DEFINE f == Drop([k[p] EXCEPT !.ip = Null], w, "kept")
  <2>1. PutLocked(p, Locked(p), [k[p] EXCEPT !.ip = Null], w, "kept")
        /\ NoDisk
    <3>1. ~(n < 1)
      BY <1>6, <1>8
    <3> QED BY <1>2, <1>8, <3>1 DEF UnlinkErase
  <2>2. /\ icache' = iunlock(Locked(p), w) /\ Become(p, f)
        /\ disk' = disk /\ \A j \in Inums : Kept(j)
    BY <2>1, NoDiskKept DEF PutLocked, NoDisk
  <2>3. /\ Apart(f) /\ f.pc = "put" /\ k[p].pc # "freed"
        /\ \A j \in Inums : Holds(f, j) <=> j = d
    BY <1>2 DEF Frame, Apart, Drop, Holds, Place, Dropping, Freeing,
                HoldsIp, HoldsDp
  <2> HIDE DEF f, w, d
  <2>4. /\ Fits(icache', disk', w) /\ icache'[w].busy = Nobody
        /\ \A j \in Inums \ {w} : icache'[j] = icache[j]
    BY <1>2, <1>3, <2>2, IunlockFits DEF SameRefs
  <2>5. LockMove(p, icache', f, w)
    BY <1>2, <1>3, <1>4, <1>5, <2>3, <2>4 DEF LockMove
  <2>6. Turn(p, icache', f)
    BY <1>2, <1>3, <1>4, <2>2, <2>3, <2>4, <2>5, TurnAt
  <2> QED BY <2>2, <2>6, TurnMoved
<1>9. CASE n >= 1 /\ (dir => isdirempty(w))
  <2> DEFINE f == [k[p] EXCEPT !.pc = "erased"]
  <2>1. /\ disk' = [disk EXCEPT ![d].ents[k[p].name] = Null]
        /\ icache' = Locked(p) /\ Become(p, f)
    <3>1. ~(n < 1)
      BY <1>6, <1>9
    <3> QED BY <1>2, <1>9, <3>1 DEF UnlinkErase
  <2>2. \A j \in Inums : Kept(j)
    BY <1>1, <2>1, EntryKept DEF RefsInv
  <2>3. /\ Apart(f) /\ f.pc \notin {"trunc", "free"}
        /\ \A j \in Inums : Holds(f, j) <=> j = w \/ j = d
    BY <1>2, <1>5 DEF Frame, Apart, Holds, Place, Dropping, Freeing,
                      HoldsIp, HoldsDp
  <2> HIDE DEF f, w, d
  <2>4. Turn(p, Locked(p), f)
    BY <1>1, <1>2, <1>4, <2>2, <2>3, TakeTurn
  <2> QED BY <2>1, <2>4, TurnMoved
<1> QED BY <1>7, <1>8, <1>9, <1>6

\* A count changes and the inode is unlocked.
LEMMA RelinkUnlock ==
  ASSUME NEW p \in Procs, NEW w \in Inums, NEW n \in Int, NEW c, NEW f,
         LocksInv, panicked = "no", k[p].pc # "freed", Apart(f),
         f.pc \notin {"trunc", "free"}, Holds(k[p], w),
         \A j \in Inums : Holds(f, j) <=> Holds(k[p], j) /\ j # w,
         Relinked(icache, w, n, c), icache' = iunlock(c, w), Become(p, f)
  PROVE  Moved(p)
<1>1. TypeOK /\ SameRefs(icache) /\ Fits(icache, disk, w)
  BY HeldFits DEF LocksInv, RefsInv, TypeOK, SameRefs
<1>2. /\ Fits(c, disk', w)
      /\ \A j \in Inums \ {w} : c[j] = icache[j] /\ Kept(j)
  BY <1>1, RelinkFits
<1>3. c \in [Inums -> Slot]
  BY <1>1, RelinkRefs DEF Relinked, SameRefs
<1>4. /\ Fits(icache', disk', w) /\ icache'[w].busy = Nobody
      /\ \A j \in Inums \ {w} : icache'[j] = icache[j] /\ Kept(j)
  BY <1>2, <1>3, IunlockFits
<1>5. Turn(p, icache', f)
  BY <1>4, GiveTurn
<1> QED BY <1>5, TurnMoved

\* The entry stays.
LEMMA UnlinkGivesUpLocks ==
  ASSUME NEW p \in Procs, LocksInv, UnlinkGivesUp(p) PROVE Moved(p)
<1> DEFINE w == k[p].dp
           f == Drop([k[p] EXCEPT !.dp = Null], w, "user")
<1>1. /\ panicked = "no" /\ k[p].pc = "kept" /\ Become(p, f)
      /\ icache' = iunlock(icache, w) /\ \A j \in Inums : Kept(j)
  BY NoDiskKept DEF UnlinkGivesUp, PutLocked, At
<1>2. /\ k[p] \in Frame /\ w \in Inums
      /\ \A j \in Inums : Holds(k[p], j) <=> j = w
  <2>1. k[p] \in Frame /\ FrameOK(k[p])
    BY DEF LocksInv, RefsInv, TypeOK, FramesOK
  <2> QED BY <1>1, <2>1 DEF FrameOK, HasDp, Frame, Pointers, Holds, HoldsIp,
                            HoldsDp, Place, Dropping, Freeing
<1>3. FreeHanded(f)
  BY <1>2 DEF Frame, FreeHanded, Drop, Place, Dropping, Freeing,
              HoldsIp, HoldsDp
<1> HIDE DEF f, w
<1> QED BY <1>1, <1>2, <1>3, FreeHandedHolds, UnlockMoved

\* The directory loses a subdirectory.
LEMMA UnlinkCountLocks ==
  ASSUME NEW p \in Procs, LocksInv, UnlinkCount(p) PROVE Moved(p)
<1> DEFINE w == k[p].dp
           n == icache[w].nlink
                  - (IF icache[k[p].ip].type = "dir" THEN 1 ELSE 0)
           f == Drop([k[p] EXCEPT !.dp = Null], w, "unlinked")
           c == [icache EXCEPT ![w].nlink = n]
<1>1. /\ panicked = "no" /\ k[p].pc = "erased" /\ Become(p, f)
      /\ icache' = iunlock(c, w) /\ Relinked(icache, w, n, c)
  BY DEF UnlinkCount, PutLocked, Relinked, At
<1>2. /\ k[p] \in Frame /\ w \in Inums /\ k[p].ip # w
      /\ \A j \in Inums : Holds(k[p], j) <=> j = k[p].ip \/ j = w
  BY <1>1, HasLockedBoth
<1>3. n \in Int
  BY <1>2 DEF LocksInv, RefsInv, TypeOK, Slot
<1>4. /\ Apart(f) /\ f.pc \notin {"trunc", "free"}
      /\ \A j \in Inums : Holds(f, j) <=> j = k[p].ip
  BY <1>2 DEF Frame, Drop, Apart, Holds, Place, Dropping, Freeing,
              HoldsIp, HoldsDp
<1> HIDE DEF f, n, c, w
<1> QED BY <1>1, <1>2, <1>3, <1>4, RelinkUnlock

\* The inode loses a link.
LEMMA UnlinkDoneLocks ==
  ASSUME NEW p \in Procs, LocksInv, UnlinkDone(p) PROVE Moved(p)
<1> DEFINE w == k[p].ip
           n == icache[w].nlink - 1
           f == Drop([k[p] EXCEPT !.ip = Null], w, "user")
           c == [icache EXCEPT ![w].nlink = n]
<1>1. /\ panicked = "no" /\ k[p].pc = "unlinked" /\ Become(p, f)
      /\ icache' = iunlock(c, w) /\ Relinked(icache, w, n, c)
  BY DEF UnlinkDone, PutLocked, Relinked, At
<1>2. /\ k[p] \in Frame /\ w \in Inums
      /\ \A j \in Inums : Holds(k[p], j) <=> j = w
  BY <1>1, HasLockedIp
<1>3. n \in Int
  BY <1>2 DEF LocksInv, RefsInv, TypeOK, Slot
<1>4. FreeHanded(f)
  BY <1>2 DEF Frame, FreeHanded, Drop, Place, Dropping, Freeing,
              HoldsIp, HoldsDp
<1> HIDE DEF f, n, c, w
<1> QED BY <1>1, <1>2, <1>3, <1>4, FreeHandedHolds, RelinkUnlock

\* One more reference to drop.
LEMMA RestLocks ==
  ASSUME NEW p \in Procs, LocksInv, Rest(p) PROVE Moved(p)
<1> DEFINE f == Drop([k[p] EXCEPT !.src = Null], k[p].src, "user")
<1>1. /\ k[p] \in Frame /\ k[p].pc = "rest" /\ panicked = "no"
      /\ Become(p, f) /\ UNCHANGED icache /\ \A j \in Inums : Kept(j)
  BY NoDiskKept DEF Rest, At, LocksInv, RefsInv, TypeOK
<1>2. FreeHanded(f)
  BY <1>1 DEF Frame, FreeHanded, Drop, Place, Dropping, Freeing,
              HoldsIp, HoldsDp
<1> HIDE DEF f
<1> QED BY <1>1, <1>2, WaitingFrame, IdleMoved

\* link() counts the link, and begins its second walk.
LEMMA LinkCountLocks ==
  ASSUME NEW p \in Procs, LocksInv, LinkCount(p) PROVE Moved(p) \/ Stopped
<1> DEFINE w == k[p].ip
           n == Visited(p)[w].nlink + 1
           c == [Visited(p) EXCEPT ![w].nlink = n]
           i == Start(p, k[p].new)
           f == Walking([k[p] EXCEPT !.op = "link2", !.src = w], i, k[p].new)
<1>1. Locks(p, "go") /\ k[p].op \notin ForParent /\ RefsInv
  BY DEF LinkCount, ForParent, Making, LocksInv
<1>2. /\ k[p] \in Frame /\ k[p].pc = "go" /\ Wants(k[p]) = w
      /\ w \in Inums /\ SameRefs(Visited(p)) /\ FreeHanded(k[p])
      /\ p \in live /\ panicked = "no" /\ TypeOK
  BY <1>1, LockedSlots, GoLocks, WaitingFrame DEF RefsInv
<1>3. Get(p, c, i, f) /\ Relinked(Visited(p), w, n, c)
  BY DEF LinkCount, Relinked
<1>4. i \in Inums
  <2>1. k[p].new \in Paths /\ Place(k[p]) = "go"
    BY <1>2 DEF Frame, Place, Dropping
  <2> QED BY <1>1, <1>2, <2>1, StartIn
<1>5. FreeHanded(f)
  BY <1>2 DEF Frame, Walking, FreeHanded, Place, Dropping, Freeing, HoldsIp,
              HoldsDp
<1>6. n \in Int
  BY <1>2 DEF SameRefs, Slot
<1>7. SameRefs(c)
  BY <1>2, <1>6, RelinkRefs
<1> HIDE DEF f, n, c, i, w
<1>8. /\ icache[w].busy = Nobody /\ Fits(Visited(p), disk, w)
      /\ Visited(p)[w].busy = Nobody
      /\ \A j \in Inums \ {w} : Visited(p)[j] = icache[j]
  BY <1>1, <1>2, LockedSlots
<1>9. /\ Fits(c, disk', w) /\ c[w].busy = Nobody
      /\ \A j \in Inums \ {w} : c[j] = icache[j] /\ Kept(j)
  BY <1>2, <1>3, <1>8, RelinkFits
<1>10. /\ Apart(f) /\ f.pc \notin {"trunc", "free"} /\ k[p].pc # "freed"
       /\ \A j : ~Holds(f, j) /\ ~Holds(k[p], j)
  BY <1>2, <1>5, FreeHandedHolds
<1>11. LockMove(p, c, f, w)
  BY <1>8, <1>9, <1>10 DEF LockMove
<1>12. Turn(p, c, f)
  BY <1>2, <1>8, <1>9, <1>10, <1>11, TurnAt
<1>13. c[i].busy = icache[i].busy
  BY <1>4, <1>8, <1>9
<1> QED BY <1>3, <1>4, <1>7, <1>12, <1>13, TurnGets

\* link() writes its entry.
LEMMA LinkEnterLocks ==
  ASSUME NEW p \in Procs, LocksInv, LinkEnter(p) PROVE Moved(p)
<1> DEFINE f == Drop([k[p] EXCEPT !.dp = Null], k[p].dp, "rest")
<1>1. Locks(p, "go") /\ k[p].op \in ForParent /\ RefsInv
  BY DEF LinkEnter, ForParent, LocksInv
<1>2. /\ k[p] \in Frame /\ k[p].pc = "go" /\ Wants(k[p]) = k[p].dp
      /\ FreeHanded(k[p])
  BY <1>1, LockedSlots, GoLocks, WaitingFrame
<1>3. /\ icache' = Visited(p) /\ Become(p, f) /\ \A j \in Inums : Kept(j)
  BY <1>1, <1>2, EntryKept DEF LinkEnter, PutLocked, Visited, RefsInv
<1>4. FreeHanded(f)
  BY <1>2 DEF Frame, FreeHanded, Drop, Place, Dropping, Freeing,
              HoldsIp, HoldsDp
<1> HIDE DEF f
<1> QED BY <1>1, <1>2, <1>3, <1>4, VisitMoved

\* Or it finds one.
LEMMA LinkExistsLocks ==
  ASSUME NEW p \in Procs, LocksInv, LinkExists(p) PROVE Moved(p) \/ Stopped
<1> DEFINE i == dirlookup(k[p].dp, k[p].name)
           f == Drop(k[p], i, "exists")
<1>1. Locks(p, "go") /\ k[p].op \in ForParent /\ RefsInv
  BY DEF LinkExists, ForParent, LocksInv
<1>2. /\ k[p] \in Frame /\ k[p].pc = "go" /\ Wants(k[p]) = k[p].dp
      /\ Wants(k[p]) \in Inums /\ SameRefs(Locked(p)) /\ FreeHanded(k[p])
  BY <1>1, LockedSlots, GoLocks, WaitingFrame
<1>3. i # Null /\ Get(p, Locked(p), i, f) /\ \A j \in Inums : Kept(j)
  BY NoDiskKept DEF LinkExists
<1>4. i \in Inums
  BY <1>1, <1>2, <1>3, LookupType DEF Pointers, Frame, RefsInv
<1>5. /\ Apart(f) /\ f.pc \notin {"trunc", "free"}
      /\ \A j \in Inums : Holds(f, j) <=> j = k[p].dp
  BY <1>2 DEF Frame, Drop, Apart, Holds, Place, Dropping, Freeing,
              HoldsIp, HoldsDp
<1> HIDE DEF f, i
<1>6. Turn(p, Locked(p), f)
  BY <1>1, <1>2, <1>3, <1>5, FreeHandedHolds, TakeTurn
<1>7. icache[i].ref = 0 => Locked(p)[i].busy = icache[i].busy
  BY <1>1, <1>4, LockedSlots
<1> QED BY <1>2, <1>3, <1>4, <1>6, <1>7, TurnGets

\* And gives up.
LEMMA LinkGivesUpLocks ==
  ASSUME NEW p \in Procs, LocksInv, LinkGivesUp(p) PROVE Moved(p)
<1> DEFINE w == k[p].dp
           f == Drop([k[p] EXCEPT !.dp = Null], w, "bad")
<1>1. /\ panicked = "no" /\ k[p].pc = "exists" /\ Become(p, f)
      /\ icache' = iunlock(icache, w) /\ \A j \in Inums : Kept(j)
  BY NoDiskKept DEF LinkGivesUp, PutLocked, At
<1>2. /\ k[p] \in Frame /\ w \in Inums
      /\ \A j \in Inums : Holds(k[p], j) <=> j = w
  <2>1. k[p] \in Frame /\ FrameOK(k[p])
    BY DEF LocksInv, RefsInv, TypeOK, FramesOK
  <2> QED BY <1>1, <2>1 DEF FrameOK, HasDp, Frame, Pointers, Holds, HoldsIp,
                            HoldsDp, Place, Dropping, Freeing
<1>3. FreeHanded(f)
  BY <1>2 DEF Frame, FreeHanded, Drop, Place, Dropping, Freeing,
              HoldsIp, HoldsDp
<1> HIDE DEF f, w
<1> QED BY <1>1, <1>2, <1>3, FreeHandedHolds, UnlockMoved

\* It takes its count back.
LEMMA LinkBadLocks ==
  ASSUME NEW p \in Procs, LocksInv, LinkBad(p) PROVE Moved(p)
<1> DEFINE w == k[p].src
           n == Visited(p)[w].nlink - 1
           c == [Visited(p) EXCEPT ![w].nlink = n]
           f == Drop([k[p] EXCEPT !.src = Null], w, "user")
<1>1. Locks(p, "bad") /\ RefsInv
  BY DEF LinkBad, LocksInv
<1>2. /\ k[p] \in Frame /\ k[p].pc = "bad" /\ FreeHanded(k[p])
      /\ SameRefs(Visited(p)) /\ panicked = "no" /\ TypeOK
  BY <1>1, LockedSlots, LocksRefs, WaitingFrame DEF RefsInv
<1>3. Wants(k[p]) = w
  BY <1>2 DEF Wants
<1>4. icache' = c /\ Relinked(Visited(p), w, n, c) /\ Become(p, f)
  BY DEF LinkBad, Relinked
<1>5. FreeHanded(f)
  BY <1>2 DEF Frame, FreeHanded, Drop, Place, Dropping, Freeing,
              HoldsIp, HoldsDp
<1> HIDE DEF f, n, c, w
<1>6. /\ icache[w].busy = Nobody /\ Fits(Visited(p), disk, w)
      /\ Visited(p)[w].busy = Nobody /\ w \in Inums
      /\ \A j \in Inums \ {w} : Visited(p)[j] = icache[j]
  BY <1>1, <1>3, LockedSlots
<1>7. /\ Fits(c, disk', w) /\ c[w].busy = Nobody
      /\ \A j \in Inums \ {w} : c[j] = icache[j] /\ Kept(j)
  BY <1>2, <1>4, <1>6, RelinkFits
<1>8. /\ Apart(f) /\ f.pc \notin {"trunc", "free"} /\ k[p].pc # "freed"
      /\ \A j : ~Holds(f, j) /\ ~Holds(k[p], j)
  BY <1>2, <1>5, FreeHandedHolds
<1>9. LockMove(p, c, f, w)
  BY <1>6, <1>7, <1>8 DEF LockMove
<1>10. Turn(p, c, f)
  BY <1>2, <1>6, <1>7, <1>8, <1>9, TurnAt
<1> QED BY <1>4, <1>10, TurnMoved

-----------------------------------------------------------------------------
(* chdir(), exec(), descriptors, processes.                                *)

\* exec() looks at its file.
LEMMA ExecLocks ==
  ASSUME NEW p \in Procs, LocksInv, Exec(p) PROVE Moved(p)
<1> DEFINE f == Drop([k[p] EXCEPT !.ip = Null], k[p].ip, "user")
<1>1. Locks(p, "go") /\ k[p].op \notin ForParent /\ RefsInv
  BY DEF Exec, ForParent, Making, LocksInv
<1>2. /\ k[p] \in Frame /\ k[p].pc = "go" /\ Wants(k[p]) = k[p].ip
      /\ FreeHanded(k[p])
  BY <1>1, LockedSlots, GoLocks, WaitingFrame
<1>3. /\ icache' = Visited(p) /\ Become(p, f) /\ \A j \in Inums : Kept(j)
  BY <1>2, NoDiskKept DEF Exec, PutLocked, Visited
<1>4. FreeHanded(f)
  BY <1>2 DEF Frame, FreeHanded, Drop, Place, Dropping, Freeing,
              HoldsIp, HoldsDp
<1> HIDE DEF f
<1> QED BY <1>1, <1>2, <1>3, <1>4, VisitMoved

\* chdir() looks at its directory.
LEMMA ChdirLocks ==
  ASSUME NEW p \in Procs, LocksInv, Chdir(p) PROVE Moved(p)
<1> DEFINE f == IF Locked(p)[k[p].ip].type # "dir"
                THEN Drop([k[p] EXCEPT !.ip = Null], k[p].ip, "user")
                ELSE Drop(k[p], cwd[p], "cd")
<1>1. Locks(p, "go") /\ k[p].op \notin ForParent /\ RefsInv
  BY DEF Chdir, ForParent, Making, LocksInv
<1>2. /\ k[p] \in Frame /\ k[p].pc = "go" /\ Wants(k[p]) = k[p].ip
      /\ FreeHanded(k[p])
  BY <1>1, LockedSlots, GoLocks, WaitingFrame
<1>3. /\ icache' = Visited(p) /\ Become(p, f) /\ \A j \in Inums : Kept(j)
  BY <1>2, NoDiskKept DEF Chdir, PutLocked, Visited
<1>4. FreeHanded(f)
  BY <1>2 DEF Frame, FreeHanded, Drop, Place, Dropping, Freeing,
              HoldsIp, HoldsDp
<1> HIDE DEF f
<1> QED BY <1>1, <1>2, <1>3, <1>4, VisitMoved

\* The other steps there are.
LEMMA OtherLocks ==
  ASSUME NEW p \in Procs, LocksInv,
         ChdirDone(p) \/ ExitCall(p) \/ ExitDrop(p) \/ ExitDone(p)
  PROVE  Moved(p)
<1> DEFINE f == IF k[p].pc = "user" THEN [User EXCEPT !.pc = "exit"]
                ELSE IF k[p].pc = "exit" THEN Drop(User, cwd[p], "dead")
                ELSE User
<1>1. /\ k[p].pc \in {"user", "cd", "exit", "dead"} /\ panicked = "no"
      /\ Become(p, f) /\ UNCHANGED icache /\ \A j \in Inums : Kept(j)
  BY DEF ChdirDone, ExitCall, ExitDrop, ExitDone, At, NoDisk, Kept
<1>2. FreeHanded(f)
  BY DEF User, FreeHanded, Drop, Place, Dropping, Freeing, HoldsIp, HoldsDp
<1> HIDE DEF f
<1> QED BY <1>1, <1>2, WaitingFrame, IdleMoved

\* Closing a file.
LEMMA CloseLocks ==
  ASSUME NEW p \in Procs, LocksInv, SysClose(p) \/ ExitClose(p)
  PROVE  Moved(p)
<1>1. PICK d \in 1..NOFILE, l \in {"user", "exit"} :
        Close(p, d, l) /\ k[p].pc = l /\ panicked = "no"
  BY DEF SysClose, ExitClose, At
<1> DEFINE f == IF ftable[ofile[p][d]].ref > 1
                THEN IF l = "user" THEN User ELSE [User EXCEPT !.pc = l]
                ELSE Drop(User, ftable[ofile[p][d]].ip, l)
<1>2. /\ Become(p, f) /\ UNCHANGED icache /\ \A j \in Inums : Kept(j)
  BY <1>1 DEF Close, Kept
<1>3. FreeHanded(f)
  BY DEF User, FreeHanded, Drop, Place, Dropping, Freeing, HoldsIp, HoldsDp
<1> HIDE DEF f
<1> QED BY <1>1, <1>2, <1>3, WaitingFrame, IdleMoved

\* Steps of user space that leave the kernel's frames alone.
LEMMA DupLocks == ASSUME NEW p \in Procs, LocksInv, Dup(p) PROVE Moved(p)
<1>1. /\ k[p].pc = "user" /\ panicked = "no" /\ UNCHANGED <<disk, icache, k>>
      /\ FreeHanded(k[p])
  BY WaitingFrame DEF Dup, At
<1>2. Become(p, k[p]) /\ \A j \in Inums : Kept(j)
  BY <1>1 DEF Become, Kept, LocksInv, RefsInv, TypeOK
<1> QED BY <1>1, <1>2, IdleMoved

\* fork() takes a reference.
LEMMA ForkLocks ==
  ASSUME NEW p \in Procs, NEW q \in Procs, LocksInv, Fork(p, q)
  PROVE  Moved(p)
<1>1. /\ k[p].pc = "user" /\ panicked = "no" /\ UNCHANGED <<disk, k>>
      /\ FreeHanded(k[p]) /\ p \in live /\ icache' = iget(icache, cwd[p])
  BY WaitingFrame DEF Fork, At
<1>2. Become(p, k[p]) /\ \A j \in Inums : Kept(j)
  BY <1>1 DEF Become, Kept, LocksInv, RefsInv, TypeOK
<1>3. cwd[p] \in Inums /\ SameRefs(icache)
  <2>1. Place(k[p]) = "user"
    BY <1>1 DEF Place, Dropping
  <2> QED BY <1>1, <2>1 DEF LocksInv, RefsInv, ProcsOK, TypeOK, Pointers,
                            SameRefs
<1>4. Turn(p, icache, k[p])
  BY <1>1, <1>2, FreeHandedHolds DEF Turn, LockMove, CacheMove, Same
<1> QED BY <1>1, <1>2, <1>3, <1>4, TurnIget

-----------------------------------------------------------------------------
(* The steps of iput().                                                    *)

\* The last reference to an inode is the only pointer to it.
LEMMA SoleRef ==
  ASSUME NEW p \in live, RefsInv, NEW i \in Inums, k[p].drop = i,
         icache[i].ref = 1
  PROVE  /\ Opened(i) = {} /\ Inside(i) = {} /\ Using("drop", i) = {p}
         /\ Using("ip", i) = {} /\ Using("dp", i) = {}
         /\ Using("src", i) = {}
<1>1. /\ IsFiniteSet(Opened(i)) /\ Cardinality(Opened(i)) \in Nat
      /\ IsFiniteSet(Inside(i)) /\ Cardinality(Inside(i)) \in Nat
      /\ \A v : IsFiniteSet(Using(v, i)) /\ Cardinality(Using(v, i)) \in Nat
  BY RefsFinite DEF RefsInv
<1>2. References(i) = 1
  BY DEF RefsInv, InodeRefs
<1>3. p \in Using("drop", i) /\ Cardinality(Using("drop", i)) >= 1
  BY <1>1, CountMember DEF Using
<1>4. /\ Cardinality(Opened(i)) = 0 /\ Cardinality(Inside(i)) = 0
      /\ Cardinality(Using("ip", i)) = 0 /\ Cardinality(Using("dp", i)) = 0
      /\ Cardinality(Using("src", i)) = 0
      /\ Cardinality(Using("drop", i)) = 1
  <2> DEFINE o == Cardinality(Opened(i))
             n == Cardinality(Inside(i))
             v == Cardinality(Using("ip", i))
             d == Cardinality(Using("dp", i))
             s == Cardinality(Using("src", i))
             r == Cardinality(Using("drop", i))
  <2>1. /\ o \in Nat /\ n \in Nat /\ v \in Nat /\ d \in Nat /\ s \in Nat
        /\ r \in Nat /\ r >= 1
    BY <1>1, <1>3
  <2>2. o + n + v + d + s + r = 1
    BY <1>2 DEF References
  <2> HIDE DEF o, n, v, d, s, r
  <2>3. o = 0 /\ n = 0 /\ v = 0 /\ d = 0 /\ s = 0 /\ r = 1
    BY ONLY <2>1, <2>2
  <2> QED BY <2>3 DEF o, n, v, d, s, r
<1>5. Using("drop", i) = {p}
  BY <1>1, <1>3, <1>4, FS_Singleton
<1> QED BY <1>1, <1>4, <1>5, FS_EmptySet

\* So nobody has locked it, unless to free it.
LEMMA SoleLock ==
  ASSUME NEW p \in live, LocksInv, NEW i \in Inums, k[p].drop = i,
         icache[i].ref = 1
  PROVE  /\ k[p].ip # i /\ k[p].dp # i
         /\ k[p].pc \notin Freeing => icache[i].busy = Nobody
         /\ \A q \in Procs \ {p} : ~Holds(k[q], i)
<1>1. /\ Using("drop", i) = {p} /\ Using("ip", i) = {}
      /\ Using("dp", i) = {}
  BY SoleRef DEF LocksInv
<1>2. k[p].ip # i /\ k[p].dp # i
  BY <1>1 DEF Using
<1>3. \A q \in Procs \ {p} : ~Holds(k[q], i)
  <2> SUFFICES ASSUME NEW q \in Procs, q # p, Holds(k[q], i) PROVE FALSE
    OBVIOUS
  <2>1. q \in live
    BY HoldsPoints
  <2> QED BY <1>1, <2>1 DEF Holds, Using
<1>4. k[p].pc \notin Freeing => ~Holds(k[p], i)
  BY <1>2 DEF Holds
<1>5. /\ icache[i].busy \in Procs \cup {Nobody} /\ p \in Procs
      /\ \A q \in Procs : icache[i].busy = q => Holds(k[q], i)
  BY DEF LocksInv, LocksOK, RefsInv, TypeOK, Slot
<1> QED BY <1>2, <1>3, <1>4, <1>5

\* The frame of a call once iput() is done has the locks that it had.
LEMMA BackHolds ==
  ASSUME NEW p \in Procs, LocksInv, k[p].pc \in Dropping, NEW f,
         f = IF k[p].back = "user" THEN User
             ELSE [k[p] EXCEPT !.pc = k[p].back, !.drop = Null]
  PROVE  /\ Apart(f) /\ f.pc \notin {"trunc", "free"}
         /\ \A j \in Inums :
              /\ Holds(f, j) =>
                   Holds(k[p], j) /\ (k[p].pc \in Freeing => j # k[p].drop)
              /\ Holds(k[p], j) =>
                   Holds(f, j) \/ (k[p].pc \in Freeing /\ j = k[p].drop)
<1>1. k[p] \in Frame /\ Apart(k[p]) /\ Place(k[p]) = k[p].back
  BY DEF LocksInv, LocksOK, RefsInv, TypeOK, Place
<1>2. CASE k[p].back = "user"
  <2>1. FreeHanded(f) /\ f.pc = "user"
    BY <1>2, UserFree DEF User
  <2> QED BY <1>1, <1>2, <2>1, FreeHandedHolds
          DEF Holds, HoldsIp, HoldsDp
<1>3. CASE k[p].back # "user"
  <2>1. /\ f.pc = k[p].back /\ f.pc \notin Dropping /\ f.ip = k[p].ip
        /\ f.dp = k[p].dp /\ f.drop = Null /\ Place(f) = k[p].back
    BY <1>1, <1>3 DEF Frame, Places, Dropping, Place
  <2> QED BY <1>1, <2>1
          DEF Apart, Holds, Freeing, Dropping
<1> QED BY <1>2, <1>3

\* iput() gives a reference back.
LEMMA PutLocks == ASSUME NEW p \in Procs, LocksInv, Put(p) PROVE Moved(p)
<1> DEFINE f == IF k[p].back = "user" THEN User
                ELSE [k[p] EXCEPT !.pc = k[p].back, !.drop = Null]
           i == k[p].drop
           s == IF icache[i].ref = 1 THEN Uncached
                ELSE [icache[i] EXCEPT !.ref = icache[i].ref - 1]
<1>1. /\ p \in live /\ k[p].pc = "put" /\ panicked = "no" /\ Become(p, f)
      /\ icache' = [icache EXCEPT ![i] = s] /\ \A j \in Inums : Kept(j)
  BY NoDiskKept DEF Put, Release, At
<1>2. i \in Inums /\ icache \in [Inums -> Slot]
  BY <1>1, DropRefs, FrameOf DEF Dropping, LocksInv
<1>3. /\ Apart(f) /\ f.pc \notin {"trunc", "free"}
      /\ \A j \in Inums : Holds(f, j) <=> Holds(k[p], j)
  BY <1>1, BackHolds DEF Dropping, Freeing
<1> HIDE DEF f
<1>4. ASSUME NEW j \in Inums
      PROVE  LockMove(p, icache', f, j) /\ CacheMove(p, icache', f, j)
  <2>1. CASE j # i
    <3>1. icache'[j] = icache[j]
      BY <1>1, <1>2, <2>1
    <3> QED BY <1>1, <1>3, <3>1 DEF LockMove, CacheMove, Same
  <2>2. CASE j = i /\ icache[i].ref = 1
    <3>1. icache'[i] = Uncached /\ icache[i].busy = Nobody
      BY <1>1, <1>2, <2>2, SoleLock DEF Freeing
    <3> QED BY <1>3, <2>2, <3>1 DEF LockMove, CacheMove, Uncached
  <2>3. CASE j = i /\ icache[i].ref # 1
    <3>1. icache'[i] = [icache[i] EXCEPT !.ref = icache[i].ref - 1]
      BY <1>1, <1>2, <2>3
    <3>2. Same(icache', i)
      BY <1>2, <3>1 DEF Same, Slot
    <3> QED BY <1>1, <1>3, <2>3, <3>2 DEF LockMove, CacheMove, Same
  <2> QED BY <2>1, <2>2, <2>3
<1>5. Turn(p, icache', f)
  BY <1>1, <1>3, <1>4 DEF Turn
<1> QED BY <1>1, <1>5, TurnMoved

\* iput() of an inode that it has freed.
LEMMA FreedLocks == ASSUME NEW p \in Procs, LocksInv, Freed(p) PROVE Moved(p)
<1> DEFINE f == IF k[p].back = "user" THEN User
                ELSE [k[p] EXCEPT !.pc = k[p].back, !.drop = Null]
           i == k[p].drop
           s == IF icache[i].ref = 1 THEN Uncached
                ELSE [Uncached EXCEPT !.ref = icache[i].ref - 1]
<1>1. /\ p \in live /\ k[p].pc = "freed" /\ panicked = "no" /\ Become(p, f)
      /\ icache' = [icache EXCEPT ![i] = s] /\ \A j \in Inums : Kept(j)
  BY NoDiskKept DEF Freed, At
<1>2. i \in Inums /\ icache \in [Inums -> Slot]
  BY <1>1, DropRefs, FrameOf DEF Dropping, LocksInv
<1>3. /\ Apart(f) /\ f.pc \notin {"trunc", "free"} /\ ~Holds(f, i)
      /\ \A j \in Inums \ {i} : Holds(f, j) <=> Holds(k[p], j)
  BY <1>1, <1>2, BackHolds DEF Dropping, Freeing
<1>4. Holds(k[p], i)
  BY <1>1 DEF Holds, Freeing
<1>5. s.busy = Nobody /\ ~s.valid
  BY DEF Uncached
<1> HIDE DEF f, s
<1>6. /\ icache'[i] = s /\ \A j \in Inums \ {i} : icache'[j] = icache[j]
  BY <1>1, <1>2
<1>7. ASSUME NEW j \in Inums
      PROVE  LockMove(p, icache', f, j) /\ CacheMove(p, icache', f, j)
  <2>1. CASE j # i
    BY <1>1, <1>3, <1>6, <2>1 DEF LockMove, CacheMove, Same
  <2>2. CASE j = i
    BY <1>3, <1>4, <1>5, <1>6, <2>2 DEF LockMove, CacheMove
  <2> QED BY <2>1, <2>2
<1>8. Turn(p, icache', f)
  BY <1>1, <1>3, <1>7 DEF Turn
<1> QED BY <1>1, <1>8, TurnMoved

\* A step of freeing.
LEMMA GotoHolds ==
  ASSUME NEW p \in Procs, NEW l \in Freeing, LocksInv, k[p].pc \in Dropping,
         k[p].drop # k[p].ip, k[p].drop # k[p].dp, NEW f,
         f = [k[p] EXCEPT !.pc = l]
  PROVE  /\ Apart(f) /\ f.pc = l /\ f.drop = k[p].drop
         /\ Holds(f, k[p].drop)
         /\ \A j \in Inums \ {k[p].drop} : Holds(f, j) <=> Holds(k[p], j)
<1>1. k[p] \in Frame /\ Apart(k[p])
  BY DEF LocksInv, LocksOK, RefsInv, TypeOK
<1>2. /\ f.pc = l /\ f.drop = k[p].drop /\ f.ip = k[p].ip /\ f.dp = k[p].dp
      /\ Place(f) = Place(k[p])
  BY <1>1 DEF Frame, Place, Freeing, Dropping
<1> QED BY <1>1, <1>2 DEF Apart, Holds

\* iput() locks the inode that it will free.
LEMMA PutUnusedLocks ==
  ASSUME NEW p \in Procs, LocksInv, PutUnused(p) PROVE Moved(p)
<1> DEFINE f == [k[p] EXCEPT !.pc = "trunc"]
           i == k[p].drop
<1>1. /\ p \in live /\ k[p].pc = "put" /\ panicked = "no"
      /\ Unused(i) /\ icache[i].ref = 1
  BY DEF PutUnused, Unused, At
<1>2. i \in Inums /\ icache \in [Inums -> Slot]
  BY <1>1, DropRefs, FrameOf DEF Dropping, LocksInv
<1>3. k[p].ip # i /\ k[p].dp # i /\ icache[i].busy = Nobody
  BY <1>1, <1>2, SoleLock DEF Freeing
<1>4. /\ icache' = [icache EXCEPT ![i].busy = p] /\ Become(p, f)
      /\ \A j \in Inums : Kept(j)
  BY <1>3, NoDiskKept DEF PutUnused, Unlocked
<1>5. /\ Apart(f) /\ f.pc = "trunc" /\ f.drop = i /\ Holds(f, i)
      /\ \A j \in Inums \ {i} : Holds(f, j) <=> Holds(k[p], j)
  BY <1>1, <1>3, GotoHolds DEF Freeing, Dropping
<1> HIDE DEF f
<1>6. /\ icache'[i] = [icache[i] EXCEPT !.busy = p] /\ icache[i] \in Slot
      /\ \A j \in Inums \ {i} : icache'[j] = icache[j]
  BY <1>2, <1>4
<1>7. /\ icache'[i].busy = p /\ icache'[i].nlink = 0
      /\ Fits(icache', disk', i)
  <2>1. icache[i].valid /\ icache[i].nlink = 0
    BY <1>1 DEF Unused
  <2>2. ~FreedOf(i)
    <3> SUFFICES ASSUME NEW q \in Procs, k[q].pc = "freed", k[q].drop = i
                 PROVE  FALSE
      BY DEF FreedOf
    <3>1. Holds(k[q], i)
      BY DEF Holds, Freeing
    <3> QED BY <3>1, <1>2, <1>3, HoldsPoints, ProcAssumption
  <2>3. Fits(icache, disk, i)
    BY <1>1, <1>2, <2>1, <2>2 DEF LocksInv, CacheOK, Fits
  <2> HIDE DEF i
  <2> QED BY <1>2, <1>4, <1>6, <2>1, <2>3 DEF Slot, Fits, Kept
<1> HIDE DEF i
<1>8. ASSUME NEW j \in Inums
      PROVE  LockMove(p, icache', f, j) /\ CacheMove(p, icache', f, j)
  <2>1. CASE j # i
    BY <1>1, <1>4, <1>5, <1>6, <2>1 DEF LockMove, CacheMove, Same
  <2>2. CASE j = i
    BY <1>3, <1>5, <1>7, <2>2 DEF LockMove, CacheMove
  <2> QED BY <2>1, <2>2
<1>9. k'[p] = f /\ \A q \in Procs \ {p} : k'[q] = k[q]
  BY <1>4 DEF Become, LocksInv, RefsInv, TypeOK
<1> QED BY <1>1, <1>5, <1>7, <1>8, <1>9 DEF Moved

\* It truncates it.
LEMMA TruncLocks == ASSUME NEW p \in Procs, LocksInv, Trunc(p) PROVE Moved(p)
<1> DEFINE f == [k[p] EXCEPT !.pc = "free"]
           i == k[p].drop
<1>1. /\ p \in live /\ k[p].pc = "trunc" /\ panicked = "no" /\ Become(p, f)
      /\ UNCHANGED icache
      /\ disk' = [disk EXCEPT ![k[p].drop].ents = NoEntries]
  BY DEF Trunc, At
<1>2. \A j \in Inums : Kept(j)
  <2> TAKE j \in Inums
  <2>1. disk \in [Inums -> Inode]
    BY DEF LocksInv, RefsInv, TypeOK
  <2> QED BY <1>1, <2>1 DEF Kept, Inode
<1>3. k[p].drop # k[p].ip /\ k[p].drop # k[p].dp /\ icache[i].nlink = 0
  BY <1>1 DEF LocksInv, LocksOK, Apart, Freeing, FreeingOK
<1>4. /\ Apart(f) /\ f.pc = "free" /\ f.drop = i /\ Holds(f, i)
      /\ \A j \in Inums \ {i} : Holds(f, j) <=> Holds(k[p], j)
  BY <1>1, <1>3, GotoHolds DEF Freeing, Dropping
<1>5. Holds(k[p], i)
  BY <1>1 DEF Holds, Freeing
<1> HIDE DEF f
<1>6. k'[p] = f /\ \A q \in Procs \ {p} : k'[q] = k[q]
  BY <1>1 DEF Become, LocksInv, RefsInv, TypeOK
<1> QED BY <1>1, <1>2, <1>3, <1>4, <1>5, <1>6
        DEF Moved, LockMove, CacheMove, Same

\* And frees it on the disk.
LEMMA FreeOnDiskLocks ==
  ASSUME NEW p \in Procs, LocksInv, FreeOnDisk(p) PROVE Moved(p)
<1> DEFINE f == [k[p] EXCEPT !.pc = "freed"]
           i == k[p].drop
<1>1. /\ p \in live /\ k[p].pc = "free" /\ panicked = "no" /\ Become(p, f)
      /\ disk' = [disk EXCEPT ![i] = FreeInode]
      /\ icache' = [icache EXCEPT ![i].type = "free"]
  BY DEF FreeOnDisk, At
<1>2. i \in Inums /\ icache \in [Inums -> Slot] /\ disk \in [Inums -> Inode]
  BY <1>1, DropRefs, FrameOf DEF Dropping, LocksInv
<1>3. k[p].drop # k[p].ip /\ k[p].drop # k[p].dp
  BY <1>1 DEF LocksInv, LocksOK, Apart, Freeing
<1>4. /\ Apart(f) /\ f.pc = "freed" /\ f.drop = i /\ Holds(f, i)
      /\ \A j \in Inums \ {i} : Holds(f, j) <=> Holds(k[p], j)
  BY <1>1, <1>3, GotoHolds DEF Freeing, Dropping
<1>5. Holds(k[p], i)
  BY <1>1 DEF Holds, Freeing
<1>6. icache[i].busy = p /\ icache[i].valid
  BY <1>2, <1>5, HoldsPoints
<1> HIDE DEF f, i
<1>7. /\ icache'[i] = [icache[i] EXCEPT !.type = "free"]
      /\ icache[i] \in Slot
      /\ \A j \in Inums \ {i} : icache'[j] = icache[j] /\ disk'[j] = disk[j]
  BY <1>1, <1>2
<1>8. icache'[i].busy = p /\ icache'[i].valid
  BY <1>6, <1>7 DEF Slot
<1>9. ASSUME NEW j \in Inums
      PROVE  LockMove(p, icache', f, j) /\ CacheMove(p, icache', f, j)
  <2>1. CASE j # i
    BY <1>1, <1>4, <1>7, <2>1 DEF LockMove, CacheMove, Same, Kept
  <2>2. CASE j = i
    BY <1>4, <1>5, <1>6, <1>8, <2>2 DEF LockMove, CacheMove
  <2> QED BY <2>1, <2>2
<1>10. Turn(p, icache', f)
  BY <1>1, <1>4, <1>9 DEF Turn
<1> QED BY <1>1, <1>10, TurnMoved

-----------------------------------------------------------------------------
(* The invariant.                                                          *)

\* A process that may not lock what it wants stops the kernel.
LEMMA IlockPanicLocks ==
  ASSUME NEW p \in Procs, IlockPanic(p) PROVE Stopped
BY DEF IlockPanic, Panic, Stop, Stopped

\* Every step of a process moves locks and slots in one of these ways.
LEMMA StepMoves ==
  ASSUME NEW p \in Procs, LocksInv, Step(p) PROVE Moved(p) \/ Stopped
<1>1. CASE \E r \in Requests : Call(p, r)
  BY <1>1, CallLocks
<1>2. CASE IlockPanic(p)
  BY <1>2, IlockPanicLocks
<1>3. CASE Put(p) \/ PutUnused(p) \/ Trunc(p) \/ FreeOnDisk(p) \/ Freed(p)
  BY <1>3, PutLocks, PutUnusedLocks, TruncLocks, FreeOnDiskLocks, FreedLocks
<1>4. CASE WalkEnd(p) \/ WalkFails(p) \/ WalkStops(p) \/ WalkOn(p)
  BY <1>4, WalkEndLocks, WalkFailsLocks, WalkStopsLocks, WalkOnLocks
<1>5. CASE OpenLock(p) \/ OpenDone(p) \/ OpenFails(p)
  BY <1>5, OpenLockLocks, OpenDoneLocks, OpenFailsLocks
<1>6. CASE CreateFinds(p) \/ CreateFound(p) \/ CreateAlloc(p) \/ CreateInit(p)
  BY <1>6, CreateFindsLocks, CreateFoundLocks, CreateAllocLocks,
     CreateInitLocks
<1>7. CASE CreateCount(p) \/ CreateDots(p) \/ CreateEnter(p) \/ Made(p)
  BY <1>7, CreateCountLocks, CreateDotsLocks, CreateEnterLocks, MadeLocks
<1>8. CASE UnlinkFails(p) \/ UnlinkFinds(p) \/ UnlinkErase(p)
           \/ UnlinkGivesUp(p)
  BY <1>8, UnlinkFailsLocks, UnlinkFindsLocks, UnlinkEraseLocks,
     UnlinkGivesUpLocks
<1>9. CASE UnlinkCount(p) \/ UnlinkDone(p) \/ Rest(p)
  BY <1>9, UnlinkCountLocks, UnlinkDoneLocks, RestLocks
<1>10. CASE LinkFails(p) \/ LinkCount(p) \/ LinkEnter(p)
  BY <1>10, LinkFailsLocks, LinkCountLocks, LinkEnterLocks
<1>11. CASE LinkExists(p) \/ LinkGivesUp(p) \/ LinkBad(p)
  BY <1>11, LinkExistsLocks, LinkGivesUpLocks, LinkBadLocks
<1>12. CASE Chdir(p) \/ ChdirDone(p) \/ Exec(p) \/ Dup(p) \/ SysClose(p)
  BY <1>12, ChdirLocks, OtherLocks, ExecLocks, DupLocks, CloseLocks
<1>13. CASE \E q \in Procs : Fork(p, q)
  BY <1>13, ForkLocks
<1>14. CASE ExitCall(p) \/ ExitClose(p) \/ ExitDrop(p) \/ ExitDone(p)
  BY <1>14, OtherLocks, CloseLocks
<1> QED BY <1>1, <1>2, <1>3, <1>4, <1>5, <1>6, <1>7, <1>8, <1>9, <1>10, <1>11,
           <1>12, <1>13, <1>14 DEF Step

\* So it keeps the invariant.
LEMMA ProcessLocks ==
  ASSUME NEW p \in Procs, LocksInv, Step(p) PROVE LocksInv'
<1>1. RefsInv'
  BY ProcessStep DEF LocksInv
<1> QED BY <1>1, StepMoves, MovedLocks, StoppedLocks

\* In a fresh memory nothing is locked, and what is cached is as it is on
\* the disk if the directories are directories.
Placed ==
  \A p \in Procs : cwd[p] \notin {Null, Root} => disk[cwd[p]].type = "dir"
FreshLocksOK == RefsInv /\ Fresh /\ Placed => LocksInv

\* There the invariant holds.
LEMMA FreshLocks == FreshLocksOK
<1> SUFFICES ASSUME RefsInv, Fresh, Placed PROVE LocksInv
  BY DEF FreshLocksOK
<1>1. \A p \in Procs : k[p] = User /\ FreeHanded(User)
  BY UserFree DEF Fresh, AllUser
<1>2. ASSUME NEW i \in Inums
      PROVE  /\ icache[i].busy = Nobody
             /\ icache[i].valid => Fits(icache, disk, i)
  <2> DEFINE n == Cardinality({p \in Procs : cwd[p] = i})
  <2>1. icache[i] = IF n = 0 \/ i = Root THEN [Uncached EXCEPT !.ref = n]
                    ELSE [Uncached EXCEPT !.ref = n, !.valid = TRUE,
                            !.type = disk[i].type, !.nlink = disk[i].nlink]
    BY DEF Fresh, Idle
  <2>2. n # 0 /\ i # Root => disk[i].type # "free"
    <3>1. n # 0 => \E p \in Procs : cwd[p] = i
      <4>1. ({p \in Procs : cwd[p] = i} = {}) => n = 0
        BY FS_EmptySet
      <4> QED BY <4>1
    <3> QED BY <3>1 DEF Placed, Inums, Null
  <2> HIDE DEF n
  <2> QED BY <2>1, <2>2 DEF Uncached, Fits
<1>3. LocksOK
  BY <1>1, <1>2, FreeHandedHolds, ProcAssumption DEF LocksOK
<1>4. CacheOK
  BY <1>2 DEF CacheOK, Fits
<1>5. FreeingOK
  BY <1>1 DEF FreeingOK, User
<1> QED BY <1>3, <1>4, <1>5 DEF LocksInv

\* Power fails, and the kernel boots.
LEMMA CrashLocks == ASSUME LocksInv, Crash PROVE LocksInv'
<1>1. FreshLocksOK'
  BY FreshLocks, PTL
<1>2. RefsInv'
  BY CrashStep DEF LocksInv
<1>3. /\ InitAlone \in [Procs -> Pointers]
      /\ {First} = {p \in Procs : InitAlone[p] # Null}
      /\ \A p \in Procs : InitAlone[p] \in {Null, Root}
  BY ProcAssumption, NumberAssumption
     DEF InitAlone, Pointers, Inums, Root, Null
<1>4. Fresh' /\ Placed'
  BY <1>3 DEF Crash, Fresh, Placed, LocksInv, RefsInv, TypeOK
<1> QED BY <1>1, <1>2, <1>4 DEF FreshLocksOK

\* The system starts.
LEMMA InitLocks == ASSUME Init PROVE LocksInv
<1>1. PICK s \in Starts :
        /\ disk = s.disk /\ cwd = s.cwd /\ icache = Idle(s.cwd, s.disk)
        /\ live = {p \in Procs : s.cwd[p] # Null}
        /\ ftable = NoFiles /\ ofile = NoDescriptors /\ k = AllUser
  BY DEF Init
<1>2. /\ s.disk \in [Inums -> DiskInode] /\ s.cwd \in [Procs -> Pointers]
      /\ \A p \in Procs : s.cwd[p] # Null => s.cwd[p] \in DirsOn(s.disk)
  BY StartAssumption
<1>3. DiskInode \subseteq Inode
  BY DEF DiskInode, Inode
<1>4. Fresh /\ Placed
  BY <1>1, <1>2, <1>3 DEF Fresh, Placed, DirsOn
<1> QED BY <1>4, InitRefs, FreshLocks DEF FreshLocksOK

\* A step that changes nothing.
LEMMA LocksStutter == ASSUME LocksInv, UNCHANGED vars PROVE LocksInv'
<1>1. RefsInv'
  BY RefsStutter DEF LocksInv
<1>2. UNCHANGED <<disk, icache, k, panicked>>
  BY DEF vars, procVars
<1>3. LocksOK' /\ CacheOK' /\ FreeingOK'
  BY <1>2 DEF LocksInv, LocksOK, CacheOK, FreeingOK, FreedOf, Apart, Holds,
              HoldsIp, HoldsDp, Freeing, Place
<1> QED BY <1>1, <1>3 DEF LocksInv

(* Whatever the calls do and in whatever order their steps come: an inode  *)
(* is locked by exactly the process whose call is at a label that has it,  *)
(* no call has an inode locked twice, and what the cache says of a locked  *)
(* or unlocked inode is what the disk says, except of one that iput() has  *)
(* just freed.  (ilock, iunlock, iupdate, iput)                            *)
THEOREM FileSysLocks == Spec => []LocksInv
<1>1. Init => LocksInv
  BY InitLocks
<1>2. LocksInv /\ [Next]_vars => LocksInv'
  BY ProcessLocks, CrashLocks, LocksStutter DEF Next
<1> QED BY <1>1, <1>2, PTL DEF Spec

=============================================================================
