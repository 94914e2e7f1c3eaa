--------------------------- MODULE Bcache_proofs ---------------------------
(***************************************************************************)
(* Proofs, for any number of processes, buffers and sectors, of the safety *)
(* properties of Bcache and that it implements SectorStore.  The inductive *)
(* invariant is IInv.                                                      *)
(***************************************************************************)
EXTENDS Bcache, SequenceTheorems, TLAPS

Labels == {"idle", "bget", "bgetwait", "bread", "iderw", "idewait", "idetest",
           "hold", "panic"}

\* Where a process is tells what it is after and which buffer it is at.
Local ==
  \A p \in Procs :
    /\ Has(p) => cur[p] \in Bufs /\ cur[p] # kept[p]
    /\ pc[p] = "bgetwait" => cur[p] \in Bufs
    /\ pc[p] = "idle" => cur[p] = NoBuf /\ kept[p] = NoBuf
    /\ pc[p] # "idle" => want[p] \in Sectors

\* A buffer with a flag belongs to a sector; one that is dirty is in use.
FlagInv ==
  \A b \in Bufs :
    /\ flags[b] # {} => sector[b] \in Sectors
    /\ "DIRTY" \in flags[b] => Busy(b) /\ data[b] \in Data[sector[b]]

\* What a process is doing tells the flags of its buffers.
DoneInv ==
  \A p \in Procs :
    /\ pc[p] = "hold" => IsDone(cur[p])
    /\ kept[p] # NoBuf => IsDone(kept[p])
    /\ pc[p] = "iderw" => ~IsDone(cur[p])
    /\ pc[p] = "bread" => "DIRTY" \notin flags[cur[p]]

\* Buffers agree with the disk, except for those of failed requests; the disk
\* has done what it will report.
DataInv ==
  /\ \A b \in Bufs \ bad : IsDone(b) => data[b] = disk[sector[b]]
  /\ device = "done" /\ ~failed /\ "DIRTY" \in flags[Head(idequeue)] =>
       data[Head(idequeue)] = disk[sector[Head(idequeue)]]

IInv ==
  /\ TypeOK /\ Local /\ OneOwner /\ OneBufferPerSector
  /\ FlagInv /\ DoneInv /\ NoLostBuffer /\ QueueExact /\ DataInv

-----------------------------------------------------------------------------
(* Types.                                                                  *)

\* The numbers that stand for no buffer and no sector are none; who is woken
\* goes on where it was.
LEMMA Facts ==
  /\ NoBuf \notin Bufs /\ NoSector \notin Sectors
  /\ Nobody \notin Procs
  /\ \A s \in Sectors : Data[s] \subseteq Contents
  /\ \A f \in Disks : f \in [Sectors -> Contents]
                      /\ \A s \in Sectors : f[s] \in Data[s]
  /\ \A f \in Disks, s \in Sectors : \A d \in Data[s] :
       [f EXCEPT ![s] = d] \in Disks
<1>1. NoBuf \notin Bufs /\ NoSector \notin Sectors /\ Nobody \notin Procs
  BY SizeAssumption DEF NoBuf, Bufs, NoSector, Sectors
<1>2. \A s \in Sectors : Data[s] \subseteq UNION {Data[t] : t \in Sectors}
  OBVIOUS
<1>3. \A f \in Disks : f \in [Sectors -> Contents]
                       /\ \A s \in Sectors : f[s] \in Data[s]
  BY <1>2 DEF Disks, Contents
<1>4. ASSUME NEW f \in Disks, NEW s \in Sectors, NEW d \in Data[s]
      PROVE  [f EXCEPT ![s] = d] \in Disks
  BY <1>2 DEF Disks
<1> QED BY <1>1, <1>2, <1>3, <1>4 DEF Contents

\* wakeup() leaves every process at a label, and moves only sleepers.
LEMMA WokenType ==
  ASSUME pc \in [Procs -> Labels], NEW b, NEW p, NEW l \in Labels
  PROVE  /\ Woken(b, p, l) \in [Procs -> Labels]
         /\ \A q \in Procs :
              Woken(b, p, l)[q] =
                IF q = p THEN l
                ELSE IF Asleep(q) /\ cur[q] = b THEN Resumed(pc[q])
                ELSE pc[q]
BY DEF Woken, Resumed, Labels

\* A queue stays a queue of buffers.
LEMMA QueueType ==
  ASSUME idequeue \in Seq(Bufs)
  PROVE  /\ idequeue # <<>> => Head(idequeue) \in Bufs
                               /\ Tail(idequeue) \in Seq(Bufs)
         /\ \A b \in Bufs : Append(idequeue, b) \in Seq(Bufs)
BY HeadTailProperties, AppendProperties

\* brelse() reorders the list of buffers.
LEMMA FrontType ==
  ASSUME lru \in [Bufs -> Bufs], NEW b \in Bufs
  PROVE  ToFront(b) \in [Bufs -> Bufs]
<1> DEFINE n == CHOOSE i \in Bufs : lru[i] = b
<1>1. \A i \in Bufs : i # 1 => i - 1 \in Bufs
  BY SizeAssumption DEF Bufs
<1>2. \A i \in Bufs :
        (IF i = 1 THEN b ELSE IF i <= n THEN lru[i - 1] ELSE lru[i]) \in Bufs
  BY <1>1
<1> QED BY <1>2 DEF ToFront

\* Types at the start.
LEMMA TypeInit == Init => TypeOK
<1> SUFFICES ASSUME Init PROVE TypeOK
  OBVIOUS
<1>1. lru \in [Bufs -> Bufs]
  BY SizeAssumption DEF Init, Bufs
<1>2. idequeue \in Seq(Bufs)
  BY EmptySeq DEF Init
<1> QED BY <1>1, <1>2 DEF Init, TypeOK, Contents

\* Types, by the steps of bread() and of waiting.
LEMMA TypeCalls ==
  ASSUME TypeOK, Local, NEW p \in Procs,
         \/ \E s \in Sectors : Bread(p, s)
         \/ BgetHit(p) \/ BgetWait(p) \/ BgetRecycle(p) \/ BgetPanic(p)
         \/ BreadDone(p) \/ Kill(p) \/ IdeTest(p)
  PROVE  TypeOK'
<1> USE DEF bufVars, ideVars, procVars, Goto
<1>1. CASE \E s \in Sectors : Bread(p, s)
  BY <1>1 DEF Bread, TypeOK
<1>2. CASE BgetHit(p)
  BY <1>2 DEF BgetHit, TypeOK, Cached
<1>3. CASE BgetWait(p)
  BY <1>3 DEF BgetWait, TypeOK, Cached
<1>4. CASE BgetRecycle(p)
  BY <1>4 DEF BgetRecycle, TypeOK, FreshFlags
<1>5. CASE BgetPanic(p)
  BY <1>5 DEF BgetPanic, TypeOK
<1>6. CASE BreadDone(p)
  BY <1>6 DEF BreadDone, TypeOK
<1>7. CASE Kill(p)
  BY <1>7 DEF Kill, Resumed, TypeOK
<1>8. CASE IdeTest(p)
  BY <1>8 DEF IdeTest, TypeOK
<1> QED BY <1>1, <1>2, <1>3, <1>4, <1>5, <1>6, <1>7, <1>8

\* Types, by the holder's bwrite(), brelse() and iderw().
LEMMA TypeBuffers ==
  ASSUME TypeOK, Local, NEW p \in Procs,
         \/ \E d \in Contents : Bwrite(p, d)
         \/ Brelse(p) \/ IdeRw(p)
  PROVE  TypeOK'
<1> USE DEF bufVars, ideVars, procVars, Goto
<1>1. CASE \E d \in Contents : Bwrite(p, d)
  BY <1>1 DEF Bwrite, TypeOK, Local, Has
<1>2. CASE Brelse(p)
  <2>1. cur[p] \in Bufs
    BY <1>2 DEF Brelse, Local, Has
  <2>2. lru' \in [Bufs -> Bufs]
    BY <1>2, <2>1, FrontType DEF Brelse, TypeOK
  <2>3. pc' \in [Procs -> Labels]
    <3> DEFINE l == IF kept[p] = NoBuf THEN "idle" ELSE "hold"
    <3>1. l \in Labels /\ pc' = Woken(cur[p], p, l)
      BY <1>2 DEF Brelse, ReleaseWakes, Labels
    <3> HIDE DEF l
    <3> QED BY <3>1, WokenType DEF TypeOK, Labels
  <2> QED BY <1>2, <2>2, <2>3 DEF Brelse, TypeOK, Labels
<1>3. CASE IdeRw(p)
  <2>1. cur[p] \in Bufs /\ idequeue' = Append(idequeue, cur[p])
    BY <1>3 DEF IdeRw, Local, Has
  <2>2. idequeue' \in Seq(Bufs)
    BY <2>1, QueueType DEF TypeOK
  <2> QED BY <1>3, <2>2 DEF IdeRw, TypeOK
<1> QED BY <1>1, <1>2, <1>3

\* While the disk is not ready, it has a request: the first of the queue.
LEMMA FirstRequest ==
  ASSUME TypeOK, QueueExact, device # "ready"
  PROVE  idequeue # <<>> /\ Head(idequeue) \in Bufs
BY QueueType DEF TypeOK, QueueExact

\* That request is for a buffer that a process has and waits for.
LEMMA FirstInUse ==
  ASSUME TypeOK, FlagInv, OneOwner, QueueExact, device # "ready"
  PROVE  /\ Busy(Head(idequeue)) /\ sector[Head(idequeue)] \in Sectors
         /\ ~IsDone(Head(idequeue))
         /\ \E p \in Procs : pc[p] \in {"idewait", "idetest"}
                             /\ cur[p] = Head(idequeue)
<1> DEFINE b == Head(idequeue)
<1>1. b \in Bufs /\ idequeue # <<>>
  BY FirstRequest
<1>2. 1 \in 1..Len(idequeue) /\ idequeue[1] = b
  BY <1>1 DEF TypeOK
<1>3. PICK p \in Procs :
        pc[p] \in {"idewait", "idetest"} /\ cur[p] = b /\ ~IsDone(b)
  BY <1>1, <1>2 DEF QueueExact
<1>4. Busy(b)
  BY <1>1, <1>3 DEF OneOwner, Holds, Has
<1>5. sector[b] \in Sectors
  BY <1>1, <1>4 DEF FlagInv, Busy
<1> QED BY <1>3, <1>4, <1>5

\* Types, by the disk: the buffer it is given has a sector.
LEMMA TypeDisk ==
  ASSUME TypeOK, FlagInv, OneOwner, QueueExact, DiskWorks \/ IdeIntr
  PROVE  TypeOK'
<1> USE DEF bufVars, ideVars, procVars
<1> DEFINE b == Head(idequeue)
<1>1. b \in Bufs /\ idequeue # <<>>
  BY FirstRequest DEF DiskWorks, IdeIntr
<1>2. CASE DiskWorks
  <2>1. disk' \in Disks
    <3>1. CASE "DIRTY" \in flags[b] /\ ~failed'
      <4>1. sector[b] \in Sectors /\ data[b] \in Data[sector[b]]
        BY <1>1, <3>1 DEF FlagInv
      <4> QED BY <1>2, <3>1, <4>1, Facts DEF DiskWorks, TypeOK
    <3>2. CASE ~("DIRTY" \in flags[b] /\ ~failed')
      BY <1>2, <3>2 DEF DiskWorks, TypeOK
    <3> QED BY <3>1, <3>2
  <2> QED BY <1>2, <2>1 DEF DiskWorks, TypeOK
<1>3. CASE IdeIntr
  <2>1. idequeue' \in Seq(Bufs)
    BY <1>1, <1>3, QueueType DEF IdeIntr, TypeOK
  <2>2. pc' \in [Procs -> Labels]
    <3>1. pc' = Woken(b, Nobody, "idle") /\ "idle" \in Labels
      BY <1>3 DEF IdeIntr, Labels
    <3> QED BY <3>1, WokenType DEF TypeOK, Labels
  <2>3. data' \in [Bufs -> Contents]
    <3>1. CASE "DIRTY" \notin flags[b] /\ ~failed
      <4>1. data' = [data EXCEPT ![b] = disk[sector[b]]]
        BY <1>3, <3>1 DEF IdeIntr
      <4>2. sector[b] \in Sectors
        BY <1>3, FirstInUse DEF IdeIntr
      <4> QED BY <1>1, <4>1, <4>2, Facts DEF TypeOK
    <3>2. CASE ~("DIRTY" \notin flags[b] /\ ~failed)
      BY <1>3, <3>2 DEF IdeIntr, TypeOK
    <3> QED BY <3>1, <3>2
  <2>4. device' \in {"ready", "busy", "done"}
    BY <1>3 DEF IdeIntr, NextRequest
  <2> QED BY <1>1, <1>3, <2>1, <2>2, <2>3, <2>4 DEF IdeIntr, TypeOK, Labels
<1> QED BY <1>2, <1>3

-----------------------------------------------------------------------------
(* Who has which buffer.                                                   *)

\* A step leaves the buffers where they are, or p takes b, or gives b back.
Same ==
  /\ \A p \in Procs : Holds(p)' = Holds(p)
  /\ \A b \in Bufs : Busy(b)' <=> Busy(b)
Taken(p, b) ==
  /\ ~Busy(b) /\ Holds(p)' = Holds(p) \cup {b}
  /\ \A q \in Procs : q # p => Holds(q)' = Holds(q)
  /\ \A c \in Bufs : Busy(c)' <=> Busy(c) \/ c = b
Given(p, b) ==
  /\ b \in Holds(p) /\ Holds(p)' = Holds(p) \ {b}
  /\ \A q \in Procs : q # p => Holds(q)' = Holds(q)
  /\ \A c \in Bufs : Busy(c)' <=> Busy(c) /\ c # b

\* What a process holds is buffers.
LEMMA HoldsIn == \A p \in Procs : Holds(p) \subseteq Bufs
BY DEF Holds

\* wakeup() gives nobody a buffer and takes none.
LEMMA WokenHas ==
  ASSUME TypeOK, NEW b, NEW p, NEW l \in Labels, pc' = Woken(b, p, l),
         NEW q \in Procs, q # p
  PROVE  Has(q)' <=> Has(q)
BY WokenType DEF TypeOK, Labels, Has, Asleep, Resumed

\* These leave the buffers where they are,
LEMMA SameCalls ==
  ASSUME TypeOK, Local, NEW p \in Procs,
         \/ \E s \in Sectors : Bread(p, s)
         \/ BgetWait(p) \/ BgetPanic(p) \/ BreadDone(p) \/ Kill(p)
         \/ IdeTest(p) \/ IdeRw(p) \/ \E d \in Contents : Bwrite(p, d)
  PROVE  Same
<1> USE DEF bufVars, ideVars, procVars, Goto
<1>1. CASE \E s \in Sectors : Bread(p, s)
  <2>1. \A q \in Procs : Holds(q)' = Holds(q)
    <3> SUFFICES ASSUME NEW q \in Procs PROVE Holds(q)' = Holds(q)
      OBVIOUS
    <3>1. CASE q # p
      BY <1>1, <3>1 DEF Bread, TypeOK, Holds, Has
    <3>2. CASE q = p /\ pc[p] = "idle"
      BY <1>1, <3>2, Facts DEF Bread, TypeOK, Holds, Has, Local
    <3>3. CASE q = p /\ pc[p] = "hold"
      BY <1>1, <3>3, Facts DEF Bread, TypeOK, Holds, Has, Local
    <3> QED BY <1>1, <3>1, <3>2, <3>3 DEF Bread
  <2> QED BY <1>1, <2>1 DEF Bread, Same, Busy
<1>2. CASE BgetWait(p)
  BY <1>2 DEF BgetWait, TypeOK, Same, Busy, Holds, Has
<1>3. CASE BgetPanic(p)
  BY <1>3 DEF BgetPanic, TypeOK, Same, Busy, Holds, Has
<1>4. CASE BreadDone(p)
  BY <1>4 DEF BreadDone, TypeOK, Same, Busy, Holds, Has
<1>5. CASE Kill(p)
  BY <1>5 DEF Kill, TypeOK, Same, Busy, Holds, Has, Resumed, Asleep
<1>6. CASE IdeTest(p)
  BY <1>6 DEF IdeTest, TypeOK, Same, Busy, Holds, Has
<1>7. CASE IdeRw(p)
  BY <1>7 DEF IdeRw, TypeOK, Same, Busy, Holds, Has
<1>8. CASE \E d \in Contents : Bwrite(p, d)
  BY <1>8 DEF Bwrite, TypeOK, Same, Busy, Holds, Has, Local
<1> QED BY <1>1, <1>2, <1>3, <1>4, <1>5, <1>6, <1>7, <1>8

\* and so does the disk.
LEMMA SameDisk ==
  ASSUME TypeOK, QueueExact, DiskWorks \/ IdeIntr
  PROVE  Same
<1>1. CASE DiskWorks
  BY <1>1 DEF DiskWorks, Same, Busy, Holds, Has, bufVars, procVars
<1>2. CASE IdeIntr
  <2>1. Head(idequeue) \in Bufs
    BY <1>2, FirstRequest DEF IdeIntr
  <2>2. \A q \in Procs : Has(q)' <=> Has(q)
    BY <1>2, WokenHas, Facts DEF IdeIntr, Labels
  <2> QED BY <1>2, <2>1, <2>2 DEF IdeIntr, TypeOK, Same, Busy, Holds, procVars
<1> QED BY <1>1, <1>2

\* bget() takes a free buffer.
LEMMA TakenBuffer ==
  ASSUME TypeOK, Local, OneOwner, NEW p \in Procs, BgetHit(p) \/ BgetRecycle(p)
  PROVE  \E b \in Bufs : Taken(p, b) /\ cur'[p] = b
<1>1. CASE BgetHit(p)
  <2>1. PICK b \in Bufs :
          /\ pc[p] = "bget" /\ ~Busy(b)
          /\ flags' = [flags EXCEPT ![b] = @ \cup {"BUSY"}]
          /\ cur' = [cur EXCEPT ![p] = b]
          /\ pc' = [pc EXCEPT ![p] = "bread"] /\ kept' = kept
    BY <1>1 DEF BgetHit, Cached, Goto
  <2>2. \A q \in Procs :
          Holds(q)' = IF q = p THEN Holds(q) \cup {b} ELSE Holds(q)
    BY <2>1 DEF TypeOK, Holds, Has
  <2>3. \A c \in Bufs : Busy(c)' <=> Busy(c) \/ c = b
    BY <2>1 DEF TypeOK, Busy
  <2> QED BY <2>1, <2>2, <2>3 DEF Taken, TypeOK
<1>2. CASE BgetRecycle(p)
  <2>1. PICK b \in Bufs :
          /\ pc[p] = "bget" /\ ~Busy(b)
          /\ flags' = [flags EXCEPT ![b] = {"BUSY"}]
          /\ cur' = [cur EXCEPT ![p] = b]
          /\ pc' = [pc EXCEPT ![p] = "bread"] /\ kept' = kept
    BY <1>2 DEF BgetRecycle, Victim, FreshFlags, Goto
  <2>2. \A q \in Procs :
          Holds(q)' = IF q = p THEN Holds(q) \cup {b} ELSE Holds(q)
    BY <2>1 DEF TypeOK, Holds, Has
  <2>3. \A c \in Bufs : Busy(c)' <=> Busy(c) \/ c = b
    BY <2>1 DEF TypeOK, Busy
  <2> QED BY <2>1, <2>2, <2>3 DEF Taken, TypeOK
<1> QED BY <1>1, <1>2

\* brelse() gives back the buffer the process is at.
LEMMA GivenBuffer ==
  ASSUME TypeOK, Local, NEW p \in Procs, Brelse(p)
  PROVE  Given(p, cur[p])
<1> DEFINE b == cur[p]
<1> DEFINE l == IF kept[p] = NoBuf THEN "idle" ELSE "hold"
<1>1. /\ pc[p] = "hold" /\ b \in Bufs /\ b # kept[p]
      /\ flags' = [flags EXCEPT ![b] = @ \ {"BUSY"}]
      /\ pc' = Woken(b, p, l) /\ l \in Labels
      /\ cur' = [cur EXCEPT ![p] = kept[p]]
      /\ kept' = [kept EXCEPT ![p] = NoBuf]
  BY DEF Brelse, Local, Has, ReleaseWakes, Labels
<1>2. pc'[p] = l
  BY <1>1, WokenType DEF TypeOK, Labels
<1>3. \A q \in Procs : q # p => (Has(q)' <=> Has(q))
  BY <1>1, WokenHas
<1>4. \A q \in Procs : q # p => Holds(q)' = Holds(q)
  BY <1>1, <1>3 DEF Holds, TypeOK
<1>5. b \in Holds(p)
  BY <1>1 DEF Holds, Has
<1>6. Holds(p)' = Holds(p) \ {b}
  <2>1. CASE kept[p] = NoBuf
    BY <1>1, <1>2, <2>1, Facts DEF Holds, Has, TypeOK
  <2>2. CASE kept[p] # NoBuf
    BY <1>1, <1>2, <2>2, Facts DEF Holds, Has, TypeOK
  <2> QED BY <2>1, <2>2
<1>7. \A c \in Bufs : Busy(c)' <=> Busy(c) /\ c # b
  BY <1>1 DEF Busy, TypeOK
<1> QED BY <1>4, <1>5, <1>6, <1>7 DEF Given

\* Every step is one of the three.
LEMMA StepKinds ==
  ASSUME TypeOK, Local, OneOwner, QueueExact, Next
  PROVE  \/ Same
         \/ \E p \in Procs : \E b \in Bufs : Taken(p, b)
         \/ \E p \in Procs : \E b \in Bufs : Given(p, b)
<1>1. CASE DiskWorks \/ IdeIntr
  BY <1>1, SameDisk
<1>2. ASSUME NEW p \in Procs, Kernel(p) \/ Brelse(p) \/ Kill(p)
                \/ (\E s \in Sectors : Bread(p, s))
                \/ (\E d \in Contents : Bwrite(p, d))
      PROVE  \/ Same
             \/ \E q \in Procs : \E b \in Bufs : Taken(q, b)
             \/ \E q \in Procs : \E b \in Bufs : Given(q, b)
  <2>1. CASE BgetHit(p) \/ BgetRecycle(p)
    BY <2>1, TakenBuffer
  <2>2. CASE Brelse(p)
    BY <2>2, GivenBuffer, HoldsIn DEF Given
  <2> QED BY <1>2, <2>1, <2>2, SameCalls DEF Kernel
<1> QED BY <1>1, <1>2 DEF Next

\* A buffer keeps its one owner.
LEMMA OwnerStep ==
  ASSUME TypeOK, Local, OneOwner, QueueExact, Next
  PROVE  OneOwner'
<1>1. CASE Same
  BY <1>1 DEF Same, OneOwner
<1>2. CASE \E p \in Procs : \E b \in Bufs : Taken(p, b)
  <2> PICK p \in Procs, b \in Bufs : Taken(p, b)
    BY <1>2
  <2>1. \A q \in Procs : b \notin Holds(q)
    BY DEF OneOwner, Taken
  <2>2. \A q \in Procs :
          Holds(q)' = IF q = p THEN Holds(q) \cup {b} ELSE Holds(q)
    BY DEF Taken
  <2>3. \A c \in Bufs : Busy(c)' <=> Busy(c) \/ c = b
    BY DEF Taken
  <2> QED BY <2>1, <2>2, <2>3 DEF OneOwner
<1>3. CASE \E p \in Procs : \E b \in Bufs : Given(p, b)
  <2> PICK p \in Procs, b \in Bufs : Given(p, b)
    BY <1>3
  <2>2. \A q \in Procs :
          Holds(q)' = IF q = p THEN Holds(q) \ {b} ELSE Holds(q)
    BY DEF Given
  <2>3. \A c \in Bufs : Busy(c)' <=> Busy(c) /\ c # b
    BY DEF Given
  <2>4. b \in Holds(p)
    BY DEF Given
  <2> QED BY <2>2, <2>3, <2>4 DEF OneOwner
<1> QED BY <1>1, <1>2, <1>3, StepKinds

-----------------------------------------------------------------------------
(* Where a process is.                                                     *)

\* Local, by the steps that take and give nothing.
LEMMA LocalCalls ==
  ASSUME TypeOK, Local, OneOwner, NEW p \in Procs,
         \/ \E s \in Sectors : Bread(p, s)
         \/ BgetWait(p) \/ BgetPanic(p) \/ BreadDone(p) \/ Kill(p)
         \/ IdeTest(p) \/ IdeRw(p) \/ \E d \in Contents : Bwrite(p, d)
  PROVE  Local'
<1> USE DEF bufVars, ideVars, procVars, Goto
<1>1. CASE \E s \in Sectors : Bread(p, s)
  BY <1>1 DEF Bread, TypeOK, Local, Has
<1>2. CASE BgetWait(p)
  BY <1>2 DEF BgetWait, TypeOK, Local, Has, Cached
<1>3. CASE BgetPanic(p)
  BY <1>3 DEF BgetPanic, TypeOK, Local, Has
<1>4. CASE BreadDone(p)
  BY <1>4 DEF BreadDone, TypeOK, Local, Has
<1>5. CASE Kill(p)
  BY <1>5 DEF Kill, TypeOK, Local, Has, Resumed, Asleep
<1>6. CASE IdeTest(p)
  BY <1>6 DEF IdeTest, TypeOK, Local, Has
<1>7. CASE IdeRw(p)
  BY <1>7 DEF IdeRw, TypeOK, Local, Has
<1>8. CASE \E d \in Contents : Bwrite(p, d)
  BY <1>8 DEF Bwrite, TypeOK, Local, Has
<1> QED BY <1>1, <1>2, <1>3, <1>4, <1>5, <1>6, <1>7, <1>8

\* A process that takes a buffer gets one that it does not have.
LEMMA LocalTaken ==
  ASSUME TypeOK, Local, OneOwner, NEW p \in Procs, BgetHit(p) \/ BgetRecycle(p)
  PROVE  Local'
<1>1. PICK b \in Bufs : Taken(p, b) /\ cur'[p] = b
  BY TakenBuffer
<1>2. b # kept[p]
  BY <1>1 DEF Taken, OneOwner, Holds
<1>3. /\ \E c \in Bufs : cur' = [cur EXCEPT ![p] = c]
      /\ pc' = [pc EXCEPT ![p] = "bread"] /\ pc[p] = "bget"
      /\ UNCHANGED <<want, kept>>
  BY DEF BgetHit, BgetRecycle, Goto, Cached
<1> QED BY <1>1, <1>2, <1>3 DEF TypeOK, Local, Has

\* Local, by the steps that wake.
LEMMA LocalWoken ==
  ASSUME TypeOK, Local, NEW p \in Procs, Brelse(p) \/ IdeIntr
  PROVE  Local'
<1>1. CASE Brelse(p)
  <2> DEFINE l == IF kept[p] = NoBuf THEN "idle" ELSE "hold"
  <2>1. /\ pc[p] = "hold" /\ pc' = Woken(cur[p], p, l) /\ l \in Labels
        /\ cur' = [cur EXCEPT ![p] = kept[p]]
        /\ kept' = [kept EXCEPT ![p] = NoBuf] /\ want' = want
    BY <1>1 DEF Brelse, ReleaseWakes, Labels
  <2>2. pc'[p] = l
    BY <2>1, WokenType DEF TypeOK, Labels
  <2>3. \A q \in Procs : q # p =>
          pc'[q] = pc[q] \/ (Asleep(q) /\ pc'[q] = Resumed(pc[q]))
    BY <2>1, WokenType DEF TypeOK, Labels
  <2> QED BY <2>1, <2>2, <2>3, Facts
          DEF TypeOK, Local, Has, Asleep, Resumed
<1>2. CASE IdeIntr
  <2>1. \A q \in Procs :
          pc'[q] = pc[q] \/ (Asleep(q) /\ pc'[q] = Resumed(pc[q]))
    BY <1>2, WokenType, Facts DEF IdeIntr, TypeOK, Labels
  <2> QED BY <1>2, <2>1 DEF IdeIntr, procVars, Local, Has, Asleep, Resumed
<1> QED BY <1>1, <1>2

\* Local, by every step.
LEMMA LocalStep ==
  ASSUME TypeOK, Local, OneOwner, Next
  PROVE  Local'
<1>1. CASE DiskWorks
  BY <1>1 DEF DiskWorks, procVars, Local, Has
<1>2. CASE IdeIntr
  <2>1. CASE Procs = {}
    BY <2>1 DEF Local
  <2>2. CASE Procs # {}
    BY <1>2, <2>2, LocalWoken
  <2> QED BY <2>1, <2>2
<1>3. ASSUME NEW p \in Procs, Kernel(p) \/ Brelse(p) \/ Kill(p)
                \/ (\E s \in Sectors : Bread(p, s))
                \/ (\E d \in Contents : Bwrite(p, d))
      PROVE  Local'
  BY <1>3, LocalCalls, LocalTaken, LocalWoken DEF Kernel
<1> QED BY <1>1, <1>2, <1>3 DEF Next

-----------------------------------------------------------------------------
(* Buffers and their sectors.                                              *)

\* The sector and the data of a buffer in use change only by its owner.
LEMMA SectorStep ==
  ASSUME TypeOK, Next
  PROVE  \/ sector' = sector
         \/ \E p \in Procs, b \in Bufs :
              /\ BgetRecycle(p) /\ ~Busy(b) /\ Missed(want[p])
              /\ sector' = [sector EXCEPT ![b] = want[p]]
              /\ flags' = [flags EXCEPT ![b] = {"BUSY"}]
<1>1. CASE DiskWorks \/ IdeIntr
  BY <1>1 DEF DiskWorks, IdeIntr, bufVars
<1>2. ASSUME NEW p \in Procs, BgetRecycle(p)
      PROVE  \E b \in Bufs :
               /\ ~Busy(b) /\ Missed(want[p])
               /\ sector' = [sector EXCEPT ![b] = want[p]]
               /\ flags' = [flags EXCEPT ![b] = {"BUSY"}]
  BY <1>2 DEF BgetRecycle, Victim, FreshFlags
<1>3. ASSUME NEW p \in Procs,
             BgetHit(p) \/ BgetWait(p) \/ BgetPanic(p) \/ BreadDone(p)
             \/ IdeRw(p) \/ IdeTest(p) \/ Brelse(p) \/ Kill(p)
             \/ (\E s \in Sectors : Bread(p, s))
             \/ (\E d \in Contents : Bwrite(p, d))
      PROVE  sector' = sector
  BY <1>3 DEF BgetHit, BgetWait, BgetPanic, BreadDone, IdeRw, IdeTest, Brelse,
              Kill, Bread, Bwrite, bufVars
<1> QED BY <1>1, <1>2, <1>3 DEF Next, Kernel

\* A sector is put in a buffer only if it is in none.
LEMMA SectorsStep ==
  ASSUME TypeOK, Local, OneBufferPerSector, Next
  PROVE  OneBufferPerSector'
<1>1. CASE sector' = sector
  BY <1>1 DEF OneBufferPerSector
<1>2. ASSUME NEW p \in Procs, NEW b \in Bufs, Missed(want[p]),
             sector' = [sector EXCEPT ![b] = want[p]]
      PROVE  OneBufferPerSector'
  BY <1>2 DEF OneBufferPerSector, Missed, Cached, TypeOK
<1> QED BY <1>1, <1>2, SectorStep

\* FlagInv, by the processes.
LEMMA FlagCalls ==
  ASSUME TypeOK, Local, FlagInv, DoneInv, OneOwner, NEW p \in Procs,
         \/ \E s \in Sectors : Bread(p, s)
         \/ Kernel(p) \/ Kill(p) \/ Brelse(p)
         \/ \E d \in Contents : Bwrite(p, d)
  PROVE  FlagInv'
<1> USE DEF bufVars
<1>1. CASE \/ \E s \in Sectors : Bread(p, s)
           \/ BgetWait(p) \/ BgetPanic(p) \/ BreadDone(p)
           \/ IdeRw(p) \/ IdeTest(p) \/ Kill(p)
  BY <1>1 DEF Bread, BgetWait, BgetPanic, BreadDone, IdeRw, IdeTest, Kill,
              FlagInv, Busy
<1>2. CASE BgetHit(p)
  <2>1. want[p] \in Sectors
    BY <1>2 DEF BgetHit, Local
  <2> QED BY <1>2, <2>1 DEF BgetHit, Cached, FlagInv, Busy, TypeOK
<1>3. CASE BgetRecycle(p)
  <2>1. want[p] \in Sectors
    BY <1>3 DEF BgetRecycle, Local
  <2> QED BY <1>3, <2>1 DEF BgetRecycle, FreshFlags, FlagInv, Busy, TypeOK
<1>4. CASE Brelse(p)
  <2>1. cur[p] \in Bufs /\ "DIRTY" \notin flags[cur[p]]
    BY <1>4 DEF Brelse, Local, Has, DoneInv, IsDone
  <2> QED BY <1>4, <2>1 DEF Brelse, FlagInv, Busy, TypeOK
<1>5. CASE \E d \in Contents : Bwrite(p, d)
  <2>1. cur[p] \in Bufs /\ Busy(cur[p])
    BY <1>5 DEF Bwrite, Local, Has, OneOwner, Holds
  <2> QED BY <1>5, <2>1 DEF Bwrite, FlagInv, Busy, TypeOK
<1> QED BY <1>1, <1>2, <1>3, <1>4, <1>5 DEF Kernel

\* FlagInv, by the disk.
LEMMA FlagDisk ==
  ASSUME TypeOK, FlagInv, OneOwner, QueueExact, DiskWorks \/ IdeIntr
  PROVE  FlagInv'
<1>1. CASE DiskWorks
  BY <1>1 DEF DiskWorks, bufVars, FlagInv, Busy
<1>2. CASE IdeIntr
  <2> DEFINE b == Head(idequeue)
  <2>1. b \in Bufs /\ sector[b] \in Sectors
    BY <1>2, FirstRequest, FirstInUse DEF IdeIntr
  <2>2. /\ flags' = [flags EXCEPT ![b] = (@ \cup {"VALID"}) \ {"DIRTY"}]
        /\ sector' = sector
        /\ \A c \in Bufs : c # b => data'[c] = data[c]
    BY <1>2 DEF IdeIntr, TypeOK
  <2> HIDE DEF b
  <2> QED BY <2>1, <2>2 DEF FlagInv, Busy, TypeOK
<1> QED BY <1>1, <1>2

\* FlagInv, by every step.
LEMMA FlagStep ==
  ASSUME TypeOK, Local, OneOwner, FlagInv, DoneInv, QueueExact, Next
  PROVE  FlagInv'
BY FlagCalls, FlagDisk DEF Next

-----------------------------------------------------------------------------
(* What a process is doing, and the flags of its buffers.                  *)

\* The buffers of processes are in use and are all different.
LEMMA Distinct ==
  ASSUME TypeOK, Local, OneOwner
  PROVE  /\ \A p \in Procs : Has(p) => cur[p] \in Bufs /\ Busy(cur[p])
         /\ \A p \in Procs :
              kept[p] # NoBuf => kept[p] \in Bufs /\ Busy(kept[p])
         /\ \A p, q \in Procs : Has(p) /\ Has(q) /\ cur[p] = cur[q] => p = q
         /\ \A p, q \in Procs : Has(p) /\ kept[q] # NoBuf => cur[p] # kept[q]
<1>1. \A p \in Procs : Has(p) => cur[p] \in Holds(p)
  BY DEF Local, Holds
<1>2. \A p \in Procs : kept[p] # NoBuf => kept[p] \in Holds(p)
  BY DEF TypeOK, Holds
<1>3. \A p, q \in Procs : \A b : b \in Holds(p) /\ b \in Holds(q) => p = q
  BY DEF OneOwner
<1>4. \A p \in Procs : \A b \in Holds(p) : b \in Bufs /\ Busy(b)
  BY HoldsIn DEF OneOwner
<1> QED BY <1>1, <1>2, <1>3, <1>4 DEF Local

\* DoneInv, by the steps that leave the flags alone.
LEMMA DoneCalls ==
  ASSUME TypeOK, Local, OneOwner, FlagInv, DoneInv, NEW p \in Procs,
         \/ \E s \in Sectors : Bread(p, s)
         \/ BgetWait(p) \/ BgetPanic(p) \/ BreadDone(p) \/ Kill(p)
         \/ IdeTest(p) \/ IdeRw(p)
  PROVE  DoneInv'
<1> USE DEF bufVars, ideVars, procVars, Goto
<1>1. CASE \E s \in Sectors : Bread(p, s)
  BY <1>1 DEF Bread, TypeOK, Local, DoneInv, IsDone
<1>2. CASE BgetWait(p)
  BY <1>2 DEF BgetWait, TypeOK, DoneInv, IsDone
<1>3. CASE BgetPanic(p)
  BY <1>3 DEF BgetPanic, TypeOK, DoneInv, IsDone
<1>4. CASE BreadDone(p)
  BY <1>4 DEF BreadDone, TypeOK, DoneInv, IsDone
<1>5. CASE Kill(p)
  BY <1>5 DEF Kill, TypeOK, DoneInv, IsDone, Resumed
<1>6. CASE IdeTest(p)
  BY <1>6 DEF IdeTest, TypeOK, DoneInv, IsDone
<1>7. CASE IdeRw(p)
  BY <1>7 DEF IdeRw, TypeOK, DoneInv, IsDone
<1> QED BY <1>1, <1>2, <1>3, <1>4, <1>5, <1>6, <1>7

\* DoneInv, by the steps that change them.
LEMMA DoneBuffers ==
  ASSUME TypeOK, Local, OneOwner, FlagInv, DoneInv, NEW p \in Procs,
         \/ BgetHit(p) \/ BgetRecycle(p) \/ Brelse(p)
         \/ \E d \in Contents : Bwrite(p, d)
  PROVE  DoneInv'
<1>1. CASE BgetHit(p)
  <2>1. PICK b \in Bufs :
          /\ flags' = [flags EXCEPT ![b] = @ \cup {"BUSY"}] /\ ~Busy(b)
          /\ cur' = [cur EXCEPT ![p] = b] /\ kept' = kept
          /\ pc' = [pc EXCEPT ![p] = "bread"]
    BY <1>1 DEF BgetHit, Cached, Goto
  <2>2. \A c \in Bufs : IsDone(c)' <=> IsDone(c)
    BY <2>1 DEF IsDone, TypeOK
  <2>3. "DIRTY" \notin flags'[b]
    BY <2>1 DEF FlagInv, TypeOK
  <2>4. \A q \in Procs : q # p /\ pc[q] = "bread" =>
          ("DIRTY" \in flags'[cur[q]] <=> "DIRTY" \in flags[cur[q]])
    BY <2>1, Distinct DEF TypeOK, Has
  <2> QED BY <2>1, <2>2, <2>3, <2>4, Distinct DEF DoneInv, Has, TypeOK
<1>2. CASE BgetRecycle(p)
  <2>1. PICK b \in Bufs :
          /\ flags' = [flags EXCEPT ![b] = {"BUSY"}] /\ ~Busy(b)
          /\ cur' = [cur EXCEPT ![p] = b] /\ kept' = kept
          /\ pc' = [pc EXCEPT ![p] = "bread"]
    BY <1>2 DEF BgetRecycle, Victim, FreshFlags, Goto
  <2>2. \A c \in Bufs : c # b => flags'[c] = flags[c]
    BY <2>1 DEF TypeOK
  <2> QED BY <2>1, <2>2, Distinct DEF DoneInv, Has, TypeOK, IsDone
<1>3. CASE Brelse(p)
  <2> DEFINE l == IF kept[p] = NoBuf THEN "idle" ELSE "hold"
  <2>1. /\ pc' = Woken(cur[p], p, l) /\ l \in Labels
        /\ cur' = [cur EXCEPT ![p] = kept[p]]
        /\ kept' = [kept EXCEPT ![p] = NoBuf]
        /\ flags' = [flags EXCEPT ![cur[p]] = @ \ {"BUSY"}]
    BY <1>3 DEF Brelse, ReleaseWakes, Labels
  <2>2. pc'[p] = l
    BY <2>1, WokenType DEF TypeOK, Labels
  <2>3. \A q \in Procs : q # p =>
          pc'[q] = pc[q] \/ (Asleep(q) /\ pc'[q] = Resumed(pc[q]))
    BY <2>1, WokenType DEF TypeOK, Labels
  <2>4. \A c \in Bufs :
          /\ "VALID" \in flags'[c] <=> "VALID" \in flags[c]
          /\ "DIRTY" \in flags'[c] <=> "DIRTY" \in flags[c]
    BY <2>1 DEF TypeOK
  <2>5. /\ pc'[p] = "hold" => kept[p] \in Bufs /\ cur'[p] = kept[p]
        /\ kept'[p] = NoBuf /\ pc'[p] \in {"idle", "hold"}
    BY <2>1, <2>2 DEF TypeOK
  <2>6. \A q \in Procs : q # p =>
          /\ cur'[q] = cur[q] /\ kept'[q] = kept[q]
          /\ pc'[q] = pc[q] \/ pc'[q] \in {"bget", "idetest"}
    BY <2>1, <2>3 DEF TypeOK, Resumed
  <2> SUFFICES ASSUME NEW q \in Procs
               PROVE  /\ pc'[q] = "hold" => IsDone(cur[q])'
                      /\ kept'[q] # NoBuf => IsDone(kept[q])'
                      /\ pc'[q] = "iderw" => ~IsDone(cur[q])'
                      /\ pc'[q] = "bread" => "DIRTY" \notin flags'[cur'[q]]
    BY DEF DoneInv
  <2>7. CASE q = p
    BY <2>4, <2>5, <2>7, Facts DEF DoneInv, IsDone
  <2>8. CASE q # p
    BY <2>4, <2>6, <2>8, Distinct DEF DoneInv, Has, IsDone
  <2> QED BY <2>7, <2>8
<1>4. CASE \E d \in Contents : Bwrite(p, d)
  <2>1. /\ flags' = [flags EXCEPT ![cur[p]] = @ \cup {"DIRTY"}]
        /\ pc' = [pc EXCEPT ![p] = "iderw"] /\ cur' = cur /\ kept' = kept
        /\ pc[p] = "hold"
    BY <1>4 DEF Bwrite, Goto, procVars
  <2>2. \A c \in Bufs : c # cur[p] => flags'[c] = flags[c]
    BY <2>1 DEF TypeOK
  <2>3. cur[p] \in Bufs /\ "DIRTY" \in flags'[cur[p]]
    BY <2>1, Distinct DEF TypeOK, Has
  <2> QED BY <2>1, <2>2, <2>3, Distinct DEF DoneInv, Has, IsDone, TypeOK
<1> QED BY <1>1, <1>2, <1>3, <1>4

\* DoneInv, by the disk: the process that waits is not at iderw().
LEMMA DoneDisk ==
  ASSUME TypeOK, Local, OneOwner, FlagInv, DoneInv, QueueExact,
         DiskWorks \/ IdeIntr
  PROVE  DoneInv'
<1>1. CASE DiskWorks
  BY <1>1 DEF DiskWorks, bufVars, procVars, DoneInv, IsDone
<1>2. CASE IdeIntr
  <2>1. PICK b \in Bufs :
          /\ b = Head(idequeue)
          /\ \E q \in Procs : pc[q] \in {"idewait", "idetest"} /\ cur[q] = b
    BY <1>2, FirstRequest, FirstInUse DEF IdeIntr
  <2>2. /\ flags' = [flags EXCEPT ![b] = (@ \cup {"VALID"}) \ {"DIRTY"}]
        /\ cur' = cur /\ kept' = kept
    BY <1>2, <2>1 DEF IdeIntr, procVars
  <2>3. \A q \in Procs : pc'[q] = pc[q] \/ pc'[q] \in {"bget", "idetest"}
    BY <1>2, WokenType, Facts DEF IdeIntr, TypeOK, Labels, Resumed
  <2>4. \A c \in Bufs : c # b => flags'[c] = flags[c]
    BY <2>2 DEF TypeOK
  <2>5. "VALID" \in flags'[b] /\ "DIRTY" \notin flags'[b]
    BY <2>2 DEF TypeOK
  <2>6. \A q \in Procs : pc[q] = "iderw" => cur[q] # b
    BY <2>1, Distinct DEF Has
  <2>7. \A q \in Procs : pc[q] = "bread" => cur[q] # b
    BY <2>1, Distinct DEF Has
  <2> SUFFICES ASSUME NEW q \in Procs
               PROVE  /\ pc'[q] = "hold" => IsDone(cur[q])'
                      /\ kept'[q] # NoBuf => IsDone(kept[q])'
                      /\ pc'[q] = "iderw" => ~IsDone(cur[q])'
                      /\ pc'[q] = "bread" => "DIRTY" \notin flags'[cur'[q]]
    BY DEF DoneInv
  <2>8. /\ Has(q) => cur[q] \in Bufs
        /\ kept[q] # NoBuf => kept[q] \in Bufs
    BY Distinct
  <2> QED BY <2>2, <2>3, <2>4, <2>5, <2>6, <2>7, <2>8 DEF DoneInv, Has, IsDone
<1> QED BY <1>1, <1>2

\* DoneInv, by every step.
LEMMA DoneStep ==
  ASSUME TypeOK, Local, OneOwner, FlagInv, DoneInv, QueueExact, Next
  PROVE  DoneInv'
BY DoneCalls, DoneBuffers, DoneDisk DEF Next, Kernel

-----------------------------------------------------------------------------
(* Waiting for a buffer.                                                   *)

\* A buffer released wakes those that wait for it.
LEMMA WaitStep ==
  ASSUME TypeOK, Local, OneOwner, QueueExact, NoLostBuffer, Next
  PROVE  NoLostBuffer'
<1>1. CASE \E p \in Procs : Brelse(p)
  <2> PICK p \in Procs : Brelse(p)
    BY <1>1
  <2> DEFINE l == IF kept[p] = NoBuf THEN "idle" ELSE "hold"
  <2>1. /\ pc' = Woken(cur[p], p, l) /\ l \in Labels
        /\ cur' = [cur EXCEPT ![p] = kept[p]]
        /\ flags' = [flags EXCEPT ![cur[p]] = @ \ {"BUSY"}]
    BY DEF Brelse, ReleaseWakes, Labels
  <2> SUFFICES ASSUME NEW q \in Procs, pc'[q] = "bgetwait"
               PROVE  "BUSY" \in flags'[cur'[q]]
    BY DEF NoLostBuffer, Busy
  <2>2. q # p
    BY <2>1, WokenType DEF TypeOK, Labels
  <2>3. pc[q] = "bgetwait" /\ cur[q] # cur[p]
    BY <2>1, <2>2, WokenType DEF TypeOK, Labels, Asleep, Resumed
  <2>4. cur[q] \in Bufs /\ Busy(cur[q]) /\ cur'[q] = cur[q]
    BY <2>1, <2>2, <2>3 DEF NoLostBuffer, Local, TypeOK
  <2> QED BY <2>1, <2>3, <2>4 DEF Busy, TypeOK
<1>2. CASE ~\E p \in Procs : Brelse(p)
  <2>1. \A b \in Bufs : Busy(b) => Busy(b)'
    <3>1. ASSUME NEW p \in Procs, BgetHit(p) \/ BgetRecycle(p)
          PROVE  \A b \in Bufs : Busy(b) => Busy(b)'
      BY <3>1, TakenBuffer DEF Taken
    <3>2. ASSUME Same
          PROVE  \A b \in Bufs : Busy(b) => Busy(b)'
      BY <3>2 DEF Same
    <3> QED BY <1>2, <3>1, <3>2, SameCalls, SameDisk DEF Next, Kernel
  <2>2. \A q \in Procs : pc'[q] = "bgetwait" =>
          \/ pc[q] = "bgetwait" /\ cur'[q] = cur[q]
          \/ BgetWait(q)
    <3> SUFFICES ASSUME NEW q \in Procs, pc'[q] = "bgetwait"
                 PROVE  \/ pc[q] = "bgetwait" /\ cur'[q] = cur[q]
                        \/ BgetWait(q)
      OBVIOUS
    <3>1. CASE DiskWorks
      BY <3>1 DEF DiskWorks, procVars
    <3>2. CASE IdeIntr
      <4>1. pc'[q] = pc[q] \/ pc'[q] = Resumed(pc[q])
        BY <3>2, WokenType, Facts DEF IdeIntr, TypeOK, Labels
      <4> QED BY <3>2, <4>1 DEF IdeIntr, procVars, Resumed
    <3>3. ASSUME NEW p \in Procs,
                 \/ BgetHit(p) \/ BgetWait(p) \/ BgetRecycle(p)
                 \/ BgetPanic(p) \/ BreadDone(p) \/ IdeRw(p) \/ IdeTest(p)
                 \/ Kill(p) \/ (\E s \in Sectors : Bread(p, s))
                 \/ (\E d \in Contents : Bwrite(p, d))
          PROVE  \/ pc[q] = "bgetwait" /\ cur'[q] = cur[q]
                 \/ BgetWait(q)
      <4> USE DEF Goto, procVars, TypeOK
      <4>1. CASE \/ BgetHit(p) \/ BgetWait(p) \/ BgetRecycle(p)
                 \/ BgetPanic(p)
        BY <4>1 DEF BgetHit, BgetWait, BgetRecycle, BgetPanic
      <4>2. CASE \/ BreadDone(p) \/ IdeRw(p) \/ IdeTest(p) \/ Kill(p)
        BY <4>2 DEF BreadDone, IdeRw, IdeTest, Kill, Resumed
      <4>3. CASE \/ (\E s \in Sectors : Bread(p, s))
                 \/ (\E d \in Contents : Bwrite(p, d))
        BY <4>3 DEF Bread, Bwrite
      <4> QED BY <3>3, <4>1, <4>2, <4>3
    <3> QED BY <1>2, <3>1, <3>2, <3>3 DEF Next, Kernel
  <2>3. \A q \in Procs : BgetWait(q) =>
          cur'[q] \in Bufs /\ "BUSY" \in flags'[cur'[q]]
    BY DEF BgetWait, Cached, TypeOK, Busy, bufVars
  <2>4. \A q \in Procs : pc'[q] = "bgetwait" => "BUSY" \in flags'[cur'[q]]
    BY <2>1, <2>2, <2>3 DEF NoLostBuffer, Local, Busy
  <2> QED BY <2>4 DEF NoLostBuffer, Busy
<1> QED BY <1>1, <1>2
-----------------------------------------------------------------------------
(* The queue of the disk.                                                  *)

\* b is in the queue; somebody waits for the disk to do b.
InQueue(b) == \E i \in 1..Len(idequeue) : idequeue[i] = b
Awaited(b) ==
  \E p \in Procs :
    pc[p] \in {"idewait", "idetest"} /\ cur[p] = b /\ ~IsDone(b)
NoRepeats ==
  \A i, j \in 1..Len(idequeue) : idequeue[i] = idequeue[j] => i = j

\* QueueExact in these words,
LEMMA QueueParts ==
  QueueExact <=> /\ NoRepeats
                 /\ \A x \in Bufs : InQueue(x) <=> Awaited(x)
                 /\ device = "ready" <=> idequeue = <<>>
BY DEF QueueExact, NoRepeats, InQueue, Awaited

\* and after a step.
LEMMA QueuePartsNext ==
  QueueExact' <=> /\ NoRepeats'
                  /\ \A x \in Bufs : InQueue(x)' <=> Awaited(x)'
                  /\ device' = "ready" <=> idequeue' = <<>>
BY DEF QueueExact, NoRepeats, InQueue, Awaited

\* A step that leaves the queue alone, and with it who waits.
LEMMA QueueStays ==
  ASSUME QueueExact, idequeue' = idequeue,
         device' = "ready" <=> device = "ready",
         \A b \in Bufs : Awaited(b)' <=> Awaited(b)
  PROVE  QueueExact'
<1>1. NoRepeats' /\ \A b \in Bufs : InQueue(b)' <=> InQueue(b)
  BY QueueParts DEF NoRepeats, InQueue
<1> QED BY <1>1, QueueParts, QueuePartsNext

\* These leave alone who waits for the disk,
LEMMA AwaitedCalls ==
  ASSUME TypeOK, Local, OneOwner, DoneInv, NEW p \in Procs,
         \/ \E s \in Sectors : Bread(p, s)
         \/ BgetWait(p) \/ BgetPanic(p) \/ BreadDone(p) \/ Kill(p)
         \/ IdeTest(p)
  PROVE  \A b \in Bufs : Awaited(b)' <=> Awaited(b)
<1> USE DEF bufVars, ideVars, procVars, Goto
<1>1. CASE \E s \in Sectors : Bread(p, s)
  BY <1>1 DEF Bread, TypeOK, Awaited, IsDone
<1>2. CASE BgetWait(p)
  BY <1>2 DEF BgetWait, TypeOK, Awaited, IsDone
<1>3. CASE BgetPanic(p)
  BY <1>3 DEF BgetPanic, TypeOK, Awaited, IsDone
<1>4. CASE BreadDone(p)
  BY <1>4 DEF BreadDone, TypeOK, Awaited, IsDone
<1>5. CASE Kill(p)
  BY <1>5 DEF Kill, Resumed, Asleep, TypeOK, Awaited, IsDone
<1>6. CASE IdeTest(p)
  BY <1>6 DEF IdeTest, TypeOK, Awaited, IsDone
<1> QED BY <1>1, <1>2, <1>3, <1>4, <1>5, <1>6

\* and so do these, for they work on a buffer not in the queue.
LEMMA AwaitedBuffers ==
  ASSUME TypeOK, Local, OneOwner, DoneInv, NEW p \in Procs,
         \/ BgetHit(p) \/ BgetRecycle(p) \/ Brelse(p)
         \/ \E d \in Contents : Bwrite(p, d)
  PROVE  \A b \in Bufs : Awaited(b)' <=> Awaited(b)
<1>1. CASE BgetHit(p)
  <2>1. PICK c \in Bufs :
          /\ flags' = [flags EXCEPT ![c] = @ \cup {"BUSY"}]
          /\ cur' = [cur EXCEPT ![p] = c] /\ pc[p] = "bget"
          /\ pc' = [pc EXCEPT ![p] = "bread"]
    BY <1>1 DEF BgetHit, Cached, Goto
  <2>2. \A b \in Bufs : IsDone(b)' <=> IsDone(b)
    BY <2>1 DEF IsDone, TypeOK
  <2> QED BY <2>1, <2>2 DEF Awaited, TypeOK
<1>2. CASE BgetRecycle(p)
  <2>1. PICK c \in Bufs :
          /\ flags' = [flags EXCEPT ![c] = {"BUSY"}] /\ ~Busy(c)
          /\ cur' = [cur EXCEPT ![p] = c] /\ pc[p] = "bget"
          /\ pc' = [pc EXCEPT ![p] = "bread"]
    BY <1>2 DEF BgetRecycle, Victim, FreshFlags, Goto
  <2>2. \A b \in Bufs : b # c => (IsDone(b)' <=> IsDone(b))
    BY <2>1 DEF IsDone, TypeOK
  <2>3. \A q \in Procs : pc[q] \in {"idewait", "idetest"} => cur[q] # c
    BY <2>1, Distinct DEF Has
  <2> QED BY <2>1, <2>2, <2>3 DEF Awaited, TypeOK
<1>3. CASE Brelse(p)
  <2> DEFINE l == IF kept[p] = NoBuf THEN "idle" ELSE "hold"
  <2>1. /\ pc' = Woken(cur[p], p, l) /\ l \in Labels /\ pc[p] = "hold"
        /\ cur' = [cur EXCEPT ![p] = kept[p]]
        /\ flags' = [flags EXCEPT ![cur[p]] = @ \ {"BUSY"}]
    BY <1>3 DEF Brelse, ReleaseWakes, Labels
  <2>2. pc'[p] = l
    BY <2>1, WokenType DEF TypeOK, Labels
  <2>3. \A q \in Procs : q # p =>
          pc'[q] = pc[q] \/ (Asleep(q) /\ pc'[q] = Resumed(pc[q]))
    BY <2>1, WokenType DEF TypeOK, Labels
  <2>4. \A q \in Procs :
          /\ pc'[q] \in {"idewait", "idetest"}
               <=> pc[q] \in {"idewait", "idetest"}
          /\ pc[q] \in {"idewait", "idetest"} => cur'[q] = cur[q]
    BY <2>1, <2>2, <2>3 DEF Asleep, Resumed, TypeOK
  <2>5. \A b \in Bufs : IsDone(b)' <=> IsDone(b)
    BY <2>1 DEF IsDone, TypeOK
  <2> QED BY <2>4, <2>5 DEF Awaited
<1>4. CASE \E d \in Contents : Bwrite(p, d)
  <2>1. /\ flags' = [flags EXCEPT ![cur[p]] = @ \cup {"DIRTY"}]
        /\ pc' = [pc EXCEPT ![p] = "iderw"] /\ cur' = cur /\ pc[p] = "hold"
    BY <1>4 DEF Bwrite, Goto, procVars
  <2>2. \A b \in Bufs : b # cur[p] => (IsDone(b)' <=> IsDone(b))
    BY <2>1 DEF IsDone, TypeOK
  <2>3. \A q \in Procs : pc[q] \in {"idewait", "idetest"} => cur[q] # cur[p]
    BY <2>1, Distinct DEF Has
  <2> QED BY <2>1, <2>2, <2>3 DEF Awaited, TypeOK
<1> QED BY <1>1, <1>2, <1>3, <1>4

\* iderw() appends a buffer that nobody else has, so it is not in the queue.
LEMMA QueueAppend ==
  ASSUME TypeOK, Local, OneOwner, DoneInv, QueueExact, NEW p \in Procs,
         IdeRw(p)
  PROVE  QueueExact'
<1>1. PICK b \in Bufs :
        /\ b = cur[p] /\ idequeue' = Append(idequeue, b) /\ pc[p] = "iderw"
        /\ pc' = [pc EXCEPT ![p] = "idewait"]
        /\ flags' = flags /\ cur' = cur
        /\ device' = IF Starts(idequeue') THEN "busy" ELSE device
  BY Distinct DEF IdeRw, Has, Goto, bufVars, procVars
<1>2. ~IsDone(b)
  BY <1>1 DEF DoneInv
<1>3. \A c \in Bufs : c # b => (Awaited(c)' <=> Awaited(c))
  BY <1>1 DEF Awaited, IsDone, TypeOK
<1>4. Awaited(b)' /\ ~Awaited(b)
  <2>1. \A q \in Procs : pc[q] \in {"idewait", "idetest"} => cur[q] # b
    BY <1>1, Distinct DEF Has
  <2>2. p \in Procs /\ pc'[p] = "idewait" /\ cur'[p] = b
    BY <1>1 DEF TypeOK
  <2> QED BY <1>1, <1>2, <2>1, <2>2 DEF Awaited, IsDone
<1>5. PICK n \in Nat : n = Len(idequeue)
  BY DEF TypeOK
<1>6. /\ Len(idequeue') = n + 1 /\ idequeue'[n + 1] = b
      /\ \A i \in 1..n : idequeue'[i] = idequeue[i]
  BY <1>1, <1>5, AppendProperties DEF TypeOK
<1>7. \A c \in Bufs : InQueue(c)' <=> InQueue(c) \/ c = b
  BY <1>5, <1>6 DEF InQueue
<1>8. \A i \in 1..n : idequeue[i] # b
  BY <1>4, <1>5, QueueParts DEF InQueue
<1>9. NoRepeats'
  <2> SUFFICES ASSUME NEW i \in 1..(n + 1), NEW j \in 1..(n + 1),
                      idequeue'[i] = idequeue'[j]
               PROVE  i = j
    BY <1>6 DEF NoRepeats
  <2> QED BY <1>5, <1>6, <1>8, QueueParts DEF NoRepeats
<1>10. idequeue' # <<>> /\ device' # "ready"
  <2>1. idequeue' # <<>>
    BY <1>6, <1>5
  <2>2. idequeue = <<>> => Starts(idequeue')
    BY <1>6, <1>5 DEF Starts
  <2> QED BY <1>1, <2>1, <2>2 DEF QueueExact
<1>11. \A c \in Bufs : InQueue(c)' <=> Awaited(c)'
  BY <1>3, <1>4, <1>7, QueueParts
<1> QED BY <1>9, <1>10, <1>11, QueuePartsNext

\* ideintr() takes the first request, which nobody awaits any more.
LEMMA QueueTail ==
  ASSUME TypeOK, Local, OneOwner, FlagInv, QueueExact, IdeIntr
  PROVE  QueueExact'
<1>1. PICK b \in Bufs : b = Head(idequeue)
  BY FirstRequest DEF IdeIntr
<1>2. /\ idequeue # <<>> /\ idequeue' = Tail(idequeue)
      /\ flags' = [flags EXCEPT ![b] = (@ \cup {"VALID"}) \ {"DIRTY"}]
      /\ pc' = Woken(b, Nobody, "idle") /\ cur' = cur
      /\ device' = IF idequeue' = <<>> THEN "ready" ELSE "busy"
  BY <1>1, FirstRequest DEF IdeIntr, NextRequest, procVars
<1>3. \A q \in Procs : pc'[q] \in {"idewait", "idetest"}
                         <=> pc[q] \in {"idewait", "idetest"}
  BY <1>2, WokenType, Facts DEF TypeOK, Labels, Asleep, Resumed
<1>4. ~Awaited(b)'
  BY <1>2 DEF Awaited, IsDone, TypeOK
<1>5. \A c \in Bufs : c # b => (Awaited(c)' <=> Awaited(c))
  BY <1>2, <1>3 DEF Awaited, IsDone, TypeOK
<1>6. PICK n \in Nat : n + 1 = Len(idequeue)
  <2>1. Len(idequeue) \in Nat \ {0}
    BY <1>2, EmptySeq DEF TypeOK
  <2> QED BY <2>1
<1>7. /\ Len(idequeue') = n /\ idequeue[1] = b
      /\ \A i \in 1..n : idequeue'[i] = idequeue[i + 1]
  BY <1>1, <1>2, <1>6, HeadTailProperties DEF TypeOK
<1>8. NoRepeats'
  BY <1>6, <1>7, QueueParts DEF NoRepeats
<1>9. \A c \in Bufs : InQueue(c)' <=> InQueue(c) /\ c # b
  <2> SUFFICES ASSUME NEW c \in Bufs
               PROVE  InQueue(c)' <=> InQueue(c) /\ c # b
    OBVIOUS
  <2>1. InQueue(c)' => InQueue(c) /\ c # b
    BY <1>6, <1>7, QueueParts DEF InQueue, NoRepeats
  <2>2. ASSUME NEW i \in 1..(n + 1), idequeue[i] = c, c # b
        PROVE  InQueue(c)'
    <3>1. i - 1 \in 1..n /\ idequeue'[i - 1] = c
      BY <1>7, <2>2
    <3> QED BY <1>7, <3>1 DEF InQueue
  <2> QED BY <1>6, <2>1, <2>2 DEF InQueue
<1>10. \A c \in Bufs : InQueue(c)' <=> Awaited(c)'
  BY <1>4, <1>5, <1>9, QueueParts
<1> QED BY <1>2, <1>8, <1>10, QueuePartsNext

\* QueueExact, by every step.
LEMMA QueueStep ==
  ASSUME TypeOK, Local, OneOwner, FlagInv, DoneInv, QueueExact, Next
  PROVE  QueueExact'
<1>1. CASE DiskWorks
  <2>1. \A b \in Bufs : Awaited(b)' <=> Awaited(b)
    BY <1>1 DEF DiskWorks, bufVars, procVars, Awaited, IsDone
  <2>2. idequeue' = idequeue /\ (device' = "ready" <=> device = "ready")
    BY <1>1 DEF DiskWorks
  <2> QED BY <2>1, <2>2, QueueStays
<1>2. CASE IdeIntr
  BY <1>2, QueueTail
<1>3. ASSUME NEW p \in Procs, Kernel(p) \/ Brelse(p) \/ Kill(p)
                \/ (\E s \in Sectors : Bread(p, s))
                \/ (\E d \in Contents : Bwrite(p, d))
      PROVE  QueueExact'
  <2>1. CASE IdeRw(p)
    BY <2>1, QueueAppend
  <2>2. CASE \/ BgetHit(p) \/ BgetWait(p) \/ BgetRecycle(p) \/ BgetPanic(p)
             \/ BreadDone(p) \/ IdeTest(p) \/ Brelse(p) \/ Kill(p)
             \/ (\E s \in Sectors : Bread(p, s))
             \/ (\E d \in Contents : Bwrite(p, d))
    <3>1. idequeue' = idequeue /\ device' = device
      BY <2>2 DEF BgetHit, BgetWait, BgetRecycle, BgetPanic, BreadDone,
                  IdeTest, Brelse, Kill, Bread, Bwrite, ideVars
    <3>2. \A b \in Bufs : Awaited(b)' <=> Awaited(b)
      BY <2>2, AwaitedCalls, AwaitedBuffers
    <3> QED BY <3>1, <3>2, QueueStays
  <2> QED BY <1>3, <2>1, <2>2 DEF Kernel
<1> QED BY <1>1, <1>2, <1>3 DEF Next
-----------------------------------------------------------------------------
(* Buffers and the disk.                                                   *)

\* DataInv, by the steps that write to no buffer.
LEMMA DataCalls ==
  ASSUME TypeOK, Local, OneOwner, FlagInv, DoneInv, QueueExact, DataInv,
         NEW p \in Procs,
         \/ \E s \in Sectors : Bread(p, s)
         \/ BgetHit(p) \/ BgetWait(p) \/ BgetPanic(p) \/ BreadDone(p)
         \/ Kill(p) \/ IdeTest(p) \/ Brelse(p)
  PROVE  DataInv'
<1>1. /\ UNCHANGED <<sector, data, disk, bad>>
      /\ UNCHANGED <<idequeue, device, failed>>
  BY DEF Bread, BgetHit, BgetWait, BgetPanic, BreadDone, Kill, IdeTest,
         Brelse, bufVars, ideVars
<1>2. \A b \in Bufs : /\ "VALID" \in flags'[b] <=> "VALID" \in flags[b]
                      /\ "DIRTY" \in flags'[b] <=> "DIRTY" \in flags[b]
  <2>1. CASE flags' = flags
    BY <2>1
  <2>2. CASE BgetHit(p)
    BY <2>2 DEF BgetHit, Cached, TypeOK
  <2>3. CASE Brelse(p)
    BY <2>3, Distinct DEF Brelse, Has, TypeOK
  <2> QED BY <2>1, <2>2, <2>3
          DEF Bread, BgetWait, BgetPanic, BreadDone, Kill, IdeTest, bufVars
<1>3. device = "done" => Head(idequeue) \in Bufs
  BY FirstRequest
<1> QED BY <1>1, <1>2, <1>3 DEF DataInv, IsDone

\* Neither the buffer recycled nor the one written is the first request.
LEMMA DataBuffers ==
  ASSUME TypeOK, Local, OneOwner, FlagInv, DoneInv, QueueExact, DataInv,
         NEW p \in Procs, BgetRecycle(p) \/ \E d \in Contents : Bwrite(p, d)
  PROVE  DataInv'
<1>1. CASE BgetRecycle(p)
  <2>1. PICK c \in Bufs :
          /\ ~Busy(c) /\ sector' = [sector EXCEPT ![c] = want[p]]
          /\ flags' = [flags EXCEPT ![c] = {"BUSY"}] /\ bad' = bad \ {c}
          /\ UNCHANGED <<data, disk, idequeue, device, failed>>
    BY <1>1 DEF BgetRecycle, Victim, FreshFlags, ideVars
  <2>2. device = "done" => Head(idequeue) \in Bufs /\ Head(idequeue) # c
    BY <2>1, FirstRequest, FirstInUse
  <2>3. \A b \in Bufs : b # c => flags'[b] = flags[b] /\ sector'[b] = sector[b]
    BY <2>1 DEF TypeOK
  <2>4. "VALID" \notin flags'[c]
    BY <2>1 DEF TypeOK
  <2> QED BY <2>1, <2>2, <2>3, <2>4 DEF DataInv, IsDone
<1>2. CASE \E d \in Contents : Bwrite(p, d)
  <2>1. PICK c \in Bufs :
          /\ c = cur[p] /\ pc[p] = "hold"
          /\ \E d \in Contents : data' = [data EXCEPT ![c] = d]
          /\ flags' = [flags EXCEPT ![c] = @ \cup {"DIRTY"}]
          /\ UNCHANGED <<sector, disk, bad, idequeue, device, failed>>
    BY <1>2, Distinct DEF Bwrite, Has, ideVars
  <2>2. device = "done" => Head(idequeue) \in Bufs /\ Head(idequeue) # c
    BY <2>1, FirstRequest, FirstInUse DEF DoneInv
  <2>3. \A b \in Bufs : b # c => flags'[b] = flags[b] /\ data'[b] = data[b]
    BY <2>1 DEF TypeOK
  <2>4. "DIRTY" \in flags'[c]
    BY <2>1 DEF TypeOK
  <2> QED BY <2>1, <2>2, <2>3, <2>4 DEF DataInv, IsDone
<1> QED BY <1>1, <1>2

\* A request behind others does not change the first.
LEMMA DataAppend ==
  ASSUME TypeOK, Local, OneOwner, QueueExact, DataInv, NEW p \in Procs,
         IdeRw(p)
  PROVE  DataInv'
<1>1. /\ UNCHANGED <<sector, flags, data, disk, bad, failed>>
      /\ idequeue' = Append(idequeue, cur[p])
      /\ device' = "done" => device = "done"
  BY DEF IdeRw, bufVars
<1>2. device = "done" => Head(idequeue') = Head(idequeue)
  <2>1. cur[p] \in Bufs
    BY Distinct DEF IdeRw, Has
  <2>2. ASSUME device = "done" PROVE idequeue # <<>>
    BY <2>2, FirstRequest
  <2> QED BY <1>1, <2>1, <2>2, AppendProperties, HeadTailProperties
          DEF TypeOK
<1> QED BY <1>1, <1>2 DEF DataInv, IsDone

\* The disk writes to one sector, and other buffers hold other sectors.
LEMMA DataDisk ==
  ASSUME TypeOK, OneOwner, OneBufferPerSector, FlagInv, QueueExact, DataInv,
         DiskWorks
  PROVE  DataInv'
<1>1. PICK b \in Bufs :
        b = Head(idequeue) /\ sector[b] \in Sectors /\ ~IsDone(b)
  BY FirstRequest, FirstInUse DEF DiskWorks
<1>2. /\ UNCHANGED <<sector, flags, data, bad, idequeue>>
      /\ disk' = IF "DIRTY" \in flags[b] /\ ~failed'
                 THEN [disk EXCEPT ![sector[b]] = data[b]] ELSE disk
  BY <1>1 DEF DiskWorks, bufVars
<1>3. disk \in [Sectors -> Contents]
  BY Facts DEF TypeOK
<1>4. \A c \in Bufs : c # b => disk'[sector[c]] = disk[sector[c]]
  BY <1>1, <1>2, <1>3, Facts DEF OneBufferPerSector, TypeOK
<1>5. ~failed' /\ "DIRTY" \in flags[b] => disk'[sector[b]] = data[b]
  BY <1>1, <1>2, <1>3
<1>6. \A c \in Bufs \ bad' : IsDone(c)' => data'[c] = disk'[sector'[c]]
  BY <1>1, <1>2, <1>4 DEF DataInv, IsDone
<1> QED BY <1>1, <1>2, <1>5, <1>6 DEF DataInv

\* ideintr() reads the sector into the buffer, unless it failed.
LEMMA DataIntr ==
  ASSUME TypeOK, OneOwner, FlagInv, QueueExact, DataInv, IdeIntr
  PROVE  DataInv'
<1>1. PICK b \in Bufs : b = Head(idequeue)
  BY FirstRequest DEF IdeIntr
<1>2. /\ UNCHANGED <<sector, disk>> /\ device = "done" /\ device' # "done"
      /\ flags' = [flags EXCEPT ![b] = (@ \cup {"VALID"}) \ {"DIRTY"}]
      /\ data' = IF "DIRTY" \notin flags[b] /\ ~failed
                 THEN [data EXCEPT ![b] = disk[sector[b]]] ELSE data
      /\ bad' = IF failed THEN bad \cup {b} ELSE bad \ {b}
  BY <1>1 DEF IdeIntr, NextRequest
<1>3. \A c \in Bufs : c # b => flags'[c] = flags[c] /\ data'[c] = data[c]
                               /\ (c \in bad' <=> c \in bad)
  BY <1>2 DEF TypeOK
<1>4. b \notin bad' => data'[b] = disk[sector[b]]
  BY <1>1, <1>2 DEF DataInv, TypeOK
<1>5. \A c \in Bufs \ bad' : IsDone(c)' => data'[c] = disk'[sector'[c]]
  BY <1>2, <1>3, <1>4 DEF DataInv, IsDone
<1> QED BY <1>2, <1>5 DEF DataInv

\* DataInv, by every step.
LEMMA DataStep ==
  ASSUME IInv, Next
  PROVE  DataInv'
BY DataCalls, DataBuffers, DataAppend, DataDisk, DataIntr
   DEF IInv, Next, Kernel

-----------------------------------------------------------------------------
(* The invariant.                                                          *)

\* The invariant at the start,
LEMMA InitHolds == Init => IInv
<1> SUFFICES ASSUME Init PROVE IInv
  OBVIOUS
<1>1. \A p \in Procs : Holds(p) = {}
  BY Facts DEF Init, Holds, Has
<1>2. OneOwner
  BY <1>1 DEF Init, OneOwner, Busy
<1>3. Local /\ FlagInv /\ DoneInv /\ NoLostBuffer /\ OneBufferPerSector
  BY DEF Init, Local, Has, FlagInv, DoneInv, NoLostBuffer, OneBufferPerSector
<1>4. QueueExact
  BY DEF Init, QueueExact
<1>5. DataInv
  BY DEF Init, DataInv, IsDone
<1> QED BY <1>2, <1>3, <1>4, <1>5, TypeInit DEF IInv

\* TypeOK, by every step.
LEMMA TypeStep ==
  ASSUME IInv, Next
  PROVE  TypeOK'
BY TypeCalls, TypeBuffers, TypeDisk DEF IInv, Next, Kernel

\* by every step,
LEMMA NextHolds == IInv /\ [Next]_vars => IInv'
<1>1. ASSUME IInv, Next PROVE IInv'
  <2>1. TypeOK' /\ Local' /\ OneOwner'
    BY <1>1, TypeStep, LocalStep, OwnerStep DEF IInv
  <2>2. OneBufferPerSector' /\ FlagInv' /\ DoneInv'
    BY <1>1, SectorsStep, FlagStep, DoneStep DEF IInv
  <2>3. NoLostBuffer' /\ QueueExact' /\ DataInv'
    BY <1>1, WaitStep, QueueStep, DataStep DEF IInv
  <2> QED BY <2>1, <2>2, <2>3 DEF IInv
<1>2. ASSUME IInv, UNCHANGED vars PROVE IInv'
  <2>1. /\ \A p \in Procs : (Has(p)' <=> Has(p)) /\ Holds(p)' = Holds(p)
        /\ \A b \in Bufs : (Busy(b)' <=> Busy(b))
    BY <1>2 DEF vars, bufVars, procVars, Has, Holds, Busy
  <2>2. TypeOK' /\ OneOwner' /\ OneBufferPerSector'
    BY <1>2, <2>1 DEF IInv, vars, bufVars, ideVars, procVars, TypeOK,
       OneOwner, OneBufferPerSector
  <2>3. Local' /\ NoLostBuffer' /\ FlagInv'
    BY <1>2, <2>1 DEF IInv, vars, bufVars, procVars, Local, Has,
       NoLostBuffer, FlagInv, Busy
  <2>4. DoneInv' /\ QueueExact' /\ DataInv'
    BY <1>2 DEF IInv, vars, bufVars, ideVars, procVars, DoneInv, QueueExact,
       DataInv, IsDone
  <2> QED BY <2>2, <2>3, <2>4 DEF IInv
<1> QED BY <1>1, <1>2

\* and always.
LEMMA Inductive == Spec => []IInv
BY InitHolds, NextHolds, PTL DEF Spec

(***************************************************************************)
(* For any number of processes, buffers and sectors, the variables of the  *)
(* cache and of the driver keep their types: a process that holds or waits *)
(* for a buffer has one, and the disk is given a buffer that has a sector. *)
(***************************************************************************)
THEOREM TypeCorrect == Spec => []TypeOK
BY Inductive, PTL DEF IInv

(***************************************************************************)
(* bget() never puts a sector into a second buffer, however many processes *)
(* miss it at the same time and sleep for each other's buffers.            *)
(***************************************************************************)
THEOREM SectorSafety == Spec => []OneBufferPerSector
BY Inductive, PTL DEF IInv

(***************************************************************************)
(* bget() gives a buffer to one process until its brelse(), and B_BUSY     *)
(* says exactly that some process has it.                                  *)
(***************************************************************************)
THEOREM OwnerSafety == Spec => []OneOwner
BY Inductive, PTL DEF IInv

(***************************************************************************)
(* iderw() and ideintr() keep in the queue exactly the buffers for which a *)
(* process still waits, each once, and the disk idle only if there is none.*)
(***************************************************************************)
THEOREM QueueSafety == Spec => []QueueExact
BY Inductive, PTL DEF IInv

(***************************************************************************)
(* A process asleep in bget() has a buffer in use to wait for, so that the *)
(* brelse() of the buffer is still to come.                                *)
(***************************************************************************)
THEOREM BufferSafety == Spec => []NoLostBuffer
BY Inductive, PTL DEF IInv

(***************************************************************************)
(* What bread() returns is what the disk holds, unless the request failed: *)
(* a process woken for another reason does not take its request for done.  *)
(***************************************************************************)
THEOREM CacheCoherent == Spec => []Coherent
<1>1. IInv => Coherent
  <2> SUFFICES ASSUME IInv, NEW p \in Procs, NEW b \in Holds(p) \ bad,
                      pc[p] = "hold" \/ b = kept[p]
               PROVE  "VALID" \in flags[b] /\ data[b] = disk[sector[b]]
    BY DEF Coherent
  <2>1. b \in Bufs
    BY HoldsIn
  <2>2. IsDone(b)
    BY <2>1, Facts DEF IInv, DoneInv, Holds
  <2> QED BY <2>1, <2>2 DEF IInv, DataInv, IsDone
<1> QED BY <1>1, Inductive, PTL

-----------------------------------------------------------------------------
(* The cache implements the store.                                         *)

HolderFacts ==
  /\ DOMAIN Holders = Sectors /\ Holders = [s \in Sectors |-> Holders[s]]
  /\ \A s \in Sectors :
       /\ \A p \in Procs : Locks(p, s) => Holders[s] = p
       /\ (\A p \in Procs : ~Locks(p, s)) => Holders[s] = Nobody

\* Holders says who locks a sector,
LEMMA HolderIs == IInv => HolderFacts
<1> SUFFICES ASSUME IInv PROVE HolderFacts
  OBVIOUS
<1>1. ASSUME NEW s \in Sectors, NEW p \in Procs, NEW q \in Procs,
             Locks(p, s), Locks(q, s)
      PROVE  p = q
  <2>1. PICK b \in Holds(p), c \in Holds(q) : sector[b] = s /\ sector[c] = s
    BY <1>1 DEF Locks
  <2>2. b = c
    BY <1>1, <2>1, HoldsIn, Facts DEF IInv, OneBufferPerSector
  <2> QED BY <2>2 DEF IInv, OneOwner
<1> QED BY <1>1 DEF HolderFacts, Holders

\* after a step too.
LEMMA HolderNext == IInv' => HolderFacts'
BY HolderIs, PTL

\* Who holds what before a step and after it tells who locks what.
LEMMA SameHolders ==
  ASSUME IInv, IInv',
         \A p \in Procs, s \in Sectors : Locks(p, s)' <=> Locks(p, s)
  PROVE  Holders' = Holders
BY HolderIs, HolderNext DEF HolderFacts

\* One more sector locked.
LEMMA LockedBy ==
  ASSUME IInv, IInv', NEW p \in Procs, NEW s \in Sectors,
         \A q \in Procs : ~Locks(q, s), Locks(p, s)',
         \A q \in Procs, t \in Sectors :
           t # s => (Locks(q, t)' <=> Locks(q, t))
  PROVE  Holders[s] = Nobody /\ Holders' = [Holders EXCEPT ![s] = p]
BY HolderIs, HolderNext DEF HolderFacts

\* One fewer.
LEMMA UnlockedBy ==
  ASSUME IInv, IInv', NEW p \in Procs, NEW s \in Sectors,
         \A q \in Procs : ~Locks(q, s)', Locks(p, s),
         \A q \in Procs, t \in Sectors :
           t # s => (Locks(q, t)' <=> Locks(q, t))
  PROVE  Holders[s] = p /\ Holders' = [Holders EXCEPT ![s] = Nobody]
BY HolderIs, HolderNext DEF HolderFacts

\* The sector of a buffer changes only when the buffer is taken.
LEMMA SectorKinds ==
  ASSUME TypeOK, Next
  PROVE  /\ Same => sector' = sector
         /\ \A p \in Procs, b \in Bufs : Given(p, b) => sector' = sector
         /\ \A p \in Procs, b \in Bufs : Taken(p, b) =>
              \A c \in Bufs : c # b => sector'[c] = sector[c]
<1>1. CASE sector' = sector
  BY <1>1
<1>2. ASSUME NEW q \in Procs, NEW d \in Bufs, ~Busy(d),
             sector' = [sector EXCEPT ![d] = want[q]],
             flags' = [flags EXCEPT ![d] = {"BUSY"}]
      PROVE  /\ ~Same
             /\ \A p \in Procs, b \in Bufs : ~Given(p, b)
             /\ \A p \in Procs, b \in Bufs : Taken(p, b) =>
                  \A c \in Bufs : c # b => sector'[c] = sector[c]
  <2>1. ~Busy(d) /\ Busy(d)'
    BY <1>2 DEF Busy, TypeOK
  <2>2. \A c \in Bufs : c # d => sector'[c] = sector[c]
    BY <1>2 DEF TypeOK
  <2> QED BY <2>1, <2>2 DEF Same, Given, Taken
<1> QED BY <1>1, <1>2, SectorStep

\* A step locks a sector, unlocks one, or leaves them all.
LEMMA StoreKinds ==
  ASSUME IInv, IInv', Next
  PROVE  \/ Same /\ Holders' = Holders
         \/ \E p \in Procs, s \in Sectors :
              Holders[s] = Nobody /\ Holders' = [Holders EXCEPT ![s] = p]
         \/ \E s \in Sectors : /\ Holders[s] # Nobody
                               /\ Holders' = [Holders EXCEPT ![s] = Nobody]
<1>1. CASE Same
  <2>1. \A p \in Procs, s \in Sectors : Locks(p, s)' <=> Locks(p, s)
    BY <1>1, SectorKinds DEF IInv, Same, Locks
  <2> QED BY <1>1, <2>1, SameHolders
<1>2. ASSUME NEW p \in Procs, NEW b \in Bufs, Taken(p, b)
      PROVE  \E s \in Sectors :
               Holders[s] = Nobody /\ Holders' = [Holders EXCEPT ![s] = p]
  <2>1. PICK s \in Sectors : s = sector'[b]
    BY <1>2 DEF Taken, IInv, FlagInv, Busy
  <2>2. \A q \in Procs : b \notin Holds(q)
    BY <1>2 DEF Taken, IInv, OneOwner
  <2>3. \A c \in Bufs : c # b => sector'[c] = sector[c] /\ sector[c] # s
    BY <1>2, <2>1, SectorKinds, Facts DEF IInv, OneBufferPerSector
  <2>4. \A q \in Procs :
          Holds(q)' = IF q = p THEN Holds(q) \cup {b} ELSE Holds(q)
    BY <1>2 DEF Taken
  <2>5. \A q \in Procs : ~Locks(q, s)
    BY <2>2, <2>3, HoldsIn DEF Locks
  <2>6. Locks(p, s)'
    BY <2>1, <2>4 DEF Locks
  <2>7. \A q \in Procs, t \in Sectors : t # s => (Locks(q, t)' <=> Locks(q, t))
    BY <2>1, <2>2, <2>3, <2>4, HoldsIn DEF Locks
  <2> QED BY <2>5, <2>6, <2>7, LockedBy
<1>3. ASSUME NEW p \in Procs, NEW b \in Bufs, Given(p, b)
      PROVE  \E s \in Sectors : /\ Holders[s] # Nobody
                                /\ Holders' = [Holders EXCEPT ![s] = Nobody]
  <2>1. b \in Holds(p) /\ sector' = sector
    BY <1>3, SectorKinds DEF Given, IInv
  <2>2. PICK s \in Sectors : s = sector[b]
    BY <2>1 DEF IInv, FlagInv, OneOwner, Busy
  <2>3. \A c \in Bufs : c # b => sector[c] # s
    BY <2>2, Facts DEF IInv, OneBufferPerSector
  <2>4. \A q \in Procs :
          Holds(q)' = IF q = p THEN Holds(q) \ {b} ELSE Holds(q)
    BY <1>3 DEF Given
  <2>5. \A q \in Procs : q # p => b \notin Holds(q)
    BY <2>1 DEF IInv, OneOwner
  <2>6. \A q \in Procs : ~Locks(q, s)'
    BY <2>1, <2>3, <2>4, <2>5, HoldsIn DEF Locks
  <2>7. Locks(p, s)
    BY <2>1, <2>2 DEF Locks
  <2>8. \A q \in Procs, t \in Sectors : t # s => (Locks(q, t)' <=> Locks(q, t))
    BY <2>1, <2>2, <2>4 DEF Locks
  <2> QED BY <2>6, <2>7, <2>8, UnlockedBy, Facts
<1> QED BY <1>1, <1>2, <1>3, StepKinds DEF IInv

\* Only the disk writes, to a sector of which the lock is held.
LEMMA StoreWrite ==
  ASSUME IInv, DiskWorks, disk' # disk
  PROVE  \E s \in Sectors : \E v \in Data[s] :
           Holders[s] # Nobody /\ disk' = [disk EXCEPT ![s] = v]
<1>1. PICK b \in Bufs :
        /\ b = Head(idequeue) /\ sector[b] \in Sectors
        /\ \E p \in Procs : pc[p] \in {"idewait", "idetest"} /\ cur[p] = b
  BY FirstRequest, FirstInUse DEF IInv, DiskWorks
<1>2. "DIRTY" \in flags[b] /\ disk' = [disk EXCEPT ![sector[b]] = data[b]]
  BY <1>1 DEF DiskWorks
<1>3. data[b] \in Data[sector[b]]
  BY <1>2 DEF IInv, FlagInv
<1>4. PICK p \in Procs : Locks(p, sector[b])
  BY <1>1 DEF Locks, Holds, Has
<1>5. Holders[sector[b]] # Nobody
  BY <1>1, <1>4, HolderIs, Facts DEF HolderFacts
<1> QED BY <1>1, <1>2, <1>3, <1>5

\* Every step of the cache is one of the store, or none.
LEMMA StoreStep ==
  ASSUME IInv, IInv', Next
  PROVE  Store!Next \/ UNCHANGED Store!vars
<1> USE DEF Store!Next, Store!vars, Store!Lock, Store!Unlock, Store!Write
<1>1. CASE disk' = disk
  BY <1>1, StoreKinds
<1>2. CASE disk' # disk
  <2>1. DiskWorks
    BY <1>2 DEF Next, Kernel, Bread, BgetHit, BgetWait, BgetRecycle,
       BgetPanic, BreadDone, Bwrite, Brelse, IdeRw, IdeTest, IdeIntr, Kill
  <2>2. Holders' = Holders
    <3>1. Same
      BY <2>1, SameDisk DEF IInv
    <3>2. \A p \in Procs, s \in Sectors : Locks(p, s)' <=> Locks(p, s)
      BY <2>1, <3>1 DEF DiskWorks, bufVars, Same, Locks
    <3> QED BY <3>2, SameHolders
  <2> QED BY <1>2, <2>1, <2>2, StoreWrite
<1> QED BY <1>1, <1>2

(***************************************************************************)
(* Buffer cache and driver give each sector a lock and a register that is  *)
(* written only under the lock: bget() is Lock, brelse() is Unlock, and    *)
(* the disk's work on a dirty buffer is Write.                             *)
(***************************************************************************)
THEOREM StoreImplemented == Spec => ImplementsStore
<1>1. Init => Store!Init
  <2> SUFFICES ASSUME Init PROVE Store!Init
    OBVIOUS
  <2>1. \A p \in Procs, s \in Sectors : ~Locks(p, s)
    BY Facts DEF Init, Locks, Holds, Has
  <2>2. Holders = [s \in Sectors |-> Nobody]
    BY <2>1 DEF Holders
  <2> QED BY <2>2 DEF Init, Disks, Store!Init
<1>2. ASSUME IInv, IInv', [Next]_vars
      PROVE  [Store!Next]_(Store!vars)
  <2>1. CASE Next
    BY <1>2, <2>1, StoreStep
  <2>2. CASE UNCHANGED vars
    <3>1. \A p \in Procs, s \in Sectors : Locks(p, s)' <=> Locks(p, s)
      BY <2>2 DEF vars, bufVars, procVars, Locks, Holds, Has
    <3>2. Holders' = Holders
      BY <1>2, <3>1, SameHolders
    <3> QED BY <2>2, <3>2 DEF vars, Store!vars
  <2> QED BY <1>2, <2>1, <2>2
<1> QED BY <1>1, <1>2, Inductive, PTL DEF Spec, ImplementsStore, Store!Spec
=============================================================================
