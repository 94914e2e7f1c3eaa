---------------------------- MODULE Blocks_proofs ----------------------------
(***************************************************************************)
(* Proofs about Blocks: who has which block, that what is on the disk is   *)
(* sound and durable, and that it behaves like a FileStore.                *)
(***************************************************************************)
EXTENDS Blocks, SequenceTheorems, TLAPS

\* What the lemmas assume: BlocksAssumption.
Assumptions == SizeAssumption /\ DataAssumption /\ NameAssumption

-----------------------------------------------------------------------------
(* The inductive invariant: the calls and the inodes.                      *)

Pcs == {"user", "create", "put", "write", "table", "read", "bfree", "clear",
        "free"}
Call == [pc : Pcs, f : Files \cup {Null}, ip : Inums \cup {Null},
         off : Nat, n : Nat, tot : Nat, new : Pointers, at : Nat,
         got : Seq(Units)]
Limit == MAXFILE * BSIZE
TypedDisk ==
  /\ blk \in [Numbers -> [DOMAIN Zeros -> Units]]
  /\ bitmap \subseteq Numbers
TypedInodes == dinode \in [Inums -> Inode] /\ inode \in [Inums -> Inode]
TypedCalls ==
  k \in [Procs -> Call] /\ \A p \in Procs : k[p].off + k[p].n <= Limit
TypedFiles ==
  /\ lock \in [Inums -> Procs \cup {Null}]
  /\ file \in [Files -> [ip : Inums \cup {Null}, off : 0..Limit]]
  /\ calls \in Nat /\ crashes \in Nat
Typed == TypedDisk /\ TypedInodes /\ TypedCalls /\ TypedFiles

Empty == [FreeInode EXCEPT !.used = TRUE]
Opened(i) == \E f \in Files : file[f].ip = i
Writes(f) == f.pc \in {"write", "table"}
OnFile(f) == f.pc \in {"write", "table", "read"}
Freeing(f) == f.pc \in {"bfree", "clear", "free"}

\* The call of p has its inode, and the inode is what the call takes it for.
CallOK(p) ==
  LET f == k[p] IN
  /\ f.pc = "user" => f = User
  /\ f.pc # "user" => f.ip \in Inums /\ lock[f.ip] = p
  /\ f.f # Null <=> OnFile(f)
  /\ OnFile(f) =>
       file[f.f].ip = f.ip /\ f.tot <= f.n /\ f.off <= inode[f.ip].size
  /\ f.new # Null <=> f.pc = "table"
  /\ f.pc = "table" =>
       bn(p) >= NDIRECT /\ Table(p) # Null /\ f.tot < f.n
  /\ f.pc \in {"create", "free"} => inode[f.ip] = Empty
  /\ f.pc = "put" \/ Freeing(f) =>
       inode[f.ip].used /\ inode[f.ip].nlink = 0
  /\ Freeing(f) => ~Opened(f.ip)
  /\ f.pc = "clear" => f.at \in Slots
  /\ f.pc = "read" => f.off + f.n <= inode[f.ip].size

LocksOK == \A i \in Inums : lock[i] # Null => k[lock[i]].ip = i

\* The inode on the disk is what it is in memory, or has no block yet where
\* that has one.
InodeOK(i) ==
  LET d == dinode[i] m_ == inode[i] IN
  /\ d.used = m_.used /\ d.nlink = m_.nlink /\ d.size = m_.size
  /\ \A n \in 0..NDIRECT : d.addrs[n] \in {Null, m_.addrs[n]}
  /\ ~m_.used => m_ = FreeInode
  /\ Opened(i) => m_.used

CallsOK ==
  /\ \A p \in Procs : CallOK(p)
  /\ LocksOK
  /\ \A i \in Inums : InodeOK(i)

-----------------------------------------------------------------------------
(* The types.                                                              *)

\* Sizes are numbers, and Null is no name.
LEMMA Bounds ==
  ASSUME Assumptions
  PROVE  /\ NBITS \in Nat /\ BSIZE \in Nat \ {0} /\ NDIRECT \in Nat \ {0}
         /\ NINDIRECT \in Nat \ {0} /\ MAXFILE \in Nat
         /\ Limit \in Nat
         /\ Null \notin Procs /\ Null \notin Inums /\ Null \notin Files
         /\ Null \notin Numbers
BY DEF Assumptions, SizeAssumption, NameAssumption, MAXFILE, Limit, Null,
  Numbers

\* The values that the model writes down are of their types.
LEMMA Constants ==
  ASSUME Assumptions
  PROVE  /\ Zeros \in [DOMAIN Zeros -> Units]
         /\ FreeInode \in Inode /\ Empty \in Inode
         /\ User \in Call /\ User.off = 0 /\ User.n = 0
<1>1. Zeros \in [DOMAIN Zeros -> Units]
  BY Bounds DEF Zeros, Units, Pointers, Null
<1>2. FreeInode \in Inode
  BY Bounds DEF FreeInode, Inode, Pointers, Limit
<1>3. Empty \in Inode
  BY <1>2 DEF Empty, Inode
<1>4. User \in Call /\ User.off = 0 /\ User.n = 0
  <2>1. <<>> \in Seq(Units)
    OBVIOUS
  <2> QED
    BY <2>1 DEF User, Call, Pcs, Pointers
<1> QED BY <1>1, <1>2, <1>3, <1>4

\* The call of p becomes f.
LEMMA BecomeTyped ==
  ASSUME Assumptions, NEW p \in Procs, NEW f,
         TypedCalls, f \in Call, f.off + f.n <= Limit, Become(p, f)
  PROVE  TypedCalls'
BY DEF TypedCalls, Become

\* An inode with another link count.
LEMMA InodeLinks ==
  ASSUME NEW d \in Inode, NEW v \in 0..1
  PROVE  [d EXCEPT !.nlink = v] \in Inode
BY DEF Inode

\* An inode with a block more.
LEMMA InodeGrows ==
  ASSUME NEW d \in Inode, NEW n \in 0..NDIRECT, NEW b \in Pointers
  PROVE  [d EXCEPT !.addrs[n] = b] \in Inode
<1>1. [d.addrs EXCEPT ![n] = b] \in [0..NDIRECT -> Pointers]
  BY DEF Inode
<1>2. [d EXCEPT !.addrs[n] = b]
        = [d EXCEPT !.addrs = [d.addrs EXCEPT ![n] = b]]
  BY DEF Inode
<1> QED BY <1>1, <1>2 DEF Inode

\* The part of a transfer that is in one block.
LEMMA Parts ==
  ASSUME Assumptions, TypedCalls, NEW p \in Procs, k[p].tot < k[p].n
  PROVE  /\ m(p) \in Nat \ {0} /\ k[p].tot + m(p) <= k[p].n
         /\ From(p) \in 0..BSIZE - 1 /\ From(p) + m(p) <= BSIZE
<1>1. k[p].off \in Nat /\ k[p].tot \in Nat /\ k[p].n \in Nat
  BY DEF TypedCalls, Call
<1>2. From(p) \in 0..BSIZE - 1
  BY <1>1, Bounds DEF From
<1> QED BY <1>1, <1>2, Bounds DEF m, Least

\* create() and ialloc() make a typed inode and call.
LEMMA CreateTyped ==
  ASSUME Assumptions, Typed, NEW p \in Procs, NEW i \in Inums, Create(p, i)
  PROVE  Typed'
<1> DEFINE g == [User EXCEPT !.pc = "create", !.ip = i]
<1>1. g \in Call /\ g.off = 0 /\ g.n = 0
  BY Constants DEF Call, Pcs
<1>2. Become(p, g)
  BY DEF Create, Begin
<1> HIDE DEF g
<1>3. TypedCalls'
  BY <1>1, <1>2, BecomeTyped, Bounds DEF Typed
<1> QED
  BY <1>3, Constants
  DEF Typed, TypedDisk, TypedInodes, TypedFiles, Create, Begin, Empty

\* A process that leaves its call.
LEMMA UserTyped ==
  ASSUME Assumptions, Typed, NEW p \in Procs, Become(p, User)
  PROVE  TypedCalls'
BY Constants, BecomeTyped, Bounds DEF Typed

\* The rest of create().
LEMMA CreateLinkedTyped ==
  ASSUME Assumptions, Typed, NEW p \in Procs, CreateLinked(p)
  PROVE  Typed'
<1>1. inode' \in [Inums -> Inode]
  <2>1. k[p].ip \in Inums => [inode[k[p].ip] EXCEPT !.nlink = 1] \in Inode
    BY InodeLinks, 1 \in 0..1 DEF Typed, TypedInodes
  <2> QED BY <2>1 DEF Typed, TypedInodes, CreateLinked
<1> QED
  BY <1>1, UserTyped
  DEF Typed, TypedDisk, TypedInodes, TypedFiles, CreateLinked, Unlock, Goes

\* open().
LEMMA OpenTyped ==
  ASSUME Assumptions, Typed, NEW f \in Files, NEW i \in Inums, Open(f, i)
  PROVE  Typed'
BY Bounds
DEF Typed, TypedDisk, TypedInodes, TypedCalls, TypedFiles, Open, diskVars

\* A process that comes to itrunc().
LEMMA TruncTyped ==
  ASSUME Assumptions, Typed, NEW p \in Procs, NEW i \in Inums,
         Become(p, Trunc(i))
  PROVE  TypedCalls'
<1> DEFINE g == Trunc(i)
<1>1. g \in Call /\ g.off = 0 /\ g.n = 0
  BY Constants DEF Call, Pcs, Trunc
<1> HIDE DEF g
<1> QED BY <1>1, BecomeTyped, Bounds DEF Typed, g

\* close() and the iput() in it.
LEMMA CloseTyped ==
  ASSUME Assumptions, Typed, NEW p \in Procs, NEW f \in Files, Close(p, f)
  PROVE  Typed'
<1> DEFINE i == file[f].ip
<1>1. i \in Inums
  BY DEF Close, Typed, TypedFiles
<1>2. TypedCalls'
  BY <1>1, TruncTyped DEF Close, Begin, Typed, TypedCalls
<1>3. TypedFiles'
  BY <1>1, Bounds DEF Close, Begin, Goes, Typed, TypedFiles, Closed
<1> QED
  BY <1>2, <1>3 DEF Typed, TypedDisk, TypedInodes, Close, diskVars

\* unlink() writes a count of 0.
LEMMA UnlinkTyped ==
  ASSUME Assumptions, Typed, NEW p \in Procs, NEW i \in Inums, Unlink(p, i)
  PROVE  Typed'
<1>1. inode' \in [Inums -> Inode]
  <2>1. i \in Inums => [inode[i] EXCEPT !.nlink = 0] \in Inode
    BY InodeLinks, 0 \in 0..1 DEF Typed, TypedInodes
  <2> QED BY <2>1 DEF Typed, TypedInodes, Unlink
<1> DEFINE g == [User EXCEPT !.pc = "put", !.ip = i]
<1>2. g \in Call /\ g.off = 0 /\ g.n = 0
  BY Constants DEF Call, Pcs
<1>3. Become(p, g)
  BY DEF Unlink, Begin
<1> HIDE DEF g
<1>4. TypedCalls'
  BY <1>2, <1>3, BecomeTyped, Bounds DEF Typed
<1> QED
  BY <1>1, <1>4 DEF Typed, TypedDisk, TypedInodes, TypedFiles, Unlink, Begin

\* The iput() at the end of unlink().
LEMMA UnlinkPutTyped ==
  ASSUME Assumptions, Typed, NEW p \in Procs, UnlinkPut(p), k[p].ip \in Inums
  PROVE  Typed'
<1>1. TypedCalls'
  BY UserTyped, TruncTyped DEF UnlinkPut, Unlock
<1> QED
  BY <1>1 DEF Typed, TypedDisk, TypedInodes, TypedFiles, UnlinkPut, Unlock,
    Goes, diskVars

\* bmap() enters a block number in the inode.
LEMMA BmapInodeTyped ==
  ASSUME Assumptions, Typed, NEW p \in Procs, BmapInode(p)
  PROVE  Typed'
<1>1. inode' \in [Inums -> Inode] /\ bitmap' \subseteq Numbers
  <2> DEFINE n == IF bn(p) < NDIRECT THEN bn(p) ELSE NDIRECT
  <2>1. n \in 0..NDIRECT
    <3>1. k[p].off + k[p].tot \in Nat
      BY DEF Typed, TypedCalls, Call
    <3>2. bn(p) \in Nat
      BY <3>1, Bounds DEF bn
    <3> QED BY <3>2, Bounds
  <2>2. PICK b \in Numbers : /\ inode' = [inode EXCEPT ![k[p].ip].addrs[n] = b]
                             /\ bitmap' = bitmap \cup {b}
    BY DEF BmapInode
  <2> HIDE DEF n
  <2>3. bitmap' \subseteq Numbers
    BY <2>2 DEF Typed, TypedDisk
  <2>4. k[p].ip \in Inums => [inode[k[p].ip] EXCEPT !.addrs[n] = b] \in Inode
    BY <2>1, b \in Pointers, InodeGrows DEF Typed, TypedInodes, Pointers
  <2> QED
    BY <2>2, <2>3, <2>4 DEF Typed, TypedInodes
<1> QED
  BY <1>1 DEF Typed, TypedDisk, TypedInodes, TypedCalls, TypedFiles, BmapInode,
    Goes

\* bmap() has a block for the table.
LEMMA BmapTableTyped ==
  ASSUME Assumptions, Typed, NEW p \in Procs, BmapTable(p)
  PROVE  Typed'
<1>1. PICK b \in Numbers : /\ bitmap' = bitmap \cup {b}
                           /\ Become(p, [k[p] EXCEPT !.pc = "table",
                                                     !.new = b])
  BY DEF BmapTable
<1>2. TypedCalls'
  <2>1. k[p] \in Call /\ k[p].off + k[p].n <= Limit
    BY DEF Typed, TypedCalls
  <2> DEFINE g == [k[p] EXCEPT !.pc = "table", !.new = b]
  <2>2. g \in Call /\ g.off = k[p].off /\ g.n = k[p].n
    BY <2>1, 0 \in Nat DEF Call, Pcs, Pointers
  <2> HIDE DEF g
  <2> QED BY <1>1, <2>1, <2>2, BecomeTyped DEF Typed, g
<1> QED
  BY <1>1, <1>2 DEF Typed, TypedDisk, TypedInodes, TypedFiles, BmapTable, Goes

\* bmap() enters it in the table: a block number is a unit like others.
LEMMA BmapTableWriteTyped ==
  ASSUME Assumptions, Typed, NEW p \in Procs, BmapTableWrite(p)
  PROVE  Typed'
<1>1. k[p] \in Call /\ k[p].off + k[p].n <= Limit
  BY DEF Typed, TypedCalls
<1>2. TypedCalls'
  <2> DEFINE g == [k[p] EXCEPT !.pc = "write", !.new = Null]
  <2>1. g \in Call /\ g.off = k[p].off /\ g.n = k[p].n
    BY <1>1, 0 \in Nat DEF Call, Pcs, Pointers
  <2>2. Become(p, g)
    BY DEF BmapTableWrite
  <2> HIDE DEF g
  <2> QED BY <1>1, <2>1, <2>2, BecomeTyped DEF Typed
<1>3. TypedDisk'
  <2>1. k[p].new \in Units
    BY <1>1 DEF Call, Units
  <2>2. Table(p) \in Numbers =>
          [blk[Table(p)] EXCEPT ![bn(p) - NDIRECT] = k[p].new]
             \in [DOMAIN Zeros -> Units]
    BY <2>1 DEF Typed, TypedDisk
  <2> QED BY <2>2 DEF Typed, TypedDisk, BmapTableWrite
<1> QED
  BY <1>2, <1>3 DEF Typed, TypedInodes, TypedFiles, BmapTableWrite, Goes

\* The panic of balloc() changes no more than panicked.
LEMMA OutOfBlocksTyped ==
  ASSUME Assumptions, Typed, NEW p \in Procs, OutOfBlocks(p)
  PROVE  Typed'
BY DEF Typed, TypedDisk, TypedInodes, TypedCalls, TypedFiles, OutOfBlocks,
  Panic, diskVars

\* write() is cut to the longest file that there can be.
LEMMA WriteTyped ==
  ASSUME Assumptions, Typed, NEW p \in Procs, NEW f \in Files,
         NEW n \in Sizes, Write(p, f, n)
  PROVE  Typed'
<1> DEFINE i == file[f].ip off == file[f].off
           len == Least(n, Limit - off)
<1>1. i \in Inums /\ off \in 0..Limit
  BY DEF Write, Typed, TypedFiles
<1>2. len \in Nat /\ off + len <= Limit /\ off \in Nat
  <2> HIDE DEF off
  <2>1. n \in Nat
    BY DEF Assumptions, SizeAssumption
  <2> QED BY <1>1, <2>1, Bounds DEF Least
<1>3. TypedCalls'
  <2> DEFINE g == [User EXCEPT !.pc = "write", !.f = f, !.ip = i, !.off = off,
                   !.n = len]
  <2>1. Become(p, g)
    BY DEF Write, Begin, Limit
  <2> HIDE DEF i, off, len
  <2>2. "write" \in Pcs
    BY DEF Pcs
  <2>3. g \in Call /\ g.off = off /\ g.n = len
    BY <1>1, <1>2, <2>2, Constants DEF Call
  <2> HIDE DEF g
  <2> QED BY <1>2, <2>1, <2>3, BecomeTyped DEF Typed
<1> QED
  BY <1>3 DEF Typed, TypedDisk, TypedInodes, TypedFiles, Write, Begin,
    diskVars

\* read() is cut to the file.
LEMMA ReadTyped ==
  ASSUME Assumptions, Typed, NEW p \in Procs, NEW f \in Files,
         NEW n \in Sizes, Read(p, f, n)
  PROVE  Typed'
<1> DEFINE i == file[f].ip off == file[f].off
           len == Least(n, inode[i].size - off)
<1>1. i \in Inums /\ off \in 0..Limit /\ off <= inode[i].size
  BY DEF Read, Typed, TypedFiles
<1>2. inode[i].size \in 0..Limit
  BY <1>1 DEF Typed, TypedInodes, Inode, Limit
<1>3. len \in Nat /\ off + len <= Limit /\ off \in Nat
  BY <1>1, <1>2, Bounds DEF Least, Assumptions, SizeAssumption
<1>4. TypedCalls'
  <2> DEFINE g == [User EXCEPT !.pc = "read", !.f = f, !.ip = i, !.off = off,
                   !.n = len]
  <2>1. Become(p, g)
    BY DEF Read, Begin
  <2> HIDE DEF i, off, len
  <2>2. "read" \in Pcs
    BY DEF Pcs
  <2>3. g \in Call /\ g.off = off /\ g.n = len
    BY <1>1, <1>3, <2>2, Constants DEF Call
  <2> HIDE DEF g
  <2> QED BY <1>3, <2>1, <2>3, BecomeTyped DEF Typed
<1> QED
  BY <1>4 DEF Typed, TypedDisk, TypedInodes, TypedFiles, Read, Begin,
    diskVars

\* writei() goes on by no more than is left.
LEMMA WriteBlockTyped ==
  ASSUME Assumptions, Typed, NEW p \in Procs, WriteBlock(p)
  PROVE  Typed'
<1>1. k[p] \in Call /\ k[p].off + k[p].n <= Limit /\ k[p].tot \in Nat
  BY DEF Typed, TypedCalls, Call
<1>2. k[p].tot + m(p) \in Nat
  BY <1>1, Parts DEF Typed, WriteBlock, More
<1>3. TypedCalls'
  <2> DEFINE g == [k[p] EXCEPT !.tot = k[p].tot + m(p)]
  <2>1. g \in Call /\ g.off = k[p].off /\ g.n = k[p].n
    BY <1>1, <1>2, 0 \in Nat DEF Call, Pcs, Pointers
  <2>2. Become(p, g)
    BY DEF WriteBlock
  <2> HIDE DEF g
  <2> QED BY <1>1, <2>1, <2>2, BecomeTyped DEF Typed
<1>4. TypedDisk'
  <2> DEFINE b == Addr(p)
             v == [u \in DOMAIN blk[b] |->
                     IF u \in From(p)..From(p) + m(p) - 1 THEN Written(p)
                     ELSE blk[b][u]]
  <2>1. blk' = [blk EXCEPT ![b] = v]
    BY DEF WriteBlock
  <2>2. b \in Numbers => v \in [DOMAIN Zeros -> Units]
    BY DEF Typed, TypedDisk, Units
  <2> HIDE DEF b, v
  <2> QED BY <2>1, <2>2 DEF Typed, TypedDisk, WriteBlock
<1> QED
  BY <1>3, <1>4 DEF Typed, TypedInodes, TypedFiles, WriteBlock, Goes

\* The end of write(): the size is not beyond the longest file's.
LEMMA WriteDoneTyped ==
  ASSUME Assumptions, Typed, NEW p \in Procs, WriteDone(p)
  PROVE  Typed'
<1> DEFINE end == k[p].off + k[p].n
<1>1. end \in 0..Limit
  BY Bounds DEF Typed, TypedCalls, Call
<1>2. inode' \in [Inums -> Inode]
  <2>1. \/ inode' = [inode EXCEPT ![k[p].ip].size = end]
        \/ inode' = inode
    BY DEF WriteDone
  <2> HIDE DEF end
  <2>2. k[p].ip \in Inums => [inode[k[p].ip] EXCEPT !.size = end] \in Inode
    BY <1>1 DEF Typed, TypedInodes, Inode, Limit
  <2> QED BY <2>1, <2>2 DEF Typed, TypedInodes
<1>3. file' \in [Files -> [ip : Inums \cup {Null}, off : 0..Limit]]
  <2>1. file' = [file EXCEPT ![k[p].f].off = end]
    BY DEF WriteDone
  <2> HIDE DEF end
  <2> QED BY <1>1, <2>1 DEF Typed, TypedFiles
<1>4. TypedCalls'
  BY UserTyped DEF WriteDone, Unlock
<1>5. TypedDisk'
  BY DEF Typed, TypedDisk, WriteDone
<1>6. /\ lock' \in [Inums -> Procs \cup {Null}]
      /\ calls' \in Nat /\ crashes' \in Nat
  BY DEF Typed, TypedFiles, WriteDone, Unlock, Goes
<1>7. dinode' \in [Inums -> Inode]
  <2>1. \/ dinode' = dinode
        \/ dinode' = [dinode EXCEPT ![k[p].ip] = inode'[k[p].ip]]
    BY DEF WriteDone
  <2>2. k[p].ip \in Inums => inode'[k[p].ip] \in Inode
    BY <1>2
  <2> QED BY <2>1, <2>2 DEF Typed, TypedInodes
<1> QED
  BY <1>2, <1>3, <1>4, <1>5, <1>6, <1>7 DEF Typed, TypedInodes, TypedFiles

\* The end of read().
LEMMA ReadDoneTyped ==
  ASSUME Assumptions, Typed, NEW p \in Procs, ReadDone(p)
  PROVE  Typed'
<1> DEFINE end == k[p].off + k[p].n
<1>1. end \in 0..Limit
  BY Bounds DEF Typed, TypedCalls, Call
<1>2. file' \in [Files -> [ip : Inums \cup {Null}, off : 0..Limit]]
  <2>1. file' = [file EXCEPT ![k[p].f].off = end]
    BY DEF ReadDone
  <2> HIDE DEF end
  <2> QED BY <1>1, <2>1 DEF Typed, TypedFiles
<1> QED
  BY <1>2, UserTyped
  DEF Typed, TypedDisk, TypedInodes, TypedFiles, ReadDone, Unlock, Goes,
    diskVars

\* itrunc() comes to a block.
LEMMA ZeroTyped ==
  ASSUME Assumptions, Typed, NEW p \in Procs, Zero(p)
  PROVE  Typed'
<1>1. k[p] \in Call /\ k[p].off + k[p].n <= Limit
  BY DEF Typed, TypedCalls
<1>2. PICK n \in Left(p) :
        /\ blk' = [blk EXCEPT ![Slot(inode[k[p].ip], n)] = Zeros]
        /\ Become(p, [k[p] EXCEPT !.pc = "clear", !.at = n])
  BY DEF Zero
<1>3. TypedCalls'
  <2> DEFINE g == [k[p] EXCEPT !.pc = "clear", !.at = n]
  <2>1. n \in Nat
    BY Bounds DEF Left, Slots
  <2>2. g \in Call /\ g.off = k[p].off /\ g.n = k[p].n
    BY <1>1, <2>1, 0 \in Nat DEF Call, Pcs, Pointers
  <2> HIDE DEF g
  <2> QED BY <1>1, <1>2, <2>2, BecomeTyped DEF Typed, g
<1> QED
  BY <1>2, <1>3, Constants
  DEF Typed, TypedDisk, TypedInodes, TypedFiles, Zero, Goes

\* bfree() and the next block.
LEMMA ClearTyped ==
  ASSUME Assumptions, Typed, NEW p \in Procs, Clear(p)
  PROVE  Typed'
<1>1. k[p] \in Call /\ k[p].off + k[p].n <= Limit /\ k[p].at \in Nat
  BY DEF Typed, TypedCalls, Call
<1> DEFINE at == k[p].at + 1
<1> DEFINE g == [k[p] EXCEPT !.pc = "bfree", !.at = at]
<1>2. g \in Call /\ g.off = k[p].off /\ g.n = k[p].n
  <2>1. at \in Nat
    BY <1>1
  <2> HIDE DEF at
  <2> QED BY <1>1, <2>1 DEF Call, Pcs
<1>3. Become(p, g) \/ k' = k
  BY DEF Clear, Panic
<1> HIDE DEF g
<1>4. TypedCalls'
  BY <1>1, <1>2, <1>3, BecomeTyped DEF Typed, TypedCalls
<1> QED
  BY <1>4 DEF Typed, TypedDisk, TypedInodes, TypedFiles, Clear, Panic, Goes,
    diskVars

\* itrunc() writes the inode without blocks.
LEMMA EmptiedTyped ==
  ASSUME Assumptions, Typed, NEW p \in Procs, Emptied(p)
  PROVE  Typed'
<1>1. k[p] \in Call /\ k[p].off + k[p].n <= Limit
  BY DEF Typed, TypedCalls
<1> DEFINE g == [k[p] EXCEPT !.pc = "free"]
<1>2. g \in Call /\ g.off = k[p].off /\ g.n = k[p].n
  BY <1>1, 0 \in Nat DEF Call, Pcs, Pointers
<1>3. Become(p, g)
  BY DEF Emptied
<1> HIDE DEF g
<1>4. TypedCalls'
  BY <1>1, <1>2, <1>3, BecomeTyped DEF Typed
<1> QED
  BY <1>4, Constants
  DEF Typed, TypedDisk, TypedInodes, TypedFiles, Emptied, Goes, Empty

\* iput() writes the inode free.
LEMMA FreedTyped ==
  ASSUME Assumptions, Typed, NEW p \in Procs, Freed(p)
  PROVE  Typed'
BY UserTyped, Constants
DEF Typed, TypedDisk, TypedInodes, TypedFiles, Freed, Unlock, Goes

\* The next boot.
LEMMA CrashTyped ==
  ASSUME Assumptions, Typed, Crash
  PROVE  Typed'
BY Bounds, Constants
DEF Typed, TypedDisk, TypedInodes, TypedCalls, TypedFiles, Crash, Closed,
  diskVars

\* readi() goes on; it reads from a block that is there.
LEMMA ReadBlockTyped ==
  ASSUME Assumptions, Typed, NEW p \in Procs, ReadBlock(p),
         Addr(p) \in Numbers
  PROVE  Typed'
<1>1. k[p] \in Call /\ k[p].off + k[p].n <= Limit /\ k[p].tot \in Nat
  BY DEF Typed, TypedCalls, Call
<1>2. k[p].tot + m(p) \in Nat /\ m(p) \in Nat /\ From(p) \in Nat
      /\ From(p) + m(p) <= BSIZE
  BY <1>1, Parts, Bounds DEF Typed, ReadBlock, More
<1> DEFINE s == [u \in 1..m(p) |-> blk[Addr(p)][From(p) + u - 1]]
           g == [k[p] EXCEPT !.tot = k[p].tot + m(p), !.got = k[p].got \o s]
<1>3. Become(p, g)
  BY DEF ReadBlock
<1>4. s \in Seq(Units)
  <2>1. \A u \in 1..m(p) : From(p) + u - 1 \in DOMAIN Zeros
    BY <1>2, Bounds DEF Zeros
  <2>2. \A u \in 1..m(p) : blk[Addr(p)][From(p) + u - 1] \in Units
    BY <2>1 DEF Typed, TypedDisk
  <2> QED BY <1>2, <2>2
<1>5. k[p].got \o s \in Seq(Units)
  BY <1>1, <1>4 DEF Call
<1>6. g \in Call /\ g.off = k[p].off /\ g.n = k[p].n
  <2> HIDE DEF s
  <2> QED BY <1>1, <1>2, <1>5, 0 \in Nat DEF Call, Pcs, Pointers
<1> HIDE DEF g
<1>7. TypedCalls'
  BY <1>1, <1>3, <1>6, BecomeTyped DEF Typed
<1> QED
  BY <1>7 DEF Typed, TypedDisk, TypedInodes, TypedFiles, ReadBlock, Goes,
    diskVars

\* The initial state is typed.
LEMMA InitTyped ==
  ASSUME Assumptions, Init
  PROVE  Typed
BY Constants, Bounds
DEF Init, Typed, TypedDisk, TypedInodes, TypedCalls, TypedFiles, Closed

-----------------------------------------------------------------------------
(* The calls and the inodes.                                               *)

\* In a step of p, the others keep their calls, locks and inodes; a file is
\* only closed if no call is about it.
Turn(p) ==
  /\ \A q \in Procs \ {p} : k'[q] = k[q]
  /\ \A j \in Inums :
       /\ lock[j] \in Procs \ {p} =>
            /\ inode'[j] = inode[j] /\ dinode'[j] = dinode[j]
            /\ lock'[j] = lock[j]
       /\ lock'[j] \in {lock[j], Null, p}
  /\ \A f \in Files :
       \/ file'[f].ip = file[f].ip
       \/ file'[f].ip = Null /\ \A q \in Procs : k[q].f # f

\* A file that is open after a step of p was open before.
LEMMA TurnOpened ==
  ASSUME Assumptions, NEW p \in Procs, Turn(p), NEW i \in Inums, Opened(i)'
  PROVE  Opened(i)
BY Bounds DEF Opened, Turn

\* The calls of the others are what they were.
LEMMA TurnOthers ==
  ASSUME Assumptions, Typed, CallsOK, NEW p \in Procs, Turn(p),
         NEW q \in Procs \ {p}
  PROVE  CallOK(q)'
<1>1. CallOK(q) /\ k'[q] = k[q]
  BY DEF CallsOK, Turn
<1>2. CASE k[q].pc = "user"
  BY <1>1, <1>2 DEF CallOK, User, OnFile, Freeing, Null
<1>3. CASE k[q].pc # "user"
  <2>1. PICK i \in Inums : i = k[q].ip /\ lock[i] = q
    BY <1>1, <1>3 DEF CallOK
  <2>2. inode'[i] = inode[i] /\ lock'[i] = q
    BY <2>1 DEF Turn
  <2>3. OnFile(k[q]) => k[q].f \in Files
    BY <1>1 DEF CallOK, Typed, TypedCalls, Call
  <2>4. OnFile(k[q]) => file'[k[q].f].ip = i
    BY <1>1, <2>1, <2>3, Bounds DEF Turn, CallOK
  <2>5. Opened(i)' => Opened(i)
    BY <2>1, TurnOpened
  <2>6. bn(q)' = bn(q) /\ Table(q)' = Table(q)
    BY <1>1, <2>1, <2>2 DEF bn, Table
  <2> QED
    BY <1>1, <1>3, <2>1, <2>2, <2>4, <2>5, <2>6 DEF CallOK
<1> QED BY <1>2, <1>3

\* An inode that a step leaves alone.
LEMMA InodeSame ==
  ASSUME NEW i \in Inums, InodeOK(i), inode'[i] = inode[i],
         dinode'[i] = dinode[i], Opened(i)' => Opened(i)
  PROVE  InodeOK(i)'
BY DEF InodeOK

\* It is enough to look at p and the inode that it changes.
LEMMA TurnCalls ==
  ASSUME Assumptions, Typed, CallsOK, NEW p \in Procs, Turn(p),
         NEW i \in Inums,
         CallOK(p)', InodeOK(i)',
         \A j \in Inums : lock'[j] = p => k'[p].ip = j,
         \A j \in Inums \ {i} : inode'[j] = inode[j] /\ dinode'[j] = dinode[j]
  PROVE  CallsOK'
<1>1. \A q \in Procs : CallOK(q)'
  BY TurnOthers
<1>2. \A j \in Inums : InodeOK(j)'
  BY TurnOpened, InodeSame DEF CallsOK
<1>3. ASSUME NEW j \in Inums, lock'[j] # Null
      PROVE  k'[lock'[j]].ip = j
  <2>1. CASE lock'[j] = p
    BY <2>1
  <2>2. CASE lock'[j] # p
    <3>1. lock'[j] = lock[j] /\ lock[j] \in Procs \ {p}
      BY <1>3, <2>2 DEF Turn, Typed, TypedFiles
    <3> QED BY <1>3, <3>1 DEF Turn, CallsOK, LocksOK
  <2> QED BY <2>1, <2>2
<1> QED BY <1>1, <1>2, <1>3 DEF CallsOK, LocksOK

\* Nor at an inode, if none changes.
LEMMA TurnQuiet ==
  ASSUME Assumptions, Typed, CallsOK, NEW p \in Procs, Turn(p), CallOK(p)',
         UNCHANGED <<inode, dinode>>,
         \A j \in Inums : lock'[j] = p => k'[p].ip = j
  PROVE  CallsOK'
<1>1. CASE Inums = {}
  BY <1>1, TurnOthers DEF CallsOK, LocksOK
<1>2. CASE Inums # {}
  <2>1. PICK i \in Inums : TRUE
    BY <1>2
  <2>2. InodeOK(i)'
    BY TurnOpened, InodeSame DEF CallsOK
  <2> QED BY <2>1, <2>2, TurnCalls
<1> QED BY <1>1, <1>2

\* The inode of a call; a process outside of the calls has none.
LEMMA Holder ==
  ASSUME Assumptions, Typed, CallsOK, NEW p \in Procs
  PROVE  /\ k[p] \in Call /\ CallOK(p)
         /\ k[p].pc # "user" => k[p].ip \in Inums /\ lock[k[p].ip] = p
         /\ \A j \in Inums : lock[j] = p => k[p].pc # "user" /\ k[p].ip = j
<1>1. k[p] \in Call /\ CallOK(p)
  BY DEF CallsOK, Typed, TypedCalls
<1>2. k[p].pc = "user" => k[p].ip = Null
  BY <1>1 DEF CallOK, User
<1> QED BY <1>1, <1>2, Bounds DEF CallOK, CallsOK, LocksOK

\* A process that leaves its call.
LEMMA UserOK ==
  ASSUME Assumptions, NEW p \in Procs, k'[p] = User
  PROVE  CallOK(p)'
BY DEF CallOK, User, OnFile, Freeing, Null


\* create() locks an inode nobody has.
LEMMA CreateCalls ==
  ASSUME Assumptions, Typed, CallsOK, NEW p \in Procs, NEW i \in Inums,
         Create(p, i)
  PROVE  CallsOK'
<1>1. /\ k' = [k EXCEPT ![p] = [User EXCEPT !.pc = "create", !.ip = i]]
      /\ lock[i] = Null /\ lock' = [lock EXCEPT ![i] = p]
      /\ inode' = [inode EXCEPT ![i] = Empty]
      /\ dinode' = [dinode EXCEPT ![i] = Empty] /\ file' = file
      /\ ~dinode[i].used /\ k[p].pc = "user"
  BY DEF Create, Begin, Become, At, Empty
<1>2. Turn(p)
  BY <1>1, Bounds DEF Turn, Typed, TypedCalls, TypedFiles, TypedInodes
<1>3. inode'[i] = Empty /\ dinode'[i] = Empty /\ lock'[i] = p
      /\ k'[p] = [User EXCEPT !.pc = "create", !.ip = i]
  BY <1>1 DEF Typed, TypedCalls, TypedFiles, TypedInodes
<1>4. CallOK(p)'
  BY <1>3 DEF CallOK, User, OnFile, Freeing, Null
<1>5. InodeOK(i)'
  BY <1>3, Bounds DEF InodeOK, Empty, FreeInode, Null
<1>6. \A j \in Inums : lock'[j] = p => k'[p].ip = j
  <2>1. k'[p].ip = i
    BY <1>3 DEF User
  <2>2. \A j \in Inums : lock'[j] = p => j = i
    BY <1>1, Holder DEF Typed, TypedFiles
  <2> QED BY <2>1, <2>2
<1> QED
  BY <1>1, <1>2, <1>4, <1>5, <1>6, TurnCalls DEF Typed, TypedInodes

\* It unlocks it with a link.
LEMMA CreateLinkedCalls ==
  ASSUME Assumptions, Typed, CallsOK, NEW p \in Procs, CreateLinked(p)
  PROVE  CallsOK'
<1>1. PICK i \in Inums : i = k[p].ip /\ lock[i] = p /\ inode[i] = Empty
  BY Holder DEF CreateLinked, At, CallOK
<1> DEFINE d == [inode[i] EXCEPT !.nlink = 1]
<1>2. /\ k' = [k EXCEPT ![p] = User] /\ lock' = [lock EXCEPT ![i] = Null]
      /\ inode' = [inode EXCEPT ![i] = d]
      /\ dinode' = [dinode EXCEPT ![i] = d] /\ file' = file
  BY <1>1 DEF CreateLinked, Unlock, Become, Typed, TypedInodes
<1>3. d.used /\ d.addrs = [n \in 0..NDIRECT |-> Null]
  BY <1>1 DEF Empty, FreeInode
<1> HIDE DEF d
<1>4. Turn(p)
  BY <1>1, <1>2, Bounds DEF Turn, Typed, TypedCalls, TypedFiles, TypedInodes
<1>5. inode'[i] = d /\ dinode'[i] = d /\ lock'[i] = Null /\ k'[p] = User
  BY <1>1, <1>2 DEF Typed, TypedCalls, TypedFiles, TypedInodes
<1>6. CallOK(p)'
  BY <1>5, UserOK
<1>7. InodeOK(i)'
  BY <1>3, <1>5, Bounds DEF InodeOK
<1>8. \A j \in Inums : lock'[j] # p
  BY <1>1, <1>2, <1>5, Holder, Bounds DEF Typed, TypedFiles
<1> QED
  BY <1>1, <1>2, <1>4, <1>6, <1>7, <1>8, TurnCalls DEF Typed, TypedInodes

\* open() finds an inode that is in use.
LEMMA OpenCalls ==
  ASSUME Assumptions, Typed, CallsOK, NEW f \in Files, NEW i \in Inums,
         Open(f, i)
  PROVE  CallsOK'
<1>1. /\ file[f].ip = Null /\ lock[i] = Null /\ dinode[i].nlink > 0
      /\ file' = [file EXCEPT ![f] = [ip |-> i, off |-> 0]]
      /\ inode' = inode /\ dinode' = dinode /\ k' = k /\ lock' = lock
  BY DEF Open, diskVars
<1>2. inode[i].used
  BY <1>1, Constants DEF CallsOK, InodeOK, FreeInode
<1>3. \A j \in Inums : Opened(j)' => Opened(j) \/ j = i
  BY <1>1 DEF Opened, Typed, TypedFiles
<1>4. ASSUME NEW j \in Inums
      PROVE  InodeOK(j)'
  BY <1>1, <1>2, <1>3 DEF CallsOK, InodeOK
<1>5. ASSUME NEW p \in Procs
      PROVE  CallOK(p)'
  <2>1. CallOK(p) /\ bn(p)' = bn(p) /\ Table(p)' = Table(p)
    BY <1>1 DEF CallsOK, bn, Table
  <2>2. OnFile(k[p]) => file'[k[p].f].ip = file[k[p].f].ip
    BY <1>1, <2>1, Holder, Bounds DEF CallOK, OnFile, Typed, TypedFiles, Call
  <2>3. k[p].pc # "user" => k[p].ip # i
    BY <1>1, Holder, Bounds
  <2>4. Freeing(k[p]) => ~Opened(k[p].ip)'
    <3> SUFFICES ASSUME Freeing(k[p])
                 PROVE  ~Opened(k[p].ip)'
      OBVIOUS
    <3>1. PICK j \in Inums : j = k[p].ip /\ j # i
      BY <2>3, Holder DEF Freeing
    <3>2. ~Opened(j)
      BY <2>1, <3>1 DEF CallOK
    <3> QED BY <1>1, <1>3, <3>1, <3>2
  <2> QED BY <1>1, <2>1, <2>2, <2>4 DEF CallOK
<1> QED BY <1>1, <1>4, <1>5 DEF CallsOK, LocksOK

\* close() truncates only what is in no open file.
LEMMA CloseCalls ==
  ASSUME Assumptions, Typed, CallsOK, NEW p \in Procs, NEW f \in Files,
         Close(p, f)
  PROVE  CallsOK'
<1>1. PICK i \in Inums : i = file[f].ip
  BY DEF Close, Typed, TypedFiles
<1>2. /\ \A q \in Procs : k[q].f # f
      /\ file' = [file EXCEPT ![f] = Closed]
      /\ inode' = inode /\ dinode' = dinode
  BY DEF Close, diskVars
<1>3. k[p].pc = "user"
  BY DEF Close, Begin, At
<1>4. CASE inode[i].nlink = 0 /\ LastRef(p, i, file')
  <2>1. /\ lock[i] = Null /\ lock' = [lock EXCEPT ![i] = p]
        /\ k' = [k EXCEPT ![p] = Trunc(i)]
    BY <1>1, <1>4 DEF Close, Begin, Become
  <2>2. Turn(p)
    BY <1>2, <2>1, Bounds
    DEF Turn, Typed, TypedCalls, TypedFiles, TypedInodes, Closed
  <2>3. k'[p] = Trunc(i) /\ lock'[i] = p
    BY <2>1 DEF Typed, TypedCalls, TypedFiles
  <2>4. ~Opened(i)'
    BY <1>4 DEF LastRef, Opened
  <2>5. inode[i].used
    BY <1>1 DEF CallsOK, InodeOK, Opened
  <2>6. CallOK(p)'
    BY <1>2, <1>4, <2>3, <2>4, <2>5
    DEF CallOK, Trunc, User, OnFile, Freeing, Null
  <2>7. \A j \in Inums : lock'[j] = p => k'[p].ip = j
    <3>1. k'[p].ip = i
      BY <2>3 DEF Trunc, User
    <3>2. \A j \in Inums : lock'[j] = p => j = i
      BY <1>3, <2>1, Holder DEF Typed, TypedFiles
    <3> QED BY <3>1, <3>2
  <2> QED BY <1>2, <2>2, <2>6, <2>7, TurnQuiet
<1>5. CASE ~(inode[i].nlink = 0 /\ LastRef(p, i, file'))
  <2>1. lock' = lock /\ k' = k
    BY <1>1, <1>5 DEF Close
  <2>2. Turn(p)
    BY <1>2, <2>1, Bounds
    DEF Turn, Typed, TypedCalls, TypedFiles, TypedInodes, Closed
  <2>3. CallOK(p)'
    BY <1>3, <2>1, Holder, UserOK DEF CallOK
  <2>4. \A j \in Inums : lock'[j] # p
    BY <1>3, <2>1, Holder
  <2> QED BY <1>2, <2>2, <2>3, <2>4, TurnQuiet
<1> QED BY <1>4, <1>5

\* unlink() locks an inode with a link.
LEMMA UnlinkCalls ==
  ASSUME Assumptions, Typed, CallsOK, NEW p \in Procs, NEW i \in Inums,
         Unlink(p, i)
  PROVE  CallsOK'
<1> DEFINE d == [inode[i] EXCEPT !.nlink = 0]
<1>1. /\ k' = [k EXCEPT ![p] = [User EXCEPT !.pc = "put", !.ip = i]]
      /\ lock[i] = Null /\ lock' = [lock EXCEPT ![i] = p]
      /\ inode' = [inode EXCEPT ![i] = d]
      /\ dinode' = [dinode EXCEPT ![i] = d] /\ file' = file
      /\ inode[i].nlink > 0 /\ k[p].pc = "user"
  BY DEF Unlink, Begin, Become, At, Typed, TypedInodes
<1>2. inode[i].used
  BY <1>1, Constants DEF CallsOK, InodeOK, FreeInode
<1>3. d.used /\ d.nlink = 0
  BY <1>2 DEF Typed, TypedInodes, Inode
<1> HIDE DEF d
<1>4. Turn(p)
  BY <1>1, Bounds DEF Turn, Typed, TypedCalls, TypedFiles, TypedInodes
<1>5. inode'[i] = d /\ dinode'[i] = d /\ lock'[i] = p
      /\ k'[p] = [User EXCEPT !.pc = "put", !.ip = i]
  BY <1>1 DEF Typed, TypedCalls, TypedFiles, TypedInodes
<1>6. CallOK(p)'
  BY <1>3, <1>5 DEF CallOK, User, OnFile, Freeing, Null
<1>7. InodeOK(i)'
  BY <1>3, <1>5, Bounds DEF InodeOK
<1>8. \A j \in Inums : lock'[j] = p => k'[p].ip = j
  <2>1. k'[p].ip = i
    BY <1>5 DEF User
  <2>2. \A j \in Inums : lock'[j] = p => j = i
    BY <1>1, Holder DEF Typed, TypedFiles
  <2> QED BY <2>1, <2>2
<1> QED
  BY <1>1, <1>4, <1>6, <1>7, <1>8, TurnCalls DEF Typed, TypedInodes

\* A call on a file whose inode nobody changes ends.
LEMMA UnlockCalls ==
  ASSUME Assumptions, Typed, CallsOK, NEW p \in Procs, NEW i \in Inums,
         i = k[p].ip, k[p].pc # "user", Unlock(p),
         \A f \in Files : file'[f].ip = file[f].ip
  PROVE  /\ Turn(p) <=> \A j \in Inums : lock[j] \in Procs \ {p} =>
                 inode'[j] = inode[j] /\ dinode'[j] = dinode[j]
         /\ CallOK(p)' /\ \A j \in Inums : lock'[j] # p
<1>1. lock[i] = p /\ \A j \in Inums : lock[j] = p => j = i
  BY Holder
<1>2. k' = [k EXCEPT ![p] = User] /\ lock' = [lock EXCEPT ![i] = Null]
  BY DEF Unlock, Become
<1>3. k'[p] = User /\ lock'[i] = Null
  BY <1>2 DEF Typed, TypedCalls, TypedFiles
<1>4. \A j \in Inums : lock'[j] # p
  BY <1>1, <1>2, <1>3, Bounds DEF Typed, TypedFiles
<1>5. \A j \in Inums : lock'[j] \in {lock[j], Null}
      /\ (j # i => lock'[j] = lock[j])
  BY <1>2 DEF Typed, TypedFiles
<1>6. \A q \in Procs \ {p} : k'[q] = k[q]
  BY <1>2 DEF Typed, TypedCalls
<1> QED BY <1>1, <1>3, <1>4, <1>5, <1>6, UserOK DEF Turn

\* The iput() of unlink() truncates or unlocks.
LEMMA UnlinkPutCalls ==
  ASSUME Assumptions, Typed, CallsOK, NEW p \in Procs, UnlinkPut(p)
  PROVE  CallsOK'
<1>1. PICK i \in Inums : i = k[p].ip /\ lock[i] = p /\ inode[i].nlink = 0
                         /\ inode[i].used /\ k[p].pc # "user"
  BY Holder DEF UnlinkPut, At, CallOK
<1>2. inode' = inode /\ dinode' = dinode /\ file' = file
  BY DEF UnlinkPut, diskVars
<1>3. CASE LastRef(p, i, file)
  <2>1. k' = [k EXCEPT ![p] = Trunc(i)] /\ lock' = lock
    BY <1>1, <1>3 DEF UnlinkPut, Become
  <2>2. Turn(p)
    BY <1>2, <2>1 DEF Turn, Typed, TypedCalls
  <2>3. k'[p] = Trunc(i) /\ ~Opened(i)'
    BY <1>2, <1>3, <2>1 DEF Typed, TypedCalls, LastRef, Opened
  <2>4. CallOK(p)'
    <3>1. lock'[i] = p /\ inode'[i].used /\ inode'[i].nlink = 0
      BY <1>1, <1>2, <2>1
    <3> QED
      BY <2>3, <3>1 DEF CallOK, Trunc, User, OnFile, Freeing, Null
  <2>5. \A j \in Inums : lock'[j] = p => k'[p].ip = j
    BY <1>1, <2>1, <2>3, Holder DEF Trunc, User
  <2> QED BY <1>2, <2>2, <2>4, <2>5, TurnQuiet
<1>4. CASE ~LastRef(p, i, file)
  <2>1. Unlock(p)
    BY <1>1, <1>4 DEF UnlinkPut
  <2> QED BY <1>1, <1>2, <2>1, UnlockCalls, TurnQuiet
<1> QED BY <1>3, <1>4

\* A call goes on, as g.
LEMMA GoingCalls ==
  ASSUME Assumptions, Typed, CallsOK, NEW p \in Procs, NEW i \in Inums,
         i = k[p].ip, k[p].pc # "user", NEW g, Become(p, g), g.ip = i,
         lock' = lock, file' = file,
         \A j \in Inums \ {i} : inode'[j] = inode[j] /\ dinode'[j] = dinode[j]
  PROVE  /\ Turn(p) /\ k'[p] = g /\ lock'[i] = p
         /\ \A j \in Inums : lock'[j] = p => k'[p].ip = j
<1>1. lock[i] = p /\ \A j \in Inums : lock[j] = p => j = i
  BY Holder
<1>2. k'[p] = g /\ \A q \in Procs \ {p} : k'[q] = k[q]
  BY DEF Become, Typed, TypedCalls
<1>3. \A j \in Inums : lock[j] \in Procs \ {p} => j # i
  BY <1>1
<1> QED BY <1>1, <1>2, <1>3 DEF Turn

\* write() begins with its file's inode locked.
LEMMA WriteCalls ==
  ASSUME Assumptions, Typed, CallsOK, NEW p \in Procs, NEW f \in Files,
         NEW n \in Sizes, Write(p, f, n)
  PROVE  CallsOK'
<1>1. PICK i \in Inums : i = file[f].ip
  BY DEF Write, Typed, TypedFiles
<1> DEFINE off == file[f].off
           len == Least(n, Limit - off)
           g == [User EXCEPT !.pc = "write", !.f = f, !.ip = i, !.off = off,
                 !.n = len]
<1>2. /\ k' = [k EXCEPT ![p] = g] /\ lock[i] = Null /\ k[p].pc = "user"
      /\ lock' = [lock EXCEPT ![i] = p] /\ file' = file /\ inode' = inode
      /\ dinode' = dinode /\ off <= inode[i].size
  BY <1>1 DEF Write, Begin, Become, At, diskVars, Limit
<1>3. len \in Nat
  BY Bounds DEF Typed, TypedFiles, Least, Assumptions, SizeAssumption
<1> HIDE DEF off, len
<1>4. g.pc = "write" /\ g.f = f /\ g.ip = i /\ g.off = off /\ g.n = len
      /\ g.tot = 0 /\ g.new = Null
  BY DEF User
<1> HIDE DEF g
<1>5. k'[p] = g /\ lock'[i] = p /\ file'[f].ip = i
  BY <1>1, <1>2 DEF Typed, TypedCalls, TypedFiles
<1>6. Turn(p)
  BY <1>2, Bounds DEF Turn, Typed, TypedCalls, TypedFiles
<1>7. CallOK(p)'
  BY <1>2, <1>3, <1>4, <1>5, Bounds DEF CallOK, OnFile, Freeing
<1>8. \A j \in Inums : lock'[j] = p => k'[p].ip = j
  BY <1>2, <1>4, <1>5, Holder DEF Typed, TypedFiles
<1> QED BY <1>2, <1>6, <1>7, <1>8, TurnQuiet

\* read() begins likewise, and ends within the file.
LEMMA ReadCalls ==
  ASSUME Assumptions, Typed, CallsOK, NEW p \in Procs, NEW f \in Files,
         NEW n \in Sizes, Read(p, f, n)
  PROVE  CallsOK'
<1>1. PICK i \in Inums : i = file[f].ip
  BY DEF Read, Typed, TypedFiles
<1> DEFINE off == file[f].off
           len == Least(n, inode[i].size - off)
           g == [User EXCEPT !.pc = "read", !.f = f, !.ip = i, !.off = off,
                 !.n = len]
<1>2. /\ k' = [k EXCEPT ![p] = g] /\ lock[i] = Null /\ k[p].pc = "user"
      /\ lock' = [lock EXCEPT ![i] = p] /\ file' = file /\ inode' = inode
      /\ dinode' = dinode /\ off <= inode[i].size
  BY <1>1 DEF Read, Begin, Become, At, diskVars
<1>3. len \in Nat /\ off + len <= inode[i].size
  <2>1. off \in Nat /\ inode[i].size \in Nat /\ n \in Nat
    <3>1. inode[i].size \in 0..Limit
      BY DEF Typed, TypedInodes, Inode, Limit
    <3>2. file[f].off \in 0..Limit
      BY DEF Typed, TypedFiles
    <3>3. n \in Nat
      BY DEF Assumptions, SizeAssumption
    <3> QED BY <3>1, <3>2, <3>3, Bounds
  <2> HIDE DEF off
  <2> QED BY <1>2, <2>1 DEF Least
<1> HIDE DEF off, len
<1>4. g.pc = "read" /\ g.f = f /\ g.ip = i /\ g.off = off /\ g.n = len
      /\ g.tot = 0 /\ g.new = Null
  BY DEF User
<1> HIDE DEF g
<1>5. k'[p] = g /\ lock'[i] = p /\ file'[f].ip = i /\ inode'[i] = inode[i]
  BY <1>1, <1>2 DEF Typed, TypedCalls, TypedFiles
<1>6. Turn(p)
  BY <1>2, Bounds DEF Turn, Typed, TypedCalls, TypedFiles
<1>7. CallOK(p)'
  BY <1>2, <1>3, <1>4, <1>5, Bounds DEF CallOK, OnFile, Freeing
<1>8. \A j \in Inums : lock'[j] = p => k'[p].ip = j
  BY <1>2, <1>4, <1>5, Holder DEF Typed, TypedFiles
<1> QED BY <1>2, <1>6, <1>7, <1>8, TurnQuiet

\* bmap() changes the inode in memory, ahead of the disk.
LEMMA BmapInodeCalls ==
  ASSUME Assumptions, Typed, CallsOK, NEW p \in Procs, BmapInode(p)
  PROVE  CallsOK'
<1>1. PICK i \in Inums : /\ i = k[p].ip /\ lock[i] = p /\ k[p].pc = "write"
                         /\ CallOK(p)
  BY Holder DEF BmapInode, More, At
<1> DEFINE n == IF bn(p) < NDIRECT THEN bn(p) ELSE NDIRECT
<1>2. PICK b \in Numbers : inode' = [inode EXCEPT ![i].addrs[n] = b]
  BY <1>1 DEF BmapInode
<1>3. inode[i].addrs[n] = Null
  BY <1>1 DEF BmapInode
<1>4. dinode' = dinode /\ lock' = lock /\ file' = file /\ k' = k
  BY DEF BmapInode, Goes
<1> HIDE DEF n
<1>5. /\ \A j \in Inums \ {i} : inode'[j] = inode[j]
      /\ inode'[i] = [inode[i] EXCEPT !.addrs[n] = b]
  BY <1>2 DEF Typed, TypedInodes
<1>6. Turn(p)
  BY <1>1, <1>4, <1>5, Holder DEF Turn
<1>7. CallOK(p)'
  <2>1. inode'[i].size = inode[i].size
    BY <1>5 DEF Typed, TypedInodes, Inode
  <2> QED BY <1>1, <1>4, <2>1 DEF CallOK, Freeing, OnFile
<1>8. InodeOK(i)'
  <2>1. InodeOK(i) /\ inode[i] \in Inode
    BY DEF CallsOK, Typed, TypedInodes
  <2>2. inode[i].used
    BY <1>1, <2>1 DEF CallOK, OnFile, InodeOK, Opened, Typed, TypedCalls, Call
  <2>3. inode'[i].used = inode[i].used /\ inode'[i].nlink = inode[i].nlink
        /\ inode'[i].size = inode[i].size
    BY <1>5, <2>1 DEF Inode
  <2>4. \A x \in 0..NDIRECT : inode'[i].addrs[x] = inode[i].addrs[x]
                              \/ inode[i].addrs[x] = Null
    BY <1>3, <1>5, <2>1 DEF Inode
  <2> QED BY <1>4, <2>1, <2>2, <2>3, <2>4 DEF InodeOK
<1>9. \A j \in Inums : lock'[j] = p => k'[p].ip = j
  BY <1>4, Holder
<1> QED BY <1>4, <1>5, <1>6, <1>7, <1>8, <1>9, TurnCalls

\* bmap() holds a block between two writes.
LEMMA BmapTableCalls ==
  ASSUME Assumptions, Typed, CallsOK, NEW p \in Procs, BmapTable(p)
  PROVE  CallsOK'
<1>1. PICK i \in Inums : /\ i = k[p].ip /\ k[p].pc = "write"
                         /\ CallOK(p) /\ k[p] \in Call
  BY Holder DEF BmapTable, More, At
<1>2. PICK b \in Numbers : Become(p, [k[p] EXCEPT !.pc = "table", !.new = b])
  BY DEF BmapTable
<1>3. /\ dinode' = dinode /\ lock' = lock /\ file' = file /\ inode' = inode
      /\ bn(p) >= NDIRECT /\ Table(p) # Null /\ k[p].tot < k[p].n
  BY DEF BmapTable, Goes, More
<1> DEFINE g == [k[p] EXCEPT !.pc = "table", !.new = b]
<1>4. g.pc = "table" /\ g.f = k[p].f /\ g.ip = i /\ g.off = k[p].off
      /\ g.n = k[p].n /\ g.tot = k[p].tot /\ g.new = b
  BY <1>1 DEF Call
<1>5. Become(p, g)
  BY <1>2
<1> HIDE DEF g
<1>6. /\ Turn(p) /\ k'[p] = g /\ lock'[i] = p
      /\ \A j \in Inums : lock'[j] = p => k'[p].ip = j
  BY <1>1, <1>3, <1>4, <1>5, GoingCalls
<1>7. bn(p)' = bn(p) /\ Table(p)' = Table(p)
  BY <1>1, <1>3, <1>4, <1>6 DEF bn, Table
<1>8. CallOK(p)'
  BY <1>1, <1>3, <1>4, <1>6, <1>7, Bounds DEF CallOK, OnFile, Freeing
<1> QED BY <1>3, <1>6, <1>8, TurnQuiet

\* It has none any more when the table is written.
LEMMA BmapTableWriteCalls ==
  ASSUME Assumptions, Typed, CallsOK, NEW p \in Procs, BmapTableWrite(p)
  PROVE  CallsOK'
<1>1. PICK i \in Inums : /\ i = k[p].ip /\ k[p].pc = "table"
                         /\ CallOK(p) /\ k[p] \in Call
  BY Holder DEF BmapTableWrite, At
<1> DEFINE g == [k[p] EXCEPT !.pc = "write", !.new = Null]
<1>2. Become(p, g)
  BY DEF BmapTableWrite
<1>3. /\ dinode' = dinode /\ lock' = lock /\ file' = file /\ inode' = inode
  BY DEF BmapTableWrite, Goes
<1>4. g.pc = "write" /\ g.f = k[p].f /\ g.ip = i /\ g.off = k[p].off
      /\ g.n = k[p].n /\ g.tot = k[p].tot /\ g.new = Null
  BY <1>1 DEF Call
<1> HIDE DEF g
<1>5. /\ Turn(p) /\ k'[p] = g /\ lock'[i] = p
      /\ \A j \in Inums : lock'[j] = p => k'[p].ip = j
  BY <1>1, <1>2, <1>3, <1>4, GoingCalls
<1>6. CallOK(p)'
  BY <1>1, <1>3, <1>4, <1>5 DEF CallOK, OnFile, Freeing
<1> QED BY <1>3, <1>5, <1>6, TurnQuiet

\* The panic leaves every call where it is.
LEMMA OutOfBlocksCalls ==
  ASSUME Assumptions, Typed, CallsOK,
         UNCHANGED <<inode, dinode, lock, file, k>>
  PROVE  CallsOK'
BY DEF CallsOK, CallOK, LocksOK, InodeOK, Opened, bn, Table

\* A step of writei() stays within the call.
LEMMA WriteBlockCalls ==
  ASSUME Assumptions, Typed, CallsOK, NEW p \in Procs, WriteBlock(p)
  PROVE  CallsOK'
<1>1. PICK i \in Inums : /\ i = k[p].ip /\ k[p].pc = "write"
                         /\ CallOK(p) /\ k[p] \in Call /\ k[p].tot < k[p].n
  BY Holder DEF WriteBlock, More, At
<1> DEFINE tot == k[p].tot + m(p) g == [k[p] EXCEPT !.tot = tot]
<1>2. Become(p, g)
  BY DEF WriteBlock
<1>3. /\ dinode' = dinode /\ lock' = lock /\ file' = file /\ inode' = inode
  BY DEF WriteBlock, Goes
<1>4. tot <= k[p].n
  BY <1>1, Parts DEF Typed
<1> HIDE DEF tot
<1>5. g.pc = "write" /\ g.f = k[p].f /\ g.ip = i /\ g.off = k[p].off
      /\ g.n = k[p].n /\ g.tot = tot /\ g.new = k[p].new
  BY <1>1 DEF Call
<1> HIDE DEF g
<1>6. /\ Turn(p) /\ k'[p] = g /\ lock'[i] = p
      /\ \A j \in Inums : lock'[j] = p => k'[p].ip = j
  BY <1>1, <1>2, <1>3, <1>5, GoingCalls
<1>7. CallOK(p)'
  BY <1>1, <1>3, <1>4, <1>5, <1>6 DEF CallOK, OnFile, Freeing
<1> QED BY <1>3, <1>6, <1>7, TurnQuiet

\* A step of readi() stays within the call.
LEMMA ReadBlockCalls ==
  ASSUME Assumptions, Typed, CallsOK, NEW p \in Procs, ReadBlock(p)
  PROVE  CallsOK'
<1>1. PICK i \in Inums : /\ i = k[p].ip /\ k[p].pc = "read"
                         /\ CallOK(p) /\ k[p] \in Call /\ k[p].tot < k[p].n
  BY Holder DEF ReadBlock, More, At
<1> DEFINE tot == k[p].tot + m(p)
           got == k[p].got \o [u \in 1..m(p) |-> blk[Addr(p)][From(p) + u - 1]]
           g == [k[p] EXCEPT !.tot = tot, !.got = got]
<1>2. Become(p, g)
  BY DEF ReadBlock
<1>3. /\ dinode' = dinode /\ lock' = lock /\ file' = file /\ inode' = inode
  BY DEF ReadBlock, Goes, diskVars
<1>4. tot <= k[p].n
  BY <1>1, Parts DEF Typed
<1> HIDE DEF tot, got
<1>5. g.pc = "read" /\ g.f = k[p].f /\ g.ip = i /\ g.off = k[p].off
      /\ g.n = k[p].n /\ g.tot = tot /\ g.new = k[p].new
  BY <1>1 DEF Call
<1> HIDE DEF g
<1>6. /\ Turn(p) /\ k'[p] = g /\ lock'[i] = p
      /\ \A j \in Inums : lock'[j] = p => k'[p].ip = j
  BY <1>1, <1>2, <1>3, <1>5, GoingCalls
<1>7. CallOK(p)'
  BY <1>1, <1>3, <1>4, <1>5, <1>6 DEF CallOK, OnFile, Freeing
<1> QED BY <1>3, <1>6, <1>7, TurnQuiet

\* The end of write(): memory and disk agree on the size.
LEMMA WriteDoneCalls ==
  ASSUME Assumptions, Typed, CallsOK, NEW p \in Procs, WriteDone(p)
  PROVE  CallsOK'
<1>1. PICK i \in Inums : /\ i = k[p].ip /\ k[p].pc = "write"
                         /\ CallOK(p) /\ lock[i] = p
  BY Holder DEF WriteDone, At
<1> DEFINE end == k[p].off + k[p].n
           d == [inode[i] EXCEPT !.size = end]
<1>2. /\ Unlock(p) /\ file' = [file EXCEPT ![k[p].f].off = end]
      /\ \/ UNCHANGED <<inode, dinode>>
         \/ /\ inode' = [inode EXCEPT ![i] = d]
            /\ dinode' = [dinode EXCEPT ![i] = d]
  BY <1>1 DEF WriteDone, Typed, TypedInodes
<1>3. InodeOK(i) /\ inode[i].used
  BY <1>1 DEF CallsOK, CallOK, OnFile, InodeOK, Opened, Typed, TypedCalls, Call
<1>4. d.used
  BY <1>3 DEF Typed, TypedInodes, Inode
<1> HIDE DEF d, end
<1>5. \A f \in Files : file'[f].ip = file[f].ip
  BY <1>2 DEF Typed, TypedFiles
<1>6. \A j \in Inums \ {i} : inode'[j] = inode[j] /\ dinode'[j] = dinode[j]
  BY <1>2 DEF Typed, TypedInodes
<1>7. Turn(p) /\ CallOK(p)' /\ \A j \in Inums : lock'[j] # p
  <2>1. \A j \in Inums : lock[j] \in Procs \ {p} => j # i
    BY <1>1
  <2> QED BY <1>1, <1>2, <1>5, <1>6, <2>1, UnlockCalls
<1>8. InodeOK(i)'
  <2>1. CASE UNCHANGED <<inode, dinode>>
    BY <1>3, <1>7, <2>1, InodeSame, TurnOpened
  <2>2. CASE inode'[i] = d /\ dinode'[i] = d
    BY <1>4, <2>2, Bounds DEF InodeOK
  <2> QED BY <1>2, <2>1, <2>2 DEF Typed, TypedInodes
<1> QED BY <1>6, <1>7, <1>8, TurnCalls

\* The end of read() changes no inode.
LEMMA ReadDoneCalls ==
  ASSUME Assumptions, Typed, CallsOK, NEW p \in Procs, ReadDone(p)
  PROVE  CallsOK'
<1>1. PICK i \in Inums : i = k[p].ip /\ k[p].pc # "user"
  BY Holder DEF ReadDone, At
<1>2. \A f \in Files : file'[f].ip = file[f].ip
  <2> DEFINE end == k[p].off + k[p].n
  <2>1. file' = [file EXCEPT ![k[p].f].off = end]
    BY DEF ReadDone
  <2> HIDE DEF end
  <2> QED BY <2>1 DEF Typed, TypedFiles
<1>3. Unlock(p) /\ inode' = inode /\ dinode' = dinode
  BY DEF ReadDone, diskVars
<1> QED BY <1>1, <1>2, <1>3, UnlockCalls, TurnQuiet

\* itrunc() goes on, at a slot.
LEMMA ZeroCalls ==
  ASSUME Assumptions, Typed, CallsOK, NEW p \in Procs, Zero(p)
  PROVE  CallsOK'
<1>1. PICK i \in Inums : /\ i = k[p].ip /\ k[p].pc = "bfree"
                         /\ CallOK(p) /\ k[p] \in Call
  BY Holder DEF Zero, At
<1>2. PICK n \in Slots : Become(p, [k[p] EXCEPT !.pc = "clear", !.at = n])
  BY DEF Zero, Left
<1> DEFINE g == [k[p] EXCEPT !.pc = "clear", !.at = n]
<1>3. /\ dinode' = dinode /\ lock' = lock /\ file' = file /\ inode' = inode
  BY DEF Zero, Goes
<1>4. /\ g.pc = "clear" /\ g.f = k[p].f /\ g.ip = i /\ g.at = n
      /\ g.new = k[p].new
  BY <1>1 DEF Call
<1>5. Become(p, g)
  BY <1>2
<1> HIDE DEF g
<1>6. /\ Turn(p) /\ k'[p] = g /\ lock'[i] = p
      /\ \A j \in Inums : lock'[j] = p => k'[p].ip = j
  BY <1>1, <1>3, <1>4, <1>5, GoingCalls
<1>7. ~Opened(i)'
  BY <1>1, <1>6, TurnOpened DEF CallOK, Freeing
<1>8. CallOK(p)'
  BY <1>1, <1>3, <1>4, <1>6, <1>7 DEF CallOK, OnFile, Freeing
<1> QED BY <1>3, <1>6, <1>8, TurnQuiet

\* bfree() goes back to itrunc().
LEMMA ClearCalls ==
  ASSUME Assumptions, Typed, CallsOK, NEW p \in Procs, Clear(p)
  PROVE  CallsOK'
<1>1. PICK i \in Inums : /\ i = k[p].ip /\ k[p].pc = "clear"
                         /\ CallOK(p) /\ k[p] \in Call
  BY Holder DEF Clear, At
<1> DEFINE g == [k[p] EXCEPT !.pc = "bfree", !.at = k[p].at + 1]
<1>2. /\ dinode' = dinode /\ lock' = lock /\ file' = file /\ inode' = inode
      /\ (Become(p, g) \/ k' = k)
  BY DEF Clear, Goes, Panic, diskVars
<1>3. g.pc = "bfree" /\ g.f = k[p].f /\ g.ip = i /\ g.new = k[p].new
  BY <1>1 DEF Call
<1> HIDE DEF g
<1>4. CASE k' = k
  BY <1>2, <1>4, OutOfBlocksCalls
<1>5. CASE Become(p, g)
  <2>1. /\ Turn(p) /\ k'[p] = g /\ lock'[i] = p
        /\ \A j \in Inums : lock'[j] = p => k'[p].ip = j
    BY <1>1, <1>2, <1>3, <1>5, GoingCalls
  <2>2. ~Opened(i)'
    BY <1>1, <2>1, TurnOpened DEF CallOK, Freeing
  <2>3. CallOK(p)'
    BY <1>1, <1>2, <1>3, <2>1, <2>2 DEF CallOK, OnFile, Freeing
  <2> QED BY <1>2, <2>1, <2>3, TurnQuiet
<1> QED BY <1>2, <1>4, <1>5

\* After itrunc() the inode is as create() makes one.
LEMMA EmptiedCalls ==
  ASSUME Assumptions, Typed, CallsOK, NEW p \in Procs, Emptied(p)
  PROVE  CallsOK'
<1>1. PICK i \in Inums : /\ i = k[p].ip /\ k[p].pc = "bfree"
                         /\ CallOK(p) /\ k[p] \in Call /\ lock[i] = p
  BY Holder DEF Emptied, At
<1> DEFINE g == [k[p] EXCEPT !.pc = "free"]
<1>2. /\ lock' = lock /\ file' = file /\ Become(p, g)
      /\ inode' = [inode EXCEPT ![i] = Empty]
      /\ dinode' = [dinode EXCEPT ![i] = Empty]
  BY <1>1 DEF Emptied, Goes, Empty, Typed, TypedInodes
<1>3. g.pc = "free" /\ g.f = k[p].f /\ g.ip = i /\ g.new = k[p].new
  BY <1>1 DEF Call
<1> HIDE DEF g
<1>4. /\ inode'[i] = Empty /\ dinode'[i] = Empty
      /\ \A j \in Inums \ {i} : inode'[j] = inode[j] /\ dinode'[j] = dinode[j]
  BY <1>2 DEF Typed, TypedInodes
<1>5. /\ Turn(p) /\ k'[p] = g /\ lock'[i] = p
      /\ \A j \in Inums : lock'[j] = p => k'[p].ip = j
  BY <1>1, <1>2, <1>3, <1>4, GoingCalls
<1>6. ~Opened(i)'
  BY <1>1, <1>5, TurnOpened DEF CallOK, Freeing
<1>7. CallOK(p)'
  BY <1>1, <1>3, <1>4, <1>5, <1>6
  DEF CallOK, OnFile, Freeing, Empty, FreeInode
<1>8. InodeOK(i)'
  BY <1>4, <1>6 DEF InodeOK, Empty, FreeInode
<1> QED BY <1>4, <1>5, <1>7, <1>8, TurnCalls

\* After iput() the inode is free.
LEMMA FreedCalls ==
  ASSUME Assumptions, Typed, CallsOK, NEW p \in Procs, Freed(p)
  PROVE  CallsOK'
<1>1. PICK i \in Inums : /\ i = k[p].ip /\ k[p].pc = "free"
                         /\ CallOK(p) /\ lock[i] = p
  BY Holder DEF Freed, At
<1>2. /\ Unlock(p) /\ file' = file
      /\ inode' = [inode EXCEPT ![i] = FreeInode]
      /\ dinode' = [dinode EXCEPT ![i] = FreeInode]
  BY <1>1 DEF Freed
<1>3. /\ inode'[i] = FreeInode /\ dinode'[i] = FreeInode
      /\ \A j \in Inums \ {i} : inode'[j] = inode[j] /\ dinode'[j] = dinode[j]
  BY <1>2 DEF Typed, TypedInodes
<1>4. Turn(p) /\ CallOK(p)' /\ \A j \in Inums : lock'[j] # p
  <2>1. \A j \in Inums : lock[j] \in Procs \ {p} => j # i
    BY <1>1
  <2> QED BY <1>1, <1>2, <1>3, <2>1, UnlockCalls
<1>5. ~Opened(i)'
  BY <1>1, <1>4, TurnOpened DEF CallOK, Freeing
<1>6. InodeOK(i)'
  BY <1>3, <1>5 DEF InodeOK, FreeInode
<1> QED BY <1>3, <1>4, <1>6, TurnCalls

\* After a power failure no call and no lock is left, and memory is the disk.
LEMMA CrashCalls ==
  ASSUME Assumptions, Typed, CallsOK, Crash
  PROVE  CallsOK'
<1>1. /\ inode' = dinode /\ lock' = [i \in Inums |-> Null]
      /\ file' = [f \in Files |-> Closed] /\ k' = [p \in Procs |-> User]
      /\ dinode' = dinode
  BY DEF Crash, diskVars
<1>2. ASSUME NEW i \in Inums
      PROVE  InodeOK(i)'
  <2>1. ~Opened(i)'
    BY <1>1, Bounds DEF Opened, Closed
  <2>2. ~dinode[i].used => dinode[i] = FreeInode
    <3>1. InodeOK(i) /\ inode[i] \in Inode /\ dinode[i] \in Inode
      BY DEF CallsOK, Typed, TypedInodes
    <3>2. ASSUME ~dinode[i].used
          PROVE  dinode[i] = FreeInode
      <4>1. inode[i] = FreeInode
        BY <3>1, <3>2 DEF InodeOK
      <4>2. \A n \in 0..NDIRECT : dinode[i].addrs[n] = Null
        BY <3>1, <4>1 DEF InodeOK, FreeInode
      <4>3. dinode[i].addrs = [n \in 0..NDIRECT |-> Null]
        BY <3>1, <4>2 DEF Inode
      <4>4. ~dinode[i].used /\ dinode[i].nlink = 0 /\ dinode[i].size = 0
        BY <3>1, <4>1 DEF InodeOK, FreeInode
      <4>5. dinode[i].used = FALSE
        BY <3>1, <4>4 DEF Inode
      <4> QED BY <3>1, <4>3, <4>4, <4>5 DEF FreeInode, Inode
    <3> QED BY <3>2
  <2> QED BY <1>1, <2>1, <2>2 DEF InodeOK
<1>3. \A p \in Procs : CallOK(p)'
  BY <1>1, UserOK
<1> QED BY <1>1, <1>2, <1>3 DEF CallsOK, LocksOK

\* There is no call in the initial state.
LEMMA InitCalls ==
  ASSUME Assumptions, Init
  PROVE  CallsOK
<1>1. ASSUME NEW p \in Procs
      PROVE  CallOK(p)
  BY DEF Init, CallOK, User, OnFile, Freeing, Null
<1>2. ASSUME NEW i \in Inums
      PROVE  InodeOK(i)
  BY Bounds DEF Init, InodeOK, FreeInode, Opened, Closed
<1> QED BY <1>1, <1>2 DEF CallsOK, LocksOK, Init

-----------------------------------------------------------------------------
(* The inductive invariant: the blocks.                                    *)

\* Somebody can come to the blocks of inode i.  itrunc() has given away those
\* in the slots before Begun(i).
Kept(i) == inode[i].nlink > 0 \/ Opened(i) \/ lock[i] # Null
Truncated(i) == lock[i] # Null /\ Freeing(k[lock[i]])
Begun(i) == IF Truncated(i) THEN k[lock[i]].at ELSE 0
Has(i, n, b) ==
  Kept(i) /\ n >= Begun(i) /\ b # Null /\ Slot(inode[i], n) = b

\* A block that somebody has is marked, and nobody else has it; nobody has
\* the block that bmap() is about to enter; free blocks are zero.
OwnOK ==
  /\ \A i \in Inums, n \in Slots, b \in Units : Has(i, n, b) => b \in bitmap
  /\ \A i, j \in Inums, n, x \in Slots, b \in Units :
       Has(i, n, b) /\ Has(j, x, b) => i = j /\ n = x
  /\ \A p \in Procs : k[p].new # Null =>
       /\ k[p].new \in bitmap
       /\ \A i \in Inums, n \in Slots : ~Has(i, n, k[p].new)
       /\ \A q \in Procs \ {p} : k[q].new # k[p].new
  /\ \A b \in Numbers \ bitmap : blk[b] = Zeros

\* Where bmap() and bfree() have got to.
CursorOK(p) ==
  /\ k[p].pc = "table" => Addr(p) = Null
  /\ k[p].pc = "clear" =>
       LET b == Slot(inode[k[p].ip], k[p].at) IN b # Null /\ blk[b] = Zeros

BlocksOK == OwnOK /\ \A p \in Procs : CursorOK(p)

-----------------------------------------------------------------------------
(* Who has which block.                                                    *)

\* A step of p is about inode i only, and changes it only with the lock.
Only(p, i) ==
  /\ lock[i] \in {Null, p} \/ UNCHANGED <<inode, dinode, lock, blk>>
  /\ \A q \in Procs \ {p} : k'[q] = k[q]
  /\ \A j \in Inums \ {i} :
       /\ inode'[j] = inode[j] /\ dinode'[j] = dinode[j]
       /\ lock'[j] = lock[j] /\ lock[j] # p
       /\ Opened(j)' <=> Opened(j)

\* It does not touch the blocks of others.
Frame(i) ==
  \A j \in Inums \ {i}, n \in Slots, b \in Units :
    Has(j, n, b) => blk'[b] = blk[b]

\* What a slot holds is a unit.
LEMMA SlotType ==
  ASSUME Assumptions, Typed, NEW d \in Inode, NEW n \in Slots
  PROVE  Slot(d, n) \in Units
<1>1. InTable(d) \in [DOMAIN Zeros -> Units]
  <2>1. d.addrs[NDIRECT] \in Pointers
    BY Bounds DEF Inode
  <2> QED BY <2>1, Constants DEF InTable, Typed, TypedDisk, Pointers
<1>2. NDIRECT <= n /\ n < MAXFILE => n - NDIRECT \in DOMAIN Zeros
  BY Bounds DEF Slots, Zeros, MAXFILE
<1>3. n < NDIRECT \/ n = MAXFILE => Slot(d, n) \in Pointers
  BY Bounds DEF Slots, Slot, Inode, MAXFILE
<1> QED BY <1>1, <1>2, <1>3, Bounds DEF Slot, Slots, Units

\* An entry of the table is in a file that has one.
LEMMA TableSlot ==
  ASSUME Assumptions, NEW d, NEW n \in Slots, NDIRECT <= n,
         Slot(d, n) # Null
  PROVE  d.addrs[NDIRECT] # Null /\ Slot(d, MAXFILE) = d.addrs[NDIRECT]
<1>1. n < MAXFILE => n - NDIRECT \in DOMAIN Zeros
  BY Bounds DEF Slots, Zeros, MAXFILE
<1>2. \A x \in DOMAIN Zeros : Zeros[x] = Null
  BY DEF Zeros, Null
<1> QED BY <1>1, <1>2, Bounds DEF Slot, Slots, InTable, MAXFILE

\* A slot stays as it is if the inode and the table do.
LEMMA SlotSame ==
  ASSUME Assumptions, NEW i \in Inums, NEW n \in Slots,
         inode'[i].addrs = inode[i].addrs,
         NDIRECT <= n /\ inode[i].addrs[NDIRECT] # Null =>
           blk'[inode[i].addrs[NDIRECT]] = blk[inode[i].addrs[NDIRECT]]
  PROVE  Slot(inode[i], n)' = Slot(inode[i], n)
BY Bounds DEF Slot, Slots, InTable

\* Nobody has a block of an inode that has none.
LEMMA NoSlots ==
  ASSUME Assumptions, NEW d, d.addrs = FreeInode.addrs, NEW n \in Slots
  PROVE  Slot(d, n) = Null
<1>1. n < MAXFILE /\ NDIRECT <= n => n - NDIRECT \in DOMAIN Zeros
  BY Bounds DEF Slots, Zeros, MAXFILE
<1>2. \A x \in DOMAIN Zeros : Zeros[x] = Null
  BY DEF Zeros, Null
<1>3. \A x \in 0..NDIRECT : d.addrs[x] = Null
  BY DEF FreeInode
<1> QED BY <1>1, <1>2, <1>3, Bounds DEF Slot, Slots, InTable, MAXFILE

\* What somebody has is a block of the disk, and marked.
LEMMA HasType ==
  ASSUME Assumptions, Typed, NEW i \in Inums, NEW n \in Slots, NEW b,
         Has(i, n, b)
  PROVE  b \in Units /\ (OwnOK => b \in bitmap /\ b \in Numbers)
<1>1. b \in Units
  BY SlotType DEF Has, Typed, TypedInodes
<1> QED BY <1>1 DEF OwnOK, Typed, TypedDisk

\* Who has an entry of a table has the table.
LEMMA HasTable ==
  ASSUME Assumptions, Typed, NEW i \in Inums, NEW n \in Slots, NEW b,
         Has(i, n, b), NDIRECT <= n
  PROVE  Has(i, MAXFILE, inode[i].addrs[NDIRECT])
<1>1. inode[i].addrs[NDIRECT] # Null
      /\ Slot(inode[i], MAXFILE) = inode[i].addrs[NDIRECT]
  BY TableSlot DEF Has
<1>2. MAXFILE >= Begun(i)
  <2>1. Begun(i) \in Nat
    BY Bounds DEF Begun, Truncated, Typed, TypedFiles, TypedCalls, Call
  <2> QED BY <2>1, Bounds DEF Has, Slots
<1> QED BY <1>1, <1>2 DEF Has

\* A step of p changes nothing about who comes to the other inodes.
LEMMA KeptOthers ==
  ASSUME Assumptions, Typed, NEW p \in Procs, NEW i \in Inums, Only(p, i),
         NEW j \in Inums \ {i}
  PROVE  /\ Kept(j)' <=> Kept(j)
         /\ Truncated(j)' <=> Truncated(j)
         /\ Begun(j)' = Begun(j)
<1>1. lock[j] # Null => k'[lock[j]] = k[lock[j]]
  BY DEF Only, Typed, TypedFiles
<1> QED BY <1>1 DEF Only, Kept, Truncated, Begun

\* The other inodes keep their blocks, and the data in them.
LEMMA HasOthers ==
  ASSUME Assumptions, Typed, NEW p \in Procs, NEW i \in Inums, Only(p, i),
         Frame(i), NEW j \in Inums \ {i}, NEW n \in Slots, NEW b
  PROVE  /\ Has(j, n, b)' <=> Has(j, n, b)
         /\ Has(j, n, b) => blk'[b] = blk[b]
<1>1. inode'[j] = inode[j] /\ (Kept(j)' <=> Kept(j)) /\ Begun(j)' = Begun(j)
  BY KeptOthers DEF Only
<1>2. MAXFILE \in Slots
  BY Bounds DEF Slots
<1>3. ASSUME NEW c, Has(j, n, c)
      PROVE  Slot(inode[j], n)' = Slot(inode[j], n)
  <2>1. NDIRECT <= n => /\ inode[j].addrs[NDIRECT] \in Units
                        /\ Has(j, MAXFILE, inode[j].addrs[NDIRECT])
    BY <1>2, <1>3, HasTable, HasType
  <2> QED BY <1>1, <1>2, <2>1, SlotSame DEF Frame
<1>4. ASSUME Has(j, n, b)'
      PROVE  Has(j, n, b)
  <2>1. CASE n < NDIRECT
    BY <1>1, <1>4, <2>1, SlotSame, Bounds DEF Has, Slots
  <2>2. CASE NDIRECT <= n
    <3>1. inode[j].addrs[NDIRECT] # Null
      BY <1>1, <1>4, <2>2, TableSlot, Bounds DEF Has, Slot, InTable, Slots
    <3>2. Has(j, MAXFILE, inode[j].addrs[NDIRECT])
      <4>1. Begun(j) \in Nat
        BY Bounds DEF Begun, Truncated, Typed, TypedFiles, TypedCalls, Call
      <4>2. MAXFILE >= Begun(j)
        BY <1>1, <1>4, <4>1, Bounds DEF Has, Slots
      <4>3. Slot(inode[j], MAXFILE) = inode[j].addrs[NDIRECT]
        BY Bounds DEF Slot, MAXFILE
      <4> QED BY <1>1, <1>4, <3>1, <4>2, <4>3 DEF Has
    <3>3. blk'[inode[j].addrs[NDIRECT]] = blk[inode[j].addrs[NDIRECT]]
      BY <1>2, <3>2, HasType DEF Frame
    <3> QED BY <1>1, <1>4, <3>3, SlotSame DEF Has
  <2> QED BY <2>1, <2>2, Bounds DEF Slots
<1>5. Has(j, n, b) => Has(j, n, b)' /\ blk'[b] = blk[b]
  BY <1>1, <1>3, HasType DEF Has, Frame
<1> QED BY <1>4, <1>5

\* A step of a call is about the inode that it has locked.
LEMMA OnlyCall ==
  ASSUME Assumptions, Typed, CallsOK, NEW p \in Procs, NEW i \in Inums,
         i = k[p].ip, k[p].pc # "user",
         \A q \in Procs \ {p} : k'[q] = k[q],
         \A j \in Inums \ {i} :
           /\ inode'[j] = inode[j] /\ dinode'[j] = dinode[j]
           /\ lock'[j] = lock[j],
         \A f \in Files : file'[f].ip = file[f].ip
  PROVE  Only(p, i)
<1>1. lock[i] = p /\ \A j \in Inums \ {i} : lock[j] # p
  BY Holder
<1> QED BY <1>1 DEF Only, Opened

\* The first step of a call is about an inode that nobody has locked.
LEMMA OnlyBegin ==
  ASSUME Assumptions, Typed, CallsOK, NEW p \in Procs, NEW i \in Inums,
         k[p].pc = "user", lock[i] = Null,
         \A q \in Procs \ {p} : k'[q] = k[q],
         \A j \in Inums \ {i} :
           /\ inode'[j] = inode[j] /\ dinode'[j] = dinode[j]
           /\ lock'[j] = lock[j],
         \A f \in Files : file'[f].ip = file[f].ip
  PROVE  Only(p, i)
BY Holder DEF Only, Opened

\* A step that writes no block.
LEMMA FrameQuiet ==
  ASSUME NEW i, blk' = blk
  PROVE  Frame(i)
BY DEF Frame

\* The inode i keeps its blocks, for a step that writes no block.
HasSame ==
  \A j \in Inums, n \in Slots, b \in Units : Has(j, n, b)' <=> Has(j, n, b)
HasOwn(i) == \A n \in Slots, b \in Units : Has(i, n, b)' <=> Has(i, n, b)

\* An inode that keeps its block numbers keeps its blocks.
LEMMA OwnKept ==
  ASSUME Assumptions, NEW i \in Inums, inode'[i].addrs = inode[i].addrs,
         blk' = blk, Kept(i), Kept(i)', Begun(i)' = Begun(i)
  PROVE  HasOwn(i)
BY SlotSame DEF HasOwn, Has

\* An inode whose blocks are all gone loses none with their numbers.
LEMMA OwnNone ==
  ASSUME Assumptions, NEW i \in Inums, inode'[i].addrs = FreeInode.addrs,
         \A n \in Slots : n >= Begun(i) => Slot(inode[i], n) = Null
  PROVE  HasOwn(i)
<1>1. \A n \in Slots : Slot(inode[i], n)' = Null
  <2>1. \A x \in 0..NDIRECT : inode'[i].addrs[x] = Null
    BY DEF FreeInode
  <2>2. \A n \in Slots :
          n < MAXFILE /\ NDIRECT <= n => n - NDIRECT \in DOMAIN Zeros
    BY Bounds DEF Slots, Zeros, MAXFILE
  <2>3. \A x \in DOMAIN Zeros : Zeros[x] = Null
    BY DEF Zeros, Null
  <2> QED BY <2>1, <2>2, <2>3, Bounds DEF Slot, Slots, InTable, MAXFILE
<1> QED BY <1>1 DEF HasOwn, Has

\* The calls of others are where they were.
LEMMA CursorOthers ==
  ASSUME Assumptions, Typed, CallsOK, BlocksOK, NEW p \in Procs,
         NEW i \in Inums, Only(p, i), Frame(i), NEW q \in Procs \ {p}
  PROVE  CursorOK(q)'
<1>1. k'[q] = k[q] /\ CursorOK(q) /\ CallOK(q) /\ k[q] \in Call
  BY Holder DEF Only, BlocksOK
<1>2. CASE k[q].pc \notin {"table", "clear"}
  BY <1>1, <1>2 DEF CursorOK
<1>3. CASE k[q].pc \in {"table", "clear"}
  <2>1. PICK j \in Inums : j = k[q].ip /\ lock[j] = q
    BY <1>3, Holder
  <2>2. CASE UNCHANGED <<inode, dinode, lock, blk>>
    <3>1. \A n \in Slots : Slot(inode[j], n)' = Slot(inode[j], n)
      BY <2>2, SlotSame
    <3>2. bn(q)' = bn(q)
      BY <1>1 DEF bn
    <3> QED BY <1>1, <2>1, <2>2, <3>1, <3>2 DEF CursorOK, Addr, Slot, InTable
  <2>3. CASE j # i
    <3>1. inode'[j] = inode[j]
      BY <2>3 DEF Only
    <3>2. CASE k[q].pc = "table"
      <4>1. /\ bn(q) >= NDIRECT /\ inode[j].addrs[NDIRECT] # Null
        BY <1>1, <2>1, <3>2 DEF CallOK, Table
      <4>2. Has(j, MAXFILE, inode[j].addrs[NDIRECT])
        <5>1. Begun(j) = 0 /\ Kept(j)
          BY <2>1, <3>2, Bounds DEF Begun, Kept, Truncated, Freeing
        <5> QED BY <4>1, <5>1, Bounds DEF Has, Slot, MAXFILE
      <4>3. blk'[inode[j].addrs[NDIRECT]] = blk[inode[j].addrs[NDIRECT]]
        BY <2>3, <4>2, HasType, Bounds DEF Frame, Slots
      <4>4. bn(q)' = bn(q)
        BY <1>1 DEF bn
      <4>5. Addr(q)' = Addr(q)
        BY <1>1, <2>1, <3>1, <4>1, <4>3, <4>4 DEF Addr, Slot, InTable
      <4> QED BY <1>1, <3>2, <4>5 DEF CursorOK
    <3>3. CASE k[q].pc = "clear"
      <4> DEFINE n == k[q].at
      <4>1. PICK x \in Slots : x = k[q].at
        BY <1>1, <3>3 DEF CallOK
      <4>2. PICK b : /\ b = Slot(inode[j], x) /\ b # Null
                     /\ blk[b] = Zeros
        BY <1>1, <2>1, <3>3, <4>1 DEF CursorOK
      <4>3. Has(j, x, b)
        <5>1. Begun(j) = x /\ Kept(j)
          BY <2>1, <3>3, <4>1, Bounds DEF Begun, Kept, Truncated, Freeing
        <5> QED BY <4>2, <5>1, Bounds DEF Has, Slots
      <4>4. Has(j, x, b)' /\ blk'[b] = blk[b]
        BY <2>3, <4>3, HasOthers
      <4> QED
        BY <1>1, <2>1, <3>3, <4>1, <4>2, <4>4 DEF CursorOK, Has
    <3> QED BY <1>3, <3>2, <3>3
  <2> QED BY <2>1, <2>2, <2>3, Bounds DEF Only
<1> QED BY <1>2, <1>3

\* A step that changes no block and no bit, and takes no block from anybody.
LEMMA QuietBlocks ==
  ASSUME Assumptions, Typed, CallsOK, BlocksOK, NEW p \in Procs,
         NEW i \in Inums, Only(p, i), blk' = blk, bitmap' = bitmap,
         HasOwn(i), k'[p].new = Null, k'[p].pc \notin {"table", "clear"}
  PROVE  HasSame /\ BlocksOK'
<1>1. Frame(i)
  BY FrameQuiet
<1>2. HasSame
  BY <1>1, HasOthers DEF HasSame, HasOwn
<1>3. OwnOK'
  <2>1. \A q \in Procs : k'[q].new \in {k[q].new, Null}
    BY DEF Only
  <2>2. \A q \in Procs : k[q].new \in Units
    BY DEF Typed, TypedCalls, Call, Units
  <2> QED BY <1>2, <2>1, <2>2 DEF BlocksOK, OwnOK, HasSame
<1>4. \A q \in Procs : CursorOK(q)'
  <2>1. CursorOK(p)'
    BY DEF CursorOK
  <2> QED BY <1>1, <2>1, CursorOthers
<1> QED BY <1>2, <1>3, <1>4 DEF BlocksOK

\* The steps of a call that has begun.
InCall(p) ==
  \/ CreateLinked(p) \/ UnlinkPut(p)
  \/ BmapInode(p) \/ BmapTable(p) \/ BmapTableWrite(p)
  \/ WriteBlock(p) \/ WriteDone(p) \/ ReadBlock(p) \/ ReadDone(p)
  \/ Zero(p) \/ Clear(p) \/ Emptied(p) \/ Freed(p)

\* Every step of a call is about its inode only.
LEMMA InCallOnly ==
  ASSUME Assumptions, Typed, CallsOK, NEW p \in Procs, InCall(p)
  PROVE  k[p].ip \in Inums /\ lock[k[p].ip] = p /\ Only(p, k[p].ip)
<1>1. k[p].pc # "user"
  BY DEF InCall, CreateLinked, UnlinkPut, BmapInode, BmapTable, BmapTableWrite,
    WriteBlock, WriteDone, ReadBlock, ReadDone, Zero, Clear, Emptied, Freed,
    At, More
<1>2. PICK i \in Inums : i = k[p].ip /\ lock[i] = p
  BY <1>1, Holder
<1>3. \A q \in Procs \ {p} : k'[q] = k[q]
  BY DEF InCall, CreateLinked, UnlinkPut, BmapInode, BmapTable, BmapTableWrite,
    WriteBlock, WriteDone, ReadBlock, ReadDone, Zero, Clear, Emptied, Freed,
    Become, Unlock, Panic, Typed, TypedCalls
<1>4. \A j \in Inums \ {i} : inode'[j] = inode[j]
  BY <1>2 DEF InCall, CreateLinked, UnlinkPut, BmapInode, BmapTable,
    BmapTableWrite, WriteBlock, WriteDone, ReadBlock, ReadDone, Zero, Clear,
    Emptied, Freed, Panic, Typed, TypedInodes
<1>5. \A j \in Inums \ {i} : dinode'[j] = dinode[j]
  BY <1>2 DEF InCall, CreateLinked, UnlinkPut, BmapInode, BmapTable,
    BmapTableWrite, WriteBlock, WriteDone, ReadBlock, ReadDone, Zero, Clear,
    Emptied, Freed, Panic, Typed, TypedInodes, diskVars
<1>6. \A j \in Inums \ {i} : lock'[j] = lock[j]
  BY <1>2 DEF InCall, CreateLinked, UnlinkPut, BmapInode, BmapTable,
    BmapTableWrite, WriteBlock, WriteDone, ReadBlock, ReadDone, Zero, Clear,
    Emptied, Freed, Panic, Unlock, Typed, TypedFiles
<1>7. \A f \in Files : file'[f].ip = file[f].ip
  <2>1. file' = file \/ \E e : file' = [file EXCEPT ![k[p].f].off = e]
    BY DEF InCall, CreateLinked, UnlinkPut, BmapInode, BmapTable,
      BmapTableWrite, WriteBlock, WriteDone, ReadBlock, ReadDone, Zero, Clear,
      Emptied, Freed, Panic, Goes
  <2>2. CASE file' = file
    BY <2>2
  <2>3. ASSUME NEW e, file' = [file EXCEPT ![k[p].f].off = e]
        PROVE  \A f \in Files : file'[f].ip = file[f].ip
    BY <2>3 DEF Typed, TypedFiles
  <2> QED BY <2>1, <2>2, <2>3
<1> QED BY <1>1, <1>2, <1>3, <1>4, <1>5, <1>6, <1>7, OnlyCall

\* create() and unlink() begin with an unlocked inode.
LEMMA CreateOnly ==
  ASSUME Assumptions, Typed, CallsOK, NEW p \in Procs, NEW i \in Inums,
         Create(p, i) \/ Unlink(p, i)
  PROVE  Only(p, i) /\ k[p].pc = "user" /\ lock[i] = Null /\ lock'[i] = p
BY OnlyBegin DEF Create, Unlink, Begin, Become, At, Typed, TypedInodes,
  TypedCalls, TypedFiles

\* read() and write() begin with an unlocked inode.
LEMMA TransferOnly ==
  ASSUME Assumptions, Typed, CallsOK, NEW p \in Procs, NEW f \in Files,
         NEW n \in Sizes, Write(p, f, n) \/ Read(p, f, n)
  PROVE  LET i == file[f].ip IN
         i \in Inums /\ Only(p, i) /\ k[p].pc = "user" /\ lock[i] = Null
         /\ lock'[i] = p
<1>1. PICK i \in Inums : i = file[f].ip
  BY DEF Write, Read, Typed, TypedFiles
<1>2. /\ lock[i] = Null /\ lock' = [lock EXCEPT ![i] = p] /\ file' = file
      /\ inode' = inode /\ dinode' = dinode /\ k[p].pc = "user"
      /\ \E g : k' = [k EXCEPT ![p] = g]
  BY <1>1 DEF Write, Read, Begin, Become, At, diskVars
<1>3. lock'[i] = p /\ \A j \in Inums \ {i} : lock'[j] = lock[j]
  BY <1>2 DEF Typed, TypedFiles
<1>4. \A q \in Procs \ {p} : k'[q] = k[q]
  BY <1>2 DEF Typed, TypedCalls
<1> QED BY <1>1, <1>2, <1>3, <1>4, OnlyBegin

\* close() is about the inode of the file.
LEMMA CloseOnly ==
  ASSUME Assumptions, Typed, CallsOK, NEW p \in Procs, NEW f \in Files,
         Close(p, f)
  PROVE  LET i == file[f].ip IN
         i \in Inums /\ Only(p, i) /\ k[p].pc = "user"
<1>1. PICK i \in Inums : i = file[f].ip
  BY DEF Close, Typed, TypedFiles
<1>2. /\ file' = [file EXCEPT ![f] = Closed] /\ k[p].pc = "user"
      /\ inode' = inode /\ dinode' = dinode /\ blk' = blk
      /\ \A j \in Inums : lock[j] # p
  BY Holder DEF Close, Begin, At, diskVars
<1>3. \/ /\ lock[i] = Null /\ lock' = [lock EXCEPT ![i] = p]
         /\ k' = [k EXCEPT ![p] = Trunc(i)]
      \/ lock' = lock /\ k' = k
  BY <1>1 DEF Close, Begin, Become
<1>4. \A j \in Inums \ {i} : Opened(j)' <=> Opened(j)
  BY <1>1, <1>2, Bounds DEF Opened, Typed, TypedFiles, Closed
<1>5. \A j \in Inums \ {i} : lock'[j] = lock[j]
  BY <1>3 DEF Typed, TypedFiles
<1>6. \A q \in Procs \ {p} : k'[q] = k[q]
  BY <1>3 DEF Typed, TypedCalls
<1> QED BY <1>1, <1>2, <1>3, <1>4, <1>5, <1>6 DEF Only

\* Steps that write no block of a file.
Quiet(p) ==
  \/ \E i \in Inums : Create(p, i) \/ Unlink(p, i)
  \/ \E f \in Files :
       Close(p, f) \/ \E n \in Sizes : Write(p, f, n) \/ Read(p, f, n)
  \/ CreateLinked(p) \/ UnlinkPut(p) \/ WriteDone(p)
  \/ ReadBlock(p) \/ ReadDone(p) \/ Emptied(p) \/ Freed(p)

\* A new inode has no block.
LEMMA CreateHas ==
  ASSUME Assumptions, Typed, CallsOK, NEW p \in Procs, NEW i \in Inums,
         Create(p, i)
  PROVE  HasOwn(i)
<1>1. inode[i] = FreeInode
  BY DEF Create, CallsOK, InodeOK
<1>2. inode'[i].addrs = FreeInode.addrs
  BY DEF Create, Typed, TypedInodes, FreeInode
<1> QED BY <1>1, <1>2, NoSlots, OwnNone

\* unlink() takes no block away.
LEMMA UnlinkHas ==
  ASSUME Assumptions, Typed, CallsOK, NEW p \in Procs, NEW i \in Inums,
         Unlink(p, i)
  PROVE  HasOwn(i)
<1>1. /\ inode[i].nlink > 0 /\ blk' = blk /\ lock'[i] = p
      /\ k'[p] = [User EXCEPT !.pc = "put", !.ip = i]
      /\ lock[i] = Null
  BY DEF Unlink, Begin, Become, Typed, TypedCalls, TypedFiles
<1>2. inode'[i].addrs = inode[i].addrs
  <2>1. inode'[i] = [inode[i] EXCEPT !.nlink = 0]
    BY DEF Unlink, Typed, TypedInodes
  <2> QED BY <2>1 DEF Typed, TypedInodes, Inode
<1>3. Kept(i) /\ Kept(i)' /\ Begun(i)' = Begun(i)
  BY <1>1, Bounds DEF Kept, Begun, Truncated, Freeing, User
<1> QED BY <1>1, <1>2, <1>3, OwnKept

\* A file keeps its blocks when it is closed, unless nobody has it any more.
LEMMA CloseHas ==
  ASSUME Assumptions, Typed, CallsOK, NEW p \in Procs, NEW f \in Files,
         Close(p, f)
  PROVE  HasOwn(file[f].ip)
<1>1. PICK i \in Inums : i = file[f].ip
  BY DEF Close, Typed, TypedFiles
<1>2. Kept(i) /\ inode' = inode /\ blk' = blk
  BY <1>1 DEF Kept, Opened, Close, diskVars
<1>3. CASE inode[i].nlink = 0 /\ LastRef(p, i, file')
  <2>1. /\ lock[i] = Null /\ lock'[i] = p /\ k'[p] = Trunc(i)
    BY <1>1, <1>3 DEF Close, Begin, Become, Typed, TypedCalls, TypedFiles
  <2>2. Kept(i)' /\ Begun(i)' = Begun(i)
    BY <2>1, Bounds DEF Kept, Begun, Truncated, Trunc, User
  <2> QED BY <1>1, <1>2, <2>2, OwnKept
<1>4. CASE ~(inode[i].nlink = 0 /\ LastRef(p, i, file'))
  <2>1. lock' = lock /\ k' = k
    BY <1>1, <1>4 DEF Close
  <2>2. Kept(i)'
    <3>1. CASE inode[i].nlink # 0
      <4>1. inode[i].nlink > 0
        BY <3>1 DEF Typed, TypedInodes, Inode
      <4> QED BY <1>2, <4>1 DEF Kept
    <3>2. CASE \E g \in Files : file'[g].ip = i
      BY <3>2 DEF Kept, Opened
    <3>3. CASE \E q \in Procs \ {p} : k[q].ip = i
      <4>1. PICK q \in Procs : k[q].ip = i
        BY <3>3
      <4>2. k[q].pc # "user"
        BY <4>1, Holder, Bounds DEF CallOK, User
      <4> QED BY <2>1, <4>1, <4>2, Holder, Bounds DEF Kept
    <3> QED BY <1>4, <3>1, <3>2, <3>3 DEF LastRef
  <2>3. Begun(i)' = Begun(i)
    BY <2>1 DEF Begun, Truncated
  <2> QED BY <1>1, <1>2, <2>2, <2>3, OwnKept
<1> QED BY <1>3, <1>4

\* read() and write() begin without a change to the blocks.
LEMMA TransferHas ==
  ASSUME Assumptions, Typed, CallsOK, NEW p \in Procs, NEW f \in Files,
         NEW n \in Sizes, Write(p, f, n) \/ Read(p, f, n)
  PROVE  HasOwn(file[f].ip)
<1>1. PICK i \in Inums : i = file[f].ip /\ lock[i] = Null /\ lock'[i] = p
  BY TransferOnly
<1>2. Kept(i) /\ Kept(i)' /\ inode' = inode /\ blk' = blk
  BY <1>1, Bounds DEF Kept, Opened, Write, Read, diskVars
<1>3. k'[p].pc \in {"write", "read"}
  <2>1. CASE Write(p, f, n)
    <3> DEFINE len == Least(n, MAXFILE * BSIZE - file[f].off)
               g == [User EXCEPT !.pc = "write", !.f = f, !.ip = file[f].ip,
                     !.off = file[f].off, !.n = len]
    <3>1. Become(p, g)
      BY <2>1 DEF Write, Begin
    <3> HIDE DEF len
    <3>2. g.pc = "write"
      BY DEF User
    <3> HIDE DEF g
    <3> QED BY <3>1, <3>2 DEF Become, Typed, TypedCalls
  <2>2. CASE Read(p, f, n)
    <3> DEFINE len == Least(n, inode[file[f].ip].size - file[f].off)
               g == [User EXCEPT !.pc = "read", !.f = f, !.ip = file[f].ip,
                     !.off = file[f].off, !.n = len]
    <3>1. Become(p, g)
      BY <2>2 DEF Read, Begin
    <3> HIDE DEF len
    <3>2. g.pc = "read"
      BY DEF User
    <3> HIDE DEF g
    <3> QED BY <3>1, <3>2 DEF Become, Typed, TypedCalls
  <2> QED BY <2>1, <2>2
<1>4. Begun(i)' = Begun(i)
  BY <1>1, <1>3, Bounds DEF Begun, Truncated, Freeing
<1> QED BY <1>1, <1>2, <1>4, OwnKept

\* A call that ends and leaves its inode to others.
LEMMA UnlockHas ==
  ASSUME Assumptions, Typed, CallsOK, NEW p \in Procs, NEW i \in Inums,
         i = k[p].ip, lock[i] = p, ~Freeing(k[p]), Unlock(p), blk' = blk,
         inode'[i].addrs = inode[i].addrs, inode'[i].nlink > 0 \/ Opened(i)'
  PROVE  HasOwn(i)
<1>1. lock'[i] = Null
  BY DEF Unlock, Typed, TypedFiles
<1>2. Kept(i) /\ Kept(i)' /\ Begun(i)' = Begun(i)
  BY <1>1, Bounds DEF Kept, Begun, Truncated
<1> QED BY <1>2, OwnKept

\* The inode of create() has no block yet.
LEMMA CreateLinkedHas ==
  ASSUME Assumptions, Typed, CallsOK, NEW p \in Procs, CreateLinked(p)
  PROVE  HasOwn(k[p].ip)
<1>1. PICK i \in Inums : i = k[p].ip /\ lock[i] = p
  BY Holder DEF CreateLinked, At
<1>2. inode'[i] = [inode[i] EXCEPT !.nlink = 1]
  BY <1>1 DEF CreateLinked, Typed, TypedInodes
<1>3. inode'[i].addrs = inode[i].addrs /\ inode'[i].nlink > 0
  BY <1>2 DEF Typed, TypedInodes, Inode
<1> QED
  BY <1>1, <1>3, UnlockHas DEF CreateLinked, At, Freeing

\* iput() leaves the blocks to itrunc() or to who else has the file.
LEMMA UnlinkPutHas ==
  ASSUME Assumptions, Typed, CallsOK, NEW p \in Procs, UnlinkPut(p)
  PROVE  HasOwn(k[p].ip)
<1>1. PICK i \in Inums : i = k[p].ip /\ lock[i] = p /\ k[p].pc = "put"
  BY Holder DEF UnlinkPut, At
<1>2. inode' = inode /\ file' = file /\ blk' = blk
  BY DEF UnlinkPut, diskVars
<1>3. CASE LastRef(p, i, file)
  <2>1. k'[p] = Trunc(i) /\ lock' = lock
    BY <1>1, <1>3 DEF UnlinkPut, Become, Typed, TypedCalls
  <2>2. Kept(i) /\ Kept(i)' /\ Begun(i)' = Begun(i)
    BY <1>1, <2>1, Bounds DEF Kept, Begun, Truncated, Freeing, Trunc, User
  <2> QED BY <1>1, <1>2, <2>2, OwnKept
<1>4. CASE ~LastRef(p, i, file)
  <2>1. \A q \in Procs \ {p} : k[q].ip # i
    <3> SUFFICES ASSUME NEW q \in Procs \ {p}, k[q].ip = i
                 PROVE  FALSE
      OBVIOUS
    <3>1. k[q].pc # "user"
      BY Holder, Bounds DEF CallOK, User
    <3> QED BY <1>1, <3>1, Holder
  <2>2. Opened(i)'
    BY <1>2, <1>4, <2>1 DEF LastRef, Opened
  <2>3. Unlock(p)
    BY <1>1, <1>4 DEF UnlinkPut
  <2> QED BY <1>1, <1>2, <2>2, <2>3, UnlockHas DEF Freeing
<1> QED BY <1>3, <1>4

\* The inode keeps its blocks when the transfer ends.
LEMMA DoneHas ==
  ASSUME Assumptions, Typed, CallsOK, NEW p \in Procs,
         WriteDone(p) \/ ReadDone(p)
  PROVE  HasOwn(k[p].ip)
<1>1. PICK i \in Inums : i = k[p].ip /\ lock[i] = p /\ OnFile(k[p])
  BY Holder DEF WriteDone, ReadDone, At, OnFile
<1>2. k[p].f \in Files /\ file[k[p].f].ip = i
  BY <1>1, Holder DEF CallOK, Call
<1>3. file'[k[p].f].ip = i
  <2>1. \E e : file' = [file EXCEPT ![k[p].f].off = e]
    BY DEF WriteDone, ReadDone
  <2> QED BY <1>2, <2>1 DEF Typed, TypedFiles
<1>4. Opened(i)'
  BY <1>2, <1>3 DEF Opened
<1>5. inode'[i].addrs = inode[i].addrs
  <2>1. inode' = inode \/ \E e : inode' = [inode EXCEPT ![i].size = e]
    BY <1>1 DEF WriteDone, ReadDone
  <2> QED BY <2>1 DEF Typed, TypedInodes, Inode
<1>6. Unlock(p) /\ blk' = blk
  BY DEF WriteDone, ReadDone, diskVars
<1> QED BY <1>1, <1>4, <1>5, <1>6, UnlockHas DEF OnFile, Freeing

\* readi() takes no block away.
LEMMA ReadBlockHas ==
  ASSUME Assumptions, Typed, CallsOK, NEW p \in Procs, ReadBlock(p)
  PROVE  HasOwn(k[p].ip)
<1>1. PICK i \in Inums : i = k[p].ip /\ lock[i] = p /\ k[p].pc = "read"
  BY Holder DEF ReadBlock, More, At
<1>2. inode' = inode /\ lock' = lock /\ blk' = blk
  BY DEF ReadBlock, Goes, diskVars
<1>3. k'[p].pc = "read"
  BY <1>1 DEF ReadBlock, Become, Typed, TypedCalls, Call
<1>4. Kept(i) /\ Kept(i)' /\ Begun(i)' = Begun(i)
  BY <1>1, <1>2, <1>3, Bounds DEF Kept, Begun, Truncated, Freeing
<1> QED BY <1>1, <1>2, <1>4, OwnKept

\* itrunc() forgets block numbers that it has given back.
LEMMA EmptiedHas ==
  ASSUME Assumptions, Typed, CallsOK, NEW p \in Procs, Emptied(p)
  PROVE  HasOwn(k[p].ip)
<1>1. PICK i \in Inums : i = k[p].ip /\ lock[i] = p /\ k[p].pc = "bfree"
  BY Holder DEF Emptied, At
<1>2. inode'[i].addrs = FreeInode.addrs
  BY <1>1 DEF Emptied, Typed, TypedInodes, FreeInode
<1>3. Begun(i) = k[p].at
  BY <1>1, Bounds DEF Begun, Truncated, Freeing
<1>4. \A n \in Slots : n >= Begun(i) => Slot(inode[i], n) = Null
  BY <1>1, <1>3 DEF Emptied, Left
<1> QED BY <1>1, <1>2, <1>4, OwnNone

\* The inode that iput() frees has no block.
LEMMA FreedHas ==
  ASSUME Assumptions, Typed, CallsOK, NEW p \in Procs, Freed(p)
  PROVE  HasOwn(k[p].ip)
<1>1. PICK i \in Inums : i = k[p].ip /\ inode[i] = Empty
  BY Holder DEF Freed, At, CallOK
<1>2. inode'[i].addrs = FreeInode.addrs
  BY <1>1 DEF Freed, Typed, TypedInodes
<1>3. inode[i].addrs = FreeInode.addrs
  BY <1>1 DEF Empty, FreeInode
<1> QED BY <1>1, <1>2, <1>3, NoSlots, OwnNone

\* After a quiet step the call has no block to enter and none to free.
LEMMA QuietPc ==
  ASSUME Assumptions, Typed, CallsOK, NEW p \in Procs, Quiet(p), CallsOK',
         k'[p] \in Call
  PROVE  k'[p].new = Null /\ k'[p].pc \notin {"table", "clear"}
<1>1. k'[p].pc # "table" => k'[p].new = Null
  BY DEF CallsOK, CallOK
<1>2. k[p].pc \notin {"table", "clear"}
  BY DEF Quiet, Create, Unlink, Close, Write, Read, CreateLinked, UnlinkPut,
    WriteDone, ReadBlock, ReadDone, Emptied, Freed, At, More, Begin
<1>3. k'[p].pc \notin {"table", "clear"}
  <2>1. CASE \E i \in Inums : Create(p, i) \/ Unlink(p, i)
    <3>1. PICK i \in Inums : Create(p, i) \/ Unlink(p, i)
      BY <2>1
    <3>2. \/ Become(p, [User EXCEPT !.pc = "create", !.ip = i])
          \/ Become(p, [User EXCEPT !.pc = "put", !.ip = i])
      BY <3>1 DEF Create, Unlink, Begin
    <3> QED BY <3>2 DEF Become, User, Typed, TypedCalls
  <2>2. CASE \E f \in Files : Close(p, f)
    <3>1. PICK f \in Files : Close(p, f)
      BY <2>2
    <3>2. Become(p, Trunc(file[f].ip)) \/ k' = k
      BY <3>1 DEF Close, Begin
    <3> QED BY <1>2, <3>2 DEF Become, Trunc, User, Typed, TypedCalls
  <2>3. ASSUME NEW f \in Files, NEW n \in Sizes,
               Write(p, f, n) \/ Read(p, f, n)
        PROVE  k'[p].pc \notin {"table", "clear"}
    <3> DEFINE lw == Least(n, MAXFILE * BSIZE - file[f].off)
               lr == Least(n, inode[file[f].ip].size - file[f].off)
               gw == [User EXCEPT !.pc = "write", !.f = f, !.ip = file[f].ip,
                      !.off = file[f].off, !.n = lw]
               gr == [User EXCEPT !.pc = "read", !.f = f, !.ip = file[f].ip,
                      !.off = file[f].off, !.n = lr]
    <3>1. Become(p, gw) \/ Become(p, gr)
      BY <2>3 DEF Write, Read, Begin
    <3> HIDE DEF lw, lr
    <3>2. gw.pc = "write" /\ gr.pc = "read"
      BY DEF User
    <3> HIDE DEF gw, gr
    <3> QED BY <3>1, <3>2 DEF Become, Typed, TypedCalls
  <2>4. CASE CreateLinked(p) \/ WriteDone(p) \/ ReadDone(p) \/ Freed(p)
    BY <2>4 DEF CreateLinked, WriteDone, ReadDone, Freed, Unlock, Become, User,
      Typed, TypedCalls
  <2>5. CASE UnlinkPut(p)
    <3>1. Become(p, User) \/ Become(p, Trunc(k[p].ip))
      BY <2>5 DEF UnlinkPut, Unlock
    <3>2. User.pc = "user" /\ Trunc(k[p].ip).pc = "bfree"
      BY DEF User, Trunc
    <3> QED BY <3>1, <3>2 DEF Become, Typed, TypedCalls
  <2>6. CASE ReadBlock(p) \/ Emptied(p)
    <3>1. k[p] \in Call
      BY Holder
    <3> QED
      BY <1>2, <2>6, <3>1
      DEF ReadBlock, Emptied, Become, Typed, TypedCalls, Call
  <2> QED BY <2>1, <2>2, <2>3, <2>4, <2>5, <2>6 DEF Quiet
<1> QED BY <1>1, <1>3

\* The inode that a quiet step is about.
LEMMA QuietOnly ==
  ASSUME Assumptions, Typed, CallsOK, NEW p \in Procs, Quiet(p)
  PROVE  \E i \in Inums : Only(p, i) /\ HasOwn(i)
<1>1. CASE \E i \in Inums : Create(p, i) \/ Unlink(p, i)
  BY <1>1, CreateOnly, CreateHas, UnlinkHas
<1>2. CASE \E f \in Files : Close(p, f)
  BY <1>2, CloseOnly, CloseHas
<1>3. CASE \E f \in Files, n \in Sizes : Write(p, f, n) \/ Read(p, f, n)
  BY <1>3, TransferOnly, TransferHas
<1>4. CASE InCall(p) /\ Quiet(p)
  <2>1. k[p].ip \in Inums /\ Only(p, k[p].ip)
    BY <1>4, InCallOnly
  <2>2. k[p].pc # "user"
    BY <1>4 DEF InCall, CreateLinked, UnlinkPut, BmapInode, BmapTable,
      BmapTableWrite, WriteBlock, WriteDone, ReadBlock, ReadDone, Zero, Clear,
      Emptied, Freed, At, More
  <2>3. \/ CreateLinked(p) \/ UnlinkPut(p) \/ WriteDone(p)
        \/ ReadBlock(p) \/ ReadDone(p) \/ Emptied(p) \/ Freed(p)
    BY <1>4, <2>2 DEF Quiet, Create, Unlink, Close, Write, Read, Begin, At
  <2>4. HasOwn(k[p].ip)
    BY <2>3, CreateLinkedHas, UnlinkPutHas, DoneHas, ReadBlockHas, EmptiedHas,
       FreedHas
  <2> QED BY <2>1, <2>4
<1> QED BY <1>1, <1>2, <1>3, <1>4 DEF Quiet, InCall

\* Who has which block, after a quiet step.
LEMMA QuietStep ==
  ASSUME Assumptions, Typed, CallsOK, BlocksOK, NEW p \in Procs, Quiet(p),
         Typed', CallsOK'
  PROVE  HasSame /\ BlocksOK' /\ blk' = blk /\ bitmap' = bitmap
<1>1. PICK i \in Inums : Only(p, i) /\ HasOwn(i)
  BY QuietOnly
<1>2. blk' = blk /\ bitmap' = bitmap
  BY DEF Quiet, Create, Unlink, Close, Write, Read, CreateLinked, UnlinkPut,
    WriteDone, ReadBlock, ReadDone, Emptied, Freed, diskVars
<1>3. k'[p].new = Null /\ k'[p].pc \notin {"table", "clear"}
  BY QuietPc DEF Typed, TypedCalls
<1> QED BY <1>1, <1>2, <1>3, QuietBlocks

-----------------------------------------------------------------------------
(* The steps that write blocks.                                            *)

\* The inode of a call that is not itrunc() or the end of it.
LEMMA HolderKept ==
  ASSUME Assumptions, Typed, CallsOK, NEW p \in Procs, NEW i \in Inums,
         lock[i] = p
  PROVE  /\ Kept(i) /\ i = k[p].ip /\ k[p].pc # "user"
         /\ Truncated(i) <=> Freeing(k[p])
         /\ Begun(i) = IF Freeing(k[p]) THEN k[p].at ELSE 0
BY Holder, Bounds DEF Kept, Truncated, Begun

\* The block that a transfer has come to is one that the inode can have.
LEMMA BlockNumber ==
  ASSUME Assumptions, NEW u \in Nat
  PROVE  /\ u \div BSIZE \in Nat /\ u % BSIZE \in 0..BSIZE - 1
         /\ u < Limit => u \div BSIZE \in 0..MAXFILE - 1
         /\ u = BSIZE * (u \div BSIZE) + (u % BSIZE)
<1>1. BSIZE \in Nat \ {0} /\ MAXFILE \in Nat
  BY Bounds
<1>2. u \div BSIZE \in Nat /\ u % BSIZE \in 0..BSIZE - 1
      /\ u = BSIZE * (u \div BSIZE) + (u % BSIZE)
  BY <1>1
<1> DEFINE q == u \div BSIZE
<1> HIDE DEF q
<1>3. ASSUME u < Limit, q >= MAXFILE
      PROVE  FALSE
  <2>1. q \in Nat
    BY <1>2 DEF q
  <2>2. BSIZE * MAXFILE <= BSIZE * q
    BY <1>1, <1>3, <2>1
  <2>3. Limit = BSIZE * MAXFILE
    BY <1>1 DEF Limit
  <2>4. BSIZE * q <= u
    BY <1>1, <1>2 DEF q
  <2>5. BSIZE * MAXFILE \in Nat /\ BSIZE * q \in Nat
    BY <1>1, <2>1
  <2> QED BY <1>3, <2>2, <2>3, <2>4, <2>5
<1> QED BY <1>1, <1>2, <1>3 DEF q

\* A transfer that is not at its end is at a block that a file can have.
LEMMA Position ==
  ASSUME Assumptions, Typed, NEW p \in Procs, k[p].tot < k[p].n
  PROVE  /\ bn(p) \in 0..MAXFILE - 1 /\ bn(p) \in Slots
         /\ From(p) \in 0..BSIZE - 1 /\ k[p].off + k[p].tot < Limit
<1>1. k[p].off + k[p].tot \in Nat /\ k[p].off + k[p].tot < Limit
  BY Bounds DEF Typed, TypedCalls, Call
<1> DEFINE u == k[p].off + k[p].tot
<1>2. bn(p) = u \div BSIZE /\ From(p) = u % BSIZE
  BY DEF bn, From
<1> HIDE DEF u
<1>3. bn(p) \in 0..MAXFILE - 1 /\ From(p) \in 0..BSIZE - 1
  BY <1>1, <1>2, BlockNumber DEF u
<1> QED BY <1>1, <1>3, Bounds DEF Slots

\* Nobody else is touched by a write to a block that i has.
LEMMA FrameOne ==
  ASSUME Assumptions, Typed, OwnOK, NEW i \in Inums, NEW n \in Slots,
         NEW b \in Units, NEW v, Has(i, n, b), blk' = [blk EXCEPT ![b] = v]
  PROVE  Frame(i)
<1> SUFFICES ASSUME NEW j \in Inums \ {i}, NEW x \in Slots, NEW c \in Units,
                    Has(j, x, c)
             PROVE  blk'[c] = blk[c]
  BY DEF Frame
<1>1. c # b
  BY DEF OwnOK
<1>2. c \in Numbers
  BY HasType
<1> QED BY <1>1, <1>2 DEF Typed, TypedDisk

\* writei() writes to a block of the file: nobody gains or loses one.
LEMMA WriteBlockBlocks ==
  ASSUME Assumptions, Typed, CallsOK, BlocksOK, NEW p \in Procs, WriteBlock(p)
  PROVE  /\ HasSame /\ BlocksOK' /\ Frame(k[p].ip) /\ bitmap' = bitmap
         /\ Has(k[p].ip, bn(p), Addr(p)) /\ bn(p) \in 0..MAXFILE - 1
<1>1. PICK i \in Inums : i = k[p].ip /\ lock[i] = p /\ Only(p, i)
  BY InCallOnly DEF InCall
<1>2. k[p].pc = "write" /\ Addr(p) # Null /\ k[p].tot < k[p].n
      /\ bitmap' = bitmap /\ inode' = inode /\ lock' = lock
  BY DEF WriteBlock, More, At, Goes
<1>3. bn(p) \in 0..MAXFILE - 1 /\ bn(p) \in Slots
  BY <1>2, Position
<1> DEFINE b == Addr(p)
           v == [u \in DOMAIN blk[b] |->
                   IF u \in From(p)..From(p) + m(p) - 1 THEN Written(p)
                   ELSE blk[b][u]]
<1>4. blk' = [blk EXCEPT ![b] = v]
  BY DEF WriteBlock
<1> HIDE DEF b, v
<1>5. Has(i, bn(p), b)
  BY <1>1, <1>2, <1>3, HolderKept DEF Has, Freeing, Addr, b
<1>6. b \in Units /\ b \in bitmap /\ b \in Numbers
  BY <1>3, <1>5, HasType DEF BlocksOK
<1>7. Frame(i)
  BY <1>3, <1>4, <1>5, <1>6, FrameOne DEF BlocksOK
<1>8. \E tot : k'[p] = [k[p] EXCEPT !.tot = tot]
  BY DEF WriteBlock, Become, Typed, TypedCalls
<1>9. k'[p].pc = "write" /\ k'[p].new = k[p].new
  BY <1>2, <1>8, Holder DEF Call
<1>10. HasOwn(i)
  <2>1. Kept(i)' /\ Kept(i) /\ Begun(i)' = Begun(i)
    BY <1>1, <1>2, <1>9, HolderKept, Bounds
    DEF Kept, Begun, Truncated, Freeing
  <2>2. MAXFILE \in Slots /\ bn(p) # MAXFILE
    BY <1>3, Bounds DEF Slots
  <2>3. inode[i].addrs[NDIRECT] # Null => inode[i].addrs[NDIRECT] # b
    <3>1. inode[i].addrs[NDIRECT] # Null =>
            Has(i, MAXFILE, inode[i].addrs[NDIRECT])
      <4>1. Begun(i) = 0
        BY <1>1, <1>2, HolderKept DEF Freeing
      <4>2. Slot(inode[i], MAXFILE) = inode[i].addrs[NDIRECT]
        BY Bounds DEF Slot, MAXFILE
      <4> QED BY <2>1, <4>1, <4>2, Bounds DEF Has
    <3> QED BY <1>3, <1>5, <1>6, <2>2, <3>1 DEF BlocksOK, OwnOK
  <2>4. inode[i].addrs[NDIRECT] # Null => inode[i].addrs[NDIRECT] \in Numbers
    BY Bounds DEF Typed, TypedInodes, Inode, Pointers
  <2>5. \A n \in Slots : Slot(inode[i], n)' = Slot(inode[i], n)
    BY <1>2, <1>4, <2>3, <2>4, SlotSame DEF Typed, TypedDisk
  <2> QED BY <2>1, <2>5 DEF HasOwn, Has
<1>11. HasSame
  BY <1>1, <1>7, <1>10, HasOthers DEF HasSame, HasOwn
<1>12. OwnOK'
  <2>1. \A q \in Procs : k'[q].new = k[q].new
    BY <1>1, <1>9 DEF Only
  <2>2. \A q \in Procs : k[q].new \in Units
    BY DEF Typed, TypedCalls, Call, Units
  <2>3. \A c \in Numbers \ bitmap : blk'[c] = blk[c]
    BY <1>4, <1>6 DEF Typed, TypedDisk
  <2> QED BY <1>2, <1>11, <2>1, <2>2, <2>3 DEF BlocksOK, OwnOK, HasSame
<1>13. CursorOK(p)'
  BY <1>9 DEF CursorOK
<1>14. \A q \in Procs : CursorOK(q)'
  BY <1>1, <1>7, <1>13, CursorOthers
<1> QED
  BY <1>1, <1>2, <1>3, <1>5, <1>7, <1>11, <1>12, <1>14 DEF BlocksOK, b

\* Inode i gets block b in slot x, which was empty.
Gains(i, x, b) ==
  /\ Slot(inode[i], x) = Null
  /\ \A j \in Inums, n \in Slots, c \in Units :
       Has(j, n, c)' <=> (Has(j, n, c) \/ (j = i /\ n = x /\ c = b))

\* bmap() takes a free block for the inode.
LEMMA BmapInodeBlocks ==
  ASSUME Assumptions, Typed, CallsOK, BlocksOK, NEW p \in Procs, BmapInode(p)
  PROVE  /\ BlocksOK' /\ blk' = blk
         /\ \E b \in Numbers \ bitmap, x \in Slots :
              bitmap' = bitmap \cup {b} /\ Gains(k[p].ip, x, b)
<1>1. PICK i \in Inums : i = k[p].ip /\ lock[i] = p /\ Only(p, i)
  BY InCallOnly DEF InCall
<1>2. k[p].pc = "write" /\ k[p].tot < k[p].n /\ k' = k
      /\ blk' = blk /\ lock' = lock
  BY DEF BmapInode, More, At, Goes
<1> DEFINE a == IF bn(p) < NDIRECT THEN bn(p) ELSE NDIRECT
           x == IF bn(p) < NDIRECT THEN bn(p) ELSE MAXFILE
<1>3. PICK b \in Numbers : /\ b \notin bitmap /\ bitmap' = bitmap \cup {b}
                           /\ inode' = [inode EXCEPT ![i].addrs[a] = b]
  BY <1>1 DEF BmapInode, balloc
<1>4. inode[i].addrs[a] = Null
  BY <1>1 DEF BmapInode
<1>5. bn(p) \in 0..MAXFILE - 1
  BY <1>2, Position
<1>6. x \in Slots /\ a \in 0..NDIRECT
  BY <1>5, Bounds DEF Slots
<1>7. /\ inode'[i].addrs[a] = b
      /\ \A n \in 0..NDIRECT : n # a => inode'[i].addrs[n] = inode[i].addrs[n]
  BY <1>3, <1>6 DEF Typed, TypedInodes, Inode
<1>8. ASSUME NEW n \in Slots
      PROVE  /\ n # x => Slot(inode[i], n)' = Slot(inode[i], n)
             /\ n = x => Slot(inode[i], n)' = b /\ Slot(inode[i], n) = Null
  <2>1. CASE n < NDIRECT
    BY <1>4, <1>7, <2>1, Bounds DEF Slot, Slots, MAXFILE
  <2>2. CASE n = MAXFILE
    BY <1>4, <1>7, <2>2, Bounds DEF Slot, Slots, MAXFILE
  <2>3. CASE NDIRECT <= n /\ n < MAXFILE
    <3>1. InTable(inode[i])' = InTable(inode[i])
      <4>1. CASE a = NDIRECT
        <5>1. blk[b] = Zeros
          BY <1>3 DEF BlocksOK, OwnOK
        <5> QED BY <1>2, <1>4, <1>7, <4>1, <5>1, Bounds DEF InTable
      <4>2. CASE a # NDIRECT
        BY <1>2, <1>7, <4>2, Bounds DEF InTable
      <4> QED BY <4>1, <4>2
    <3>2. n # x
      BY <1>5, <2>3, Bounds DEF Slots
    <3>3. ~(n < NDIRECT)
      BY <2>3, Bounds DEF Slots
    <3> QED BY <2>3, <3>1, <3>2, <3>3 DEF Slot
  <2> QED BY <2>1, <2>2, <2>3, Bounds DEF Slots
<1> HIDE DEF x, a
<1>9. Kept(i) /\ Kept(i)' /\ Begun(i)' = Begun(i) /\ Begun(i) = 0
  BY <1>1, <1>2, HolderKept, Bounds DEF Kept, Begun, Truncated, Freeing
<1>10. ASSUME NEW n \in Slots, NEW c
       PROVE  Has(i, n, c)' <=> (Has(i, n, c) \/ (n = x /\ c = b))
  <2>1. b # Null /\ n >= 0
    BY Bounds DEF Slots
  <2>2. CASE n = x
    BY <1>8, <1>9, <2>1, <2>2 DEF Has
  <2>3. CASE n # x
    BY <1>8, <1>9, <2>1, <2>3 DEF Has
  <2> QED BY <2>2, <2>3
<1>11. Frame(i)
  BY <1>2, FrameQuiet
<1>12. \A j \in Inums, n \in Slots, c \in Units :
         Has(j, n, c)' <=> (Has(j, n, c) \/ (j = i /\ n = x /\ c = b))
  <2> SUFFICES ASSUME NEW j \in Inums, NEW n \in Slots, NEW c \in Units
               PROVE  Has(j, n, c)'
                        <=> (Has(j, n, c) \/ (j = i /\ n = x /\ c = b))
    OBVIOUS
  <2>1. CASE j = i
    BY <1>10, <2>1
  <2>2. CASE j # i
    BY <1>1, <1>11, <2>2, HasOthers
  <2> QED BY <2>1, <2>2
<1>13. OwnOK'
  <2>1. \A j \in Inums, n \in Slots : ~Has(j, n, b)
    BY <1>3, HasType DEF BlocksOK
  <2>2. \A q \in Procs : k[q].new # b
    BY <1>3, Bounds DEF BlocksOK, OwnOK
  <2>3. b \in Units
    BY DEF Units, Pointers
  <2>4. \A q \in Procs : k[q].new \in Units
    BY DEF Typed, TypedCalls, Call, Units
  <2> QED
    BY <1>2, <1>3, <1>12, <2>1, <2>2, <2>3, <2>4 DEF BlocksOK, OwnOK
<1>14. \A q \in Procs : CursorOK(q)'
  <2>1. CursorOK(p)'
    BY <1>2 DEF CursorOK
  <2> QED BY <1>1, <1>11, <2>1, CursorOthers
<1>15. Slot(inode[i], x) = Null
  BY <1>6, <1>8
<1>16. b \in Numbers \ bitmap /\ x \in Slots
  BY <1>3, <1>6
<1>17. Gains(i, x, b)
  BY <1>12, <1>15 DEF Gains
<1> QED BY <1>1, <1>2, <1>3, <1>13, <1>14, <1>16, <1>17 DEF BlocksOK

\* balloc() marks a block that nobody has; bmap() keeps it.
LEMMA BmapTableBlocks ==
  ASSUME Assumptions, Typed, CallsOK, BlocksOK, NEW p \in Procs, BmapTable(p)
  PROVE  /\ BlocksOK' /\ HasSame /\ blk' = blk
         /\ \E b \in Numbers \ bitmap : /\ bitmap' = bitmap \cup {b}
                                        /\ k'[p].new = b
<1>1. PICK i \in Inums : i = k[p].ip /\ lock[i] = p /\ Only(p, i)
  BY InCallOnly DEF InCall
<1>2. k[p].pc = "write" /\ blk' = blk /\ inode' = inode /\ lock' = lock
      /\ Addr(p) = Null /\ k[p] \in Call
  BY Holder DEF BmapTable, More, At, Goes
<1>3. PICK b \in Numbers : /\ b \notin bitmap /\ bitmap' = bitmap \cup {b}
                           /\ k'[p] = [k[p] EXCEPT !.pc = "table", !.new = b]
  BY DEF BmapTable, balloc, Become, Typed, TypedCalls
<1>4. /\ k'[p].pc = "table" /\ k'[p].new = b /\ k'[p].ip = i
      /\ k'[p].off = k[p].off /\ k'[p].tot = k[p].tot
  BY <1>1, <1>2, <1>3 DEF Call
<1>5. HasOwn(i)
  <2>1. Kept(i) /\ Kept(i)' /\ Begun(i)' = Begun(i)
    BY <1>1, <1>2, <1>4, HolderKept, Bounds DEF Kept, Begun, Truncated, Freeing
  <2> QED BY <1>2, <2>1, OwnKept
<1>6. Frame(i)
  BY <1>2, FrameQuiet
<1>7. HasSame
  BY <1>1, <1>5, <1>6, HasOthers DEF HasSame, HasOwn
<1>8. OwnOK'
  <2>1. \A j \in Inums, n \in Slots : ~Has(j, n, b)
    BY <1>3, HasType DEF BlocksOK
  <2>2. \A q \in Procs : k[q].new # b
    BY <1>3, Bounds DEF BlocksOK, OwnOK
  <2>3. b \in Units
    BY DEF Units, Pointers
  <2>4. \A q \in Procs : k[q].new \in Units
    BY DEF Typed, TypedCalls, Call, Units
  <2>5. \A q \in Procs \ {p} : k'[q].new = k[q].new
    BY <1>1 DEF Only
  <2>6. \A q \in Procs : k'[q].new # Null =>
          /\ k'[q].new \in bitmap'
          /\ \A j \in Inums, n \in Slots : ~Has(j, n, k[q].new)'
          /\ \A q2 \in Procs \ {q} : k'[q2].new # k'[q].new
    <3> SUFFICES ASSUME NEW q \in Procs, k'[q].new # Null
                 PROVE  /\ k'[q].new \in bitmap'
                        /\ \A j \in Inums, n \in Slots : ~Has(j, n, k[q].new)'
                        /\ \A q2 \in Procs \ {q} : k'[q2].new # k'[q].new
      OBVIOUS
    <3>1. CASE q = p
      BY <1>3, <1>4, <1>7, <2>1, <2>2, <2>3, <2>5, <3>1 DEF HasSame
    <3>2. CASE q # p
      <4>1. k'[q].new = k[q].new /\ k[q].new \in bitmap /\ k[q].new # b
        BY <2>2, <2>5, <3>2 DEF BlocksOK, OwnOK
      <4>2. \A j \in Inums, n \in Slots : ~Has(j, n, k[q].new)'
        BY <1>7, <2>4, <4>1 DEF HasSame, BlocksOK, OwnOK
      <4>3. \A q2 \in Procs \ {q} : k'[q2].new # k[q].new
        BY <1>4, <2>5, <4>1 DEF BlocksOK, OwnOK
      <4> QED BY <1>3, <4>1, <4>2, <4>3
    <3> QED BY <3>1, <3>2
  <2>7. \A c \in Numbers \ bitmap' : blk'[c] = Zeros
    BY <1>2, <1>3 DEF BlocksOK, OwnOK
  <2> QED
    BY <1>3, <1>7, <2>6, <2>7 DEF BlocksOK, OwnOK, HasSame
<1>9. \A q \in Procs : CursorOK(q)'
  <2>1. Addr(p)' = Addr(p)
    <3>1. bn(p)' = bn(p)
      BY <1>4 DEF bn
    <3> QED BY <1>1, <1>2, <1>4, <3>1 DEF Addr, Slot, InTable
  <2>2. CursorOK(p)'
    BY <1>2, <1>4, <2>1 DEF CursorOK
  <2> QED BY <1>1, <1>6, <2>2, CursorOthers
<1> QED BY <1>2, <1>3, <1>4, <1>7, <1>8, <1>9 DEF BlocksOK

\* Then the table is written.
LEMMA BmapTableWriteBlocks ==
  ASSUME Assumptions, Typed, CallsOK, BlocksOK, NEW p \in Procs,
         BmapTableWrite(p), Typed'
  PROVE  /\ BlocksOK' /\ Frame(k[p].ip) /\ bitmap' = bitmap
         /\ Has(k[p].ip, MAXFILE, Table(p)) /\ Table(p) \in Numbers
         /\ bn(p) \in Slots /\ Gains(k[p].ip, bn(p), k[p].new)
         /\ \A c \in Numbers : c # Table(p) => blk'[c] = blk[c]
<1>1. PICK i \in Inums : i = k[p].ip /\ lock[i] = p /\ Only(p, i)
  BY InCallOnly DEF InCall
<1>2. /\ k[p].pc = "table" /\ bitmap' = bitmap /\ inode' = inode
      /\ lock' = lock /\ k[p] \in Call /\ CallOK(p)
  BY Holder DEF BmapTableWrite, At, Goes
<1>3. /\ k[p].tot < k[p].n /\ bn(p) >= NDIRECT /\ Table(p) # Null
      /\ k[p].new # Null /\ Addr(p) = Null /\ k[p].new \in bitmap
  BY <1>2 DEF CallOK, BlocksOK, CursorOK, OwnOK
<1>4. PICK x : x = bn(p)
  OBVIOUS
<1>5. x \in 0..MAXFILE - 1 /\ x \in Slots /\ x >= NDIRECT
  BY <1>3, <1>4, Position
<1>6. PICK b : b = k[p].new
  OBVIOUS
<1>7. PICK t : t = inode[i].addrs[NDIRECT]
  OBVIOUS
<1>8. t = Table(p) /\ t \in Numbers
  BY <1>1, <1>3, <1>7, Bounds DEF Table, Typed, TypedInodes, Inode, Pointers
<1>9. blk' = [blk EXCEPT ![t] = [blk[t] EXCEPT ![x - NDIRECT] = b]]
  BY <1>4, <1>6, <1>8 DEF BmapTableWrite
<1>10. Kept(i) /\ Kept(i)' /\ Begun(i) = 0 /\ Begun(i)' = 0
  <2>1. k'[p].pc = "write"
    BY <1>2 DEF BmapTableWrite, Become, Typed, TypedCalls, Call
  <2> QED
    BY <1>1, <1>2, <2>1, HolderKept, Bounds DEF Kept, Begun, Truncated, Freeing
<1>11. Has(i, MAXFILE, t) /\ MAXFILE \in Slots
  BY <1>7, <1>8, <1>10, Bounds DEF Has, Slot, MAXFILE, Slots
<1>12. t \in Units
  BY <1>11, HasType
<1>13. Frame(i)
  BY <1>9, <1>11, <1>12, FrameOne DEF BlocksOK
<1>14. Slot(inode[i], x) = Null
  BY <1>1, <1>3, <1>4 DEF Addr
<1>15. ASSUME NEW n \in Slots
       PROVE  /\ n # x => Slot(inode[i], n)' = Slot(inode[i], n)
              /\ n = x => Slot(inode[i], n)' = b
  <2>1. InTable(inode[i]) = blk[t] /\ InTable(inode[i])' = blk'[t]
    BY <1>2, <1>7, <1>8, Bounds DEF InTable
  <2>2. blk[t] \in [DOMAIN Zeros -> Units]
    BY <1>8 DEF Typed, TypedDisk
  <2>3. CASE NDIRECT <= n /\ n < MAXFILE
    <3>1. n - NDIRECT \in DOMAIN Zeros /\ x - NDIRECT \in DOMAIN Zeros
      BY <1>5, <2>3, Bounds DEF Slots, Zeros, MAXFILE
    <3>2. n # x => n - NDIRECT # x - NDIRECT
      BY <1>5, Bounds DEF Slots
    <3>3. blk'[t][n - NDIRECT] = IF n = x THEN b ELSE blk[t][n - NDIRECT]
      BY <1>8, <1>9, <2>2, <3>1, <3>2 DEF Typed, TypedDisk
    <3>4. ~(n < NDIRECT)
      BY <2>3, Bounds DEF Slots
    <3> QED BY <2>1, <2>3, <3>3, <3>4 DEF Slot
  <2>4. CASE n < NDIRECT \/ n = MAXFILE
    <3>1. n # x
      BY <1>5, <2>4, Bounds DEF Slots
    <3> QED BY <1>2, <2>4, <3>1, Bounds DEF Slot, MAXFILE
  <2> QED BY <2>3, <2>4, Bounds DEF Slots
<1>16. ASSUME NEW n \in Slots, NEW c
       PROVE  Has(i, n, c)' <=> (Has(i, n, c) \/ (n = x /\ c = b))
  <2>1. b # Null /\ n >= 0
    BY <1>3, <1>6, Bounds DEF Slots
  <2>2. CASE n = x
    BY <1>10, <1>14, <1>15, <2>1, <2>2 DEF Has
  <2>3. CASE n # x
    BY <1>10, <1>15, <2>1, <2>3 DEF Has
  <2> QED BY <2>2, <2>3
<1>17. \A j \in Inums, n \in Slots, c \in Units :
         Has(j, n, c)' <=> (Has(j, n, c) \/ (j = i /\ n = x /\ c = b))
  <2> SUFFICES ASSUME NEW j \in Inums, NEW n \in Slots, NEW c \in Units
               PROVE  Has(j, n, c)'
                        <=> (Has(j, n, c) \/ (j = i /\ n = x /\ c = b))
    OBVIOUS
  <2>1. CASE j = i
    BY <1>16, <2>1
  <2>2. CASE j # i
    BY <1>1, <1>13, <2>2, HasOthers
  <2> QED BY <2>1, <2>2
<1>18. k'[p].new = Null /\ k'[p].pc = "write"
  BY <1>2 DEF BmapTableWrite, Become, Typed, TypedCalls, Call
<1>19. OwnOK'
  <2>1. (\A j \in Inums, n \in Slots : ~Has(j, n, b)) /\ b \in bitmap
        /\ \A q \in Procs \ {p} : k[q].new # b
    BY <1>3, <1>6 DEF BlocksOK, OwnOK
  <2>2. \A q \in Procs \ {p} : k'[q].new = k[q].new
    BY <1>1 DEF Only
  <2>3. \A q \in Procs : k[q].new \in Units
    BY DEF Typed, TypedCalls, Call, Units
  <2>4. \A c \in Numbers \ bitmap : blk'[c] = blk[c]
    <3>1. t \in bitmap
      BY <1>11, HasType DEF BlocksOK
    <3> QED BY <1>9, <3>1 DEF Typed, TypedDisk
  <2>5. \A j \in Inums, n \in Slots, c \in Units :
          Has(j, n, c)' => c \in bitmap'
    BY <1>2, <1>17, <2>1 DEF BlocksOK, OwnOK
  <2>6. \A j, l \in Inums, n, y \in Slots, c \in Units :
          Has(j, n, c)' /\ Has(l, y, c)' => j = l /\ n = y
    BY <1>17, <2>1 DEF BlocksOK, OwnOK
  <2>7. \A q \in Procs : k'[q].new # Null =>
          /\ k'[q].new \in bitmap'
          /\ \A q2 \in Procs \ {q} : k'[q2].new # k'[q].new
    BY <1>2, <1>18, <2>2 DEF BlocksOK, OwnOK
  <2>8. ASSUME NEW q \in Procs, k'[q].new # Null,
               NEW j \in Inums, NEW n \in Slots
        PROVE  ~Has(j, n, k[q].new)' /\ k'[q].new = k[q].new
    <3>1. q # p /\ k'[q].new = k[q].new /\ k[q].new \in Units
      BY <1>18, <2>2, <2>3, <2>8
    <3>2. PICK c \in Units : c = k[q].new
      BY <3>1
    <3>3. ~Has(j, n, c) /\ c # b
      BY <2>1, <2>8, <3>1, <3>2 DEF BlocksOK, OwnOK
    <3>4. ~Has(j, n, c)'
      BY <1>17, <3>3
    <3>5. k'[q].new = c
      BY <3>1, <3>2
    <3> QED BY <3>1, <3>4, <3>5
  <2>9. \A c \in Numbers \ bitmap' : blk'[c] = Zeros
    BY <1>2, <2>4 DEF BlocksOK, OwnOK
  <2> QED BY <2>5, <2>6, <2>7, <2>8, <2>9 DEF OwnOK
<1>20. \A q \in Procs : CursorOK(q)'
  <2>1. CursorOK(p)'
    BY <1>18 DEF CursorOK
  <2> QED BY <1>1, <1>13, <2>1, CursorOthers
<1>21. Gains(i, x, b)
  BY <1>14, <1>17 DEF Gains
<1>22. \A c \in Numbers : c # t => blk'[c] = blk[c]
  BY <1>9 DEF Typed, TypedDisk
<1> QED
  BY <1>1, <1>2, <1>4, <1>5, <1>6, <1>8, <1>11, <1>13, <1>19, <1>20, <1>21,
     <1>22
  DEF BlocksOK

\* itrunc() zeroes the first block that is left.
LEMMA ZeroBlocks ==
  ASSUME Assumptions, Typed, CallsOK, BlocksOK, NEW p \in Procs,
         Zero(p), Typed'
  PROVE  /\ BlocksOK' /\ HasSame /\ Frame(k[p].ip) /\ bitmap' = bitmap
<1>1. PICK i \in Inums : i = k[p].ip /\ lock[i] = p /\ Only(p, i)
  BY InCallOnly DEF InCall
<1>2. /\ k[p].pc = "bfree" /\ bitmap' = bitmap /\ inode' = inode
      /\ lock' = lock /\ k[p] \in Call
  BY Holder DEF Zero, At, Goes
<1>3. PICK at : at = k[p].at
  OBVIOUS
<1>4. at \in Nat
  BY <1>2, <1>3 DEF Call
<1>5. PICK x \in Slots :
        /\ x >= at /\ Slot(inode[i], x) # Null
        /\ \A n \in Slots : n >= at /\ Slot(inode[i], n) # Null => x <= n
        /\ blk' = [blk EXCEPT ![Slot(inode[i], x)] = Zeros]
        /\ k'[p] = [k[p] EXCEPT !.pc = "clear", !.at = x]
  BY <1>1, <1>3 DEF Zero, Left, Become, Typed, TypedCalls
<1>6. PICK b : b = Slot(inode[i], x)
  OBVIOUS
<1>7. /\ k'[p].pc = "clear" /\ k'[p].at = x /\ k'[p].ip = i
      /\ k'[p].new = k[p].new
  BY <1>1, <1>2, <1>5 DEF Call
<1>8. /\ Kept(i) /\ Kept(i)' /\ Begun(i) = at /\ Begun(i)' = x
  BY <1>1, <1>2, <1>3, <1>7, HolderKept, Bounds
  DEF Kept, Begun, Truncated, Freeing
<1>9. Has(i, x, b)
  BY <1>5, <1>6, <1>8 DEF Has
<1>10. b \in Units /\ b \in Numbers /\ b \in bitmap
  BY <1>9, HasType DEF BlocksOK
<1>11. Frame(i)
  BY <1>5, <1>6, <1>9, <1>10, FrameOne DEF BlocksOK
<1>12. ASSUME NEW n \in Slots, n >= x
       PROVE  Slot(inode[i], n)' = Slot(inode[i], n)
  <2>1. CASE n = MAXFILE
    BY <1>2, <2>1, Bounds DEF Slot, MAXFILE
  <2>2. CASE n # MAXFILE
    <3>1. MAXFILE \in Slots /\ x # MAXFILE /\ MAXFILE >= at
      BY <1>4, <1>5, <1>12, <2>2, Bounds DEF Slots
    <3>2. ASSUME inode[i].addrs[NDIRECT] # Null
          PROVE  blk'[inode[i].addrs[NDIRECT]] = blk[inode[i].addrs[NDIRECT]]
      <4>1. PICK t \in Numbers : t = inode[i].addrs[NDIRECT]
        BY <3>2, Bounds DEF Typed, TypedInodes, Inode, Pointers
      <4>2. Has(i, MAXFILE, t)
        BY <1>8, <3>1, <3>2, <4>1, Bounds DEF Has, Slot, MAXFILE
      <4>3. t # b
        BY <1>9, <1>10, <3>1, <4>2 DEF BlocksOK, OwnOK
      <4> QED BY <1>5, <1>6, <4>1, <4>3 DEF Typed, TypedDisk
    <3> QED BY <1>2, <3>2, SlotSame
  <2> QED BY <2>1, <2>2
<1>13. HasOwn(i)
  <2> SUFFICES ASSUME NEW n \in Slots, NEW c \in Units
               PROVE  Has(i, n, c)' <=> Has(i, n, c)
    BY DEF HasOwn
  <2>1. CASE n >= x
    <3>1. n >= at
      BY <1>4, <1>5, <2>1, Bounds DEF Slots
    <3> QED BY <1>8, <1>12, <2>1, <3>1 DEF Has
  <2>2. CASE ~(n >= x)
    <3>1. ~Has(i, n, c)'
      BY <1>8, <2>2 DEF Has
    <3>2. n >= at => Slot(inode[i], n) = Null
      BY <1>5, <2>2, Bounds DEF Slots
    <3> QED BY <1>8, <3>1, <3>2 DEF Has
  <2> QED BY <2>1, <2>2
<1>14. HasSame
  BY <1>1, <1>11, <1>13, HasOthers DEF HasSame, HasOwn
<1>15. OwnOK'
  <2>1. \A q \in Procs : k'[q].new = k[q].new
    BY <1>1, <1>7 DEF Only
  <2>2. \A q \in Procs : k[q].new \in Units
    BY DEF Typed, TypedCalls, Call, Units
  <2>3. \A c \in Numbers \ bitmap : blk'[c] = blk[c]
    BY <1>5, <1>6, <1>10 DEF Typed, TypedDisk
  <2> QED BY <1>2, <1>14, <2>1, <2>2, <2>3 DEF BlocksOK, OwnOK, HasSame
<1>16. CursorOK(p)'
  <2>1. Slot(inode[i], x)' = b
    BY <1>5, <1>6, <1>12, Bounds DEF Slots
  <2>2. Slot(inode[k[p].ip], k[p].at)' = b
    BY <1>7, <2>1 DEF Slot, InTable
  <2>3. blk'[b] = Zeros
    BY <1>5, <1>6, <1>10 DEF Typed, TypedDisk
  <2> QED BY <1>5, <1>6, <1>7, <2>2, <2>3 DEF CursorOK
<1>17. \A q \in Procs : CursorOK(q)'
  BY <1>1, <1>11, <1>16, CursorOthers
<1> QED BY <1>1, <1>2, <1>11, <1>14, <1>15, <1>17 DEF BlocksOK

\* Inode i gives away its block in slot x, the block b.
Loses(i, x, b) ==
  /\ Has(i, x, b)
  /\ \A j \in Inums, n \in Slots, c \in Units :
       Has(j, n, c)' <=> (Has(j, n, c) /\ ~(j = i /\ n = x))

\* The block is marked: bfree() frees it.
LEMMA ClearBlocks ==
  ASSUME Assumptions, Typed, CallsOK, BlocksOK, NEW p \in Procs,
         Clear(p), Typed'
  PROVE  /\ BlocksOK' /\ blk' = blk /\ panicked' = panicked
         /\ \E b \in Numbers, x \in Slots :
              /\ bitmap' = bitmap \ {b} /\ Loses(k[p].ip, x, b)
              /\ \A q \in Procs : k'[q].new = k[q].new
<1>1. PICK i \in Inums : i = k[p].ip /\ lock[i] = p /\ Only(p, i)
  BY InCallOnly DEF InCall
<1>2. /\ k[p].pc = "clear" /\ blk' = blk /\ inode' = inode
      /\ lock' = lock /\ k[p] \in Call /\ CallOK(p)
  BY Holder DEF Clear, At, Goes, Panic, diskVars
<1>3. PICK x \in Slots : x = k[p].at
  BY <1>2 DEF CallOK
<1>4. PICK b : b = Slot(inode[i], x)
  OBVIOUS
<1>5. b # Null /\ blk[b] = Zeros
  BY <1>1, <1>2, <1>3, <1>4 DEF BlocksOK, CursorOK
<1>6. Kept(i) /\ Begun(i) = x
  BY <1>1, <1>2, <1>3, HolderKept DEF Freeing
<1>7. Has(i, x, b)
  BY <1>4, <1>5, <1>6, Bounds DEF Has, Slots
<1>8. b \in Units /\ b \in Numbers /\ b \in bitmap
  BY <1>7, HasType DEF BlocksOK
<1>9. /\ bitmap' = bitmap \ {b} /\ Goes
      /\ k'[p] = [k[p] EXCEPT !.pc = "bfree", !.at = @ + 1]
  BY <1>1, <1>3, <1>4, <1>8 DEF Clear, Become, Typed, TypedCalls
<1>10. k'[p].pc = "bfree" /\ k'[p].at = x + 1 /\ k'[p].new = k[p].new
  BY <1>2, <1>3, <1>9 DEF Call
<1>11. Kept(i)' /\ Begun(i)' = x + 1
  BY <1>1, <1>2, <1>10, Bounds DEF Kept, Begun, Truncated, Freeing
<1>12. ASSUME NEW n \in Slots
       PROVE  Slot(inode[i], n)' = Slot(inode[i], n)
  BY <1>2, SlotSame
<1>13. ASSUME NEW n \in Slots, NEW c
       PROVE  Has(i, n, c)' <=> (Has(i, n, c) /\ n # x)
  <2>1. n >= x + 1 <=> n >= x /\ n # x
    BY Bounds DEF Slots
  <2> QED BY <1>6, <1>11, <1>12, <2>1 DEF Has
<1>14. Frame(i)
  BY <1>2, FrameQuiet
<1>15. \A j \in Inums, n \in Slots, c \in Units :
         Has(j, n, c)' <=> (Has(j, n, c) /\ ~(j = i /\ n = x))
  <2> SUFFICES ASSUME NEW j \in Inums, NEW n \in Slots, NEW c \in Units
               PROVE  Has(j, n, c)' <=> (Has(j, n, c) /\ ~(j = i /\ n = x))
    OBVIOUS
  <2>1. CASE j = i
    BY <1>13, <2>1
  <2>2. CASE j # i
    BY <1>1, <1>14, <2>2, HasOthers
  <2> QED BY <2>1, <2>2
<1>16. Loses(i, x, b)
  BY <1>7, <1>15 DEF Loses
<1>17. \A q \in Procs : k'[q].new = k[q].new
  BY <1>1, <1>10 DEF Only
<1>18. OwnOK'
  <2>1. \A q \in Procs : k[q].new \in Units
    BY DEF Typed, TypedCalls, Call, Units
  <2>2. \A q \in Procs : k[q].new # Null => k[q].new # b
    BY <1>7 DEF BlocksOK, OwnOK
  <2>3. \A j \in Inums, n \in Slots, c \in Units :
          Has(j, n, c)' => c \in bitmap'
    BY <1>7, <1>8, <1>9, <1>15 DEF BlocksOK, OwnOK
  <2>4. \A j, l \in Inums, n, y \in Slots, c \in Units :
          Has(j, n, c)' /\ Has(l, y, c)' => j = l /\ n = y
    BY <1>15 DEF BlocksOK, OwnOK
  <2>5. ASSUME NEW q \in Procs, k'[q].new # Null
        PROVE  /\ k'[q].new \in bitmap'
               /\ \A j \in Inums, n \in Slots : ~Has(j, n, k[q].new)'
               /\ \A q2 \in Procs \ {q} : k'[q2].new # k'[q].new
    <3>1. PICK c \in Units : c = k[q].new /\ k'[q].new = c
      BY <1>17, <2>1
    <3>2. c \in bitmap /\ c # b /\ \A j \in Inums, n \in Slots : ~Has(j, n, c)
      BY <2>2, <2>5, <3>1 DEF BlocksOK, OwnOK
    <3>3. \A j \in Inums, n \in Slots : ~Has(j, n, c)'
      BY <1>15, <3>2
    <3>4. \A j \in Inums, n \in Slots : ~Has(j, n, k[q].new)'
      BY <3>1, <3>3
    <3>5. \A q2 \in Procs \ {q} : k'[q2].new # c
      BY <1>17, <2>5, <3>1 DEF BlocksOK, OwnOK
    <3> QED BY <1>9, <3>1, <3>2, <3>4, <3>5
  <2>6. \A c \in Numbers \ bitmap' : blk'[c] = Zeros
    BY <1>2, <1>5, <1>9 DEF BlocksOK, OwnOK
  <2> QED BY <2>3, <2>4, <2>5, <2>6 DEF OwnOK
<1>19. \A q \in Procs : CursorOK(q)'
  <2>1. CursorOK(p)'
    BY <1>10 DEF CursorOK
  <2> QED BY <1>1, <1>14, <2>1, CursorOthers
<1> QED
  BY <1>1, <1>2, <1>8, <1>9, <1>16, <1>17, <1>18, <1>19 DEF BlocksOK, Goes

-----------------------------------------------------------------------------
(* Opening a file, the end of the disk, a power failure, and the beginning. *)

\* The block in slot n of an inode on the disk, if there is one, is the one
\* that the inode in memory has there.
LEMMA DiskSlot ==
  ASSUME Assumptions, Typed, NEW i \in Inums, InodeOK(i), NEW n \in Slots
  PROVE  Slot(dinode[i], n) \in {Null, Slot(inode[i], n)}
<1>1. /\ dinode[i].addrs[NDIRECT] \in {Null, inode[i].addrs[NDIRECT]}
      /\ n < NDIRECT => dinode[i].addrs[n] \in {Null, inode[i].addrs[n]}
  BY Bounds DEF InodeOK, Slots
<1>2. CASE n < NDIRECT
  BY <1>1, <1>2 DEF Slot
<1>3. CASE ~(n < NDIRECT)
  <2>1. CASE dinode[i].addrs[NDIRECT] = Null
    <3>1. Slot(dinode[i], n) = Null
      BY <1>3, <2>1, TableSlot, Bounds DEF Slots
    <3> QED BY <3>1
  <2>2. CASE dinode[i].addrs[NDIRECT] = inode[i].addrs[NDIRECT]
    BY <1>3, <2>2 DEF Slot, InTable
  <2> QED BY <1>1, <2>1, <2>2
<1> QED BY <1>2, <1>3

\* Nothing changes about the blocks.
LEMMA SameBlocks ==
  ASSUME Assumptions, Typed, BlocksOK,
         UNCHANGED <<blk, bitmap, inode, lock, k>>,
         \A i \in Inums : Kept(i)' <=> Kept(i)
  PROVE  HasSame /\ BlocksOK'
<1>1. HasSame
  <2> SUFFICES ASSUME NEW i \in Inums, NEW n \in Slots, NEW b \in Units
               PROVE  Has(i, n, b)' <=> Has(i, n, b)
    BY DEF HasSame
  <2>1. Begun(i)' = Begun(i)
    BY DEF Begun, Truncated
  <2> QED BY <2>1 DEF Has, Slot, InTable
<1>2. OwnOK'
  <2>1. \A q \in Procs : k[q].new \in Units
    BY DEF Typed, TypedCalls, Call, Units
  <2> QED BY <1>1, <2>1 DEF BlocksOK, OwnOK, HasSame
<1>3. ASSUME NEW q \in Procs
      PROVE  CursorOK(q)'
  <2>1. CursorOK(q) /\ Addr(q)' = Addr(q)
    BY DEF BlocksOK, Addr, bn, Slot, InTable
  <2> QED BY <2>1 DEF CursorOK, Slot, InTable
<1> QED BY <1>1, <1>2, <1>3 DEF BlocksOK

\* A file that can be opened has its blocks already.
LEMMA OpenBlocks ==
  ASSUME Assumptions, Typed, CallsOK, BlocksOK, NEW f \in Files,
         NEW i \in Inums, Open(f, i)
  PROVE  HasSame /\ BlocksOK' /\ \A j \in Inums : Kept(j)' <=> Kept(j)
<1>1. /\ dinode[i].nlink > 0 /\ file[f].ip = Null
      /\ file' = [file EXCEPT ![f] = [ip |-> i, off |-> 0]]
      /\ UNCHANGED <<blk, bitmap, inode, lock, k>>
  BY DEF Open, diskVars
<1>2. inode[i].nlink > 0
  BY <1>1 DEF CallsOK, InodeOK
<1>3. ASSUME NEW j \in Inums
      PROVE  Kept(j)' <=> Kept(j)
  <2>1. CASE j = i
    BY <1>1, <1>2, <2>1 DEF Kept
  <2>2. CASE j # i
    <3>1. Opened(j)' <=> Opened(j)
      BY <1>1, <2>2, Bounds DEF Opened, Typed, TypedFiles
    <3> QED BY <1>1, <3>1 DEF Kept
  <2> QED BY <2>1, <2>2
<1> QED BY <1>1, <1>3, SameBlocks

\* The panic of balloc() changes nothing about the blocks.
LEMMA OutOfBlocksBlocks ==
  ASSUME Assumptions, Typed, BlocksOK, NEW p \in Procs, OutOfBlocks(p)
  PROVE  HasSame /\ BlocksOK'
<1>1. UNCHANGED <<blk, bitmap, inode, lock, file, k>>
  BY DEF OutOfBlocks, Panic, diskVars
<1>2. \A i \in Inums : Kept(i)' <=> Kept(i)
  BY <1>1 DEF Kept, Opened
<1> QED BY <1>1, <1>2, SameBlocks

\* After a power failure, who has a block had it before.
LEMMA CrashBlocks ==
  ASSUME Assumptions, Typed, CallsOK, BlocksOK, Crash
  PROVE  /\ BlocksOK' /\ blk' = blk /\ bitmap' = bitmap /\ inode' = dinode
         /\ \A j \in Inums : Kept(j)' => Kept(j) /\ ~Truncated(j)
<1>1. /\ inode' = dinode /\ blk' = blk /\ bitmap' = bitmap
      /\ lock' = [i \in Inums |-> Null] /\ file' = [f \in Files |-> Closed]
      /\ k' = [p \in Procs |-> User]
  BY DEF Crash, diskVars
<1>2. ASSUME NEW j \in Inums, Kept(j)'
      PROVE  Kept(j) /\ ~Truncated(j)
  <2>1. ~Opened(j)' /\ lock'[j] = Null
    BY <1>1, Bounds DEF Opened, Closed
  <2>2. dinode[j].nlink > 0 /\ inode[j].nlink > 0
    BY <1>1, <1>2, <2>1 DEF Kept, CallsOK, InodeOK
  <2>3. ~Truncated(j)
    <3> SUFFICES ASSUME Truncated(j)
                 PROVE  FALSE
      OBVIOUS
    <3>1. PICK q \in Procs : lock[j] = q
      BY DEF Truncated, Typed, TypedFiles
    <3>2. k[q].ip = j /\ Freeing(k[q]) /\ CallOK(q)
      BY <3>1, Holder DEF Truncated
    <3> QED BY <2>2, <3>2 DEF CallOK
  <2> QED BY <2>2, <2>3 DEF Kept
<1>3. ASSUME NEW j \in Inums, NEW n \in Slots, NEW b, Has(j, n, b)'
      PROVE  Has(j, n, b)
  <2>1. Kept(j) /\ ~Truncated(j) /\ b # Null
    BY <1>2, <1>3 DEF Has
  <2>2. Slot(dinode[j], n) = b
    BY <1>1, <1>3 DEF Has, Slot, InTable
  <2>3. Slot(inode[j], n) = b
    BY <2>1, <2>2, DiskSlot DEF CallsOK
  <2> QED BY <2>1, <2>3, Bounds DEF Has, Begun, Slots
<1>4. OwnOK'
  <2>1. \A q \in Procs : k'[q].new = Null
    BY <1>1 DEF User
  <2> QED BY <1>1, <1>3, <2>1 DEF BlocksOK, OwnOK
<1>5. \A q \in Procs : CursorOK(q)'
  <2>1. \A q \in Procs : k'[q].pc = "user"
    BY <1>1 DEF User
  <2> QED BY <2>1 DEF CursorOK
<1> QED BY <1>1, <1>2, <1>4, <1>5 DEF BlocksOK

\* In the initial state nobody has a block, and all are zero.
LEMMA InitBlocks ==
  ASSUME Assumptions, Init
  PROVE  BlocksOK
<1>1. ASSUME NEW i \in Inums, NEW n \in Slots, NEW b
      PROVE  ~Has(i, n, b)
  <2>1. inode[i].addrs = FreeInode.addrs
    BY DEF Init
  <2> QED BY <2>1, NoSlots DEF Has
<1>2. \A p \in Procs : k[p].new = Null /\ k[p].pc = "user"
  BY DEF Init, User
<1>3. OwnOK
  BY <1>1, <1>2 DEF OwnOK, Init
<1>4. \A p \in Procs : CursorOK(p)
  BY <1>2 DEF CursorOK
<1> QED BY <1>3, <1>4 DEF BlocksOK

-----------------------------------------------------------------------------
(* The inductive invariant: the data.                                      *)

\* Unit u of inode i is v.
HasUnit(i, u, v) ==
  \E b \in Numbers : Has(i, u \div BSIZE, b) /\ blk[b][u % BSIZE] = v

\* There is a block wherever the size on the disk says so.
Sized(i) ==
  Kept(i) /\ ~Truncated(i) =>
    \A u \in 0..dinode[i].size - 1 : BlockOf(dinode[i], u) # Null

\* An inode is ahead of the disk during a write() that makes the file longer.
Ahead(i) ==
  \/ dinode[i] = inode[i]
  \/ /\ lock[i] # Null /\ Writes(k[lock[i]])
     /\ k[lock[i]].off + k[lock[i]].n > inode[i].size

\* What writei() and readi() have done so far.
Filled(p) ==
  Writes(k[p]) =>
    \A u \in k[p].off..k[p].off + k[p].tot - 1 :
      HasUnit(k[p].ip, u, Written(p))
Got(p) ==
  k[p].pc = "read" =>
    /\ Len(k[p].got) = k[p].tot
    /\ \A u \in 1..k[p].tot : HasUnit(k[p].ip, k[p].off + u - 1, k[p].got[u])

DataOK ==
  /\ \A i \in Inums : Sized(i) /\ Ahead(i)
  /\ \A p \in Procs : Filled(p) /\ Got(p)

Inv == Typed /\ CallsOK /\ BlocksOK /\ DataOK

\* A step takes no block from inode i, and writes to none of its data.
Grown(i) == \A n \in Slots, c \in Units : Has(i, n, c) => Has(i, n, c)'
Unwritten(i) ==
  \A n \in 0..MAXFILE - 1, c \in Units : Has(i, n, c) => blk'[c] = blk[c]

\* What an inode has in a block, it still has if nothing is written there.
LEMMA HasUnitKept ==
  ASSUME Assumptions, Typed, NEW i \in Inums, Grown(i), Unwritten(i),
         NEW u \in 0..Limit - 1, NEW v, HasUnit(i, u, v)
  PROVE  HasUnit(i, u, v)'
<1>1. PICK b \in Numbers : Has(i, u \div BSIZE, b) /\ blk[b][u % BSIZE] = v
  BY DEF HasUnit
<1>2. u \div BSIZE \in 0..MAXFILE - 1 /\ u \div BSIZE \in Slots
  <2>1. u \in Nat /\ u < Limit
    BY Bounds
  <2> QED BY <2>1, BlockNumber, Bounds DEF Slots
<1>3. b \in Units
  BY DEF Units, Pointers
<1>4. Has(i, u \div BSIZE, b)' /\ blk'[b] = blk[b]
  BY <1>1, <1>2, <1>3 DEF Grown, Unwritten
<1> QED BY <1>1, <1>4 DEF HasUnit

\* The blocks that an inode has on the disk stay there.
LEMMA DiskSlotKept ==
  ASSUME Assumptions, Typed, NEW i \in Inums, InodeOK(i), InodeOK(i)',
         Kept(i), ~Truncated(i), Grown(i),
         dinode'[i].addrs \in {dinode[i].addrs, inode'[i].addrs},
         NEW n \in Slots, Slot(dinode[i], n) # Null
  PROVE  Slot(dinode[i], n)' = Slot(dinode[i], n)
         /\ Has(i, n, Slot(dinode[i], n))
<1>1. Slot(dinode[i], n) = Slot(inode[i], n)
  BY DiskSlot
<1>2. PICK c \in Units : c = Slot(inode[i], n)
  BY SlotType DEF Typed, TypedInodes
<1>3. Has(i, n, c)
  BY <1>1, <1>2, Bounds DEF Has, Begun, Slots
<1>4. Has(i, n, c)'
  BY <1>3 DEF Grown
<1>5. Slot(inode[i], n)' = c
  BY <1>4 DEF Has
<1>6. CASE dinode'[i].addrs = inode'[i].addrs
  BY <1>1, <1>2, <1>3, <1>5, <1>6 DEF Slot, InTable
<1>7. CASE dinode'[i].addrs = dinode[i].addrs
  <2>1. CASE n < NDIRECT \/ n = MAXFILE
    BY <1>1, <1>2, <1>3, <1>7, <2>1, Bounds DEF Slot, MAXFILE
  <2>2. CASE ~(n < NDIRECT) /\ n # MAXFILE
    <3>1. dinode[i].addrs[NDIRECT] # Null
      BY <2>2, TableSlot, Bounds DEF Slots
    <3>2. dinode'[i].addrs[NDIRECT] = inode'[i].addrs[NDIRECT]
      BY <1>7, <3>1, Bounds DEF InodeOK
    <3> QED BY <1>1, <1>2, <1>3, <1>5, <2>2, <3>2 DEF Slot, InTable
  <2> QED BY <2>1, <2>2
<1> QED BY <1>1, <1>2, <1>3, <1>6, <1>7

\* There is still a block wherever the size says so.
LEMMA SizedKept ==
  ASSUME Assumptions, Typed, NEW i \in Inums, InodeOK(i), InodeOK(i)',
         Sized(i),
         Kept(i)' /\ ~Truncated(i)' => Kept(i) /\ ~Truncated(i),
         Grown(i), dinode'[i].size = dinode[i].size,
         dinode'[i].addrs \in {dinode[i].addrs, inode'[i].addrs}
  PROVE  Sized(i)'
<1> SUFFICES ASSUME Kept(i)', ~Truncated(i)', NEW u \in 0..dinode[i].size - 1
             PROVE  Slot(dinode[i], u \div BSIZE)' # Null
  BY DEF Sized, BlockOf
<1>1. Kept(i) /\ ~Truncated(i)
  OBVIOUS
<1>2. Slot(dinode[i], u \div BSIZE) # Null
  BY <1>1 DEF Sized, BlockOf
<1>3. dinode[i].size \in 0..Limit
  BY DEF Typed, TypedInodes, Inode, Limit
<1>4. u \in Nat /\ u < Limit
  BY <1>3, Bounds
<1>5. u \div BSIZE \in Slots
  BY <1>4, BlockNumber, Bounds DEF Slots
<1> QED BY <1>1, <1>2, <1>5, DiskSlotKept

\* Nothing changes for the inodes and the calls of others.
LEMMA DataOthers ==
  ASSUME Assumptions, Typed, CallsOK, DataOK, NEW p \in Procs, NEW i \in Inums,
         Only(p, i), Frame(i), CallsOK'
  PROVE  /\ \A j \in Inums \ {i} : Sized(j)' /\ Ahead(j)'
         /\ \A q \in Procs \ {p} : Filled(q)' /\ Got(q)'
<1>1. ASSUME NEW j \in Inums \ {i}
      PROVE  Grown(j) /\ Unwritten(j)
  <2>1. \A n \in Slots, c \in Units :
          Has(j, n, c) => Has(j, n, c)' /\ blk'[c] = blk[c]
    BY HasOthers
  <2>2. 0..MAXFILE - 1 \subseteq Slots
    BY Bounds DEF Slots
  <2> QED BY <2>1, <2>2 DEF Grown, Unwritten
<1>2. ASSUME NEW j \in Inums \ {i}
      PROVE  Sized(j)' /\ Ahead(j)'
  <2>1. inode'[j] = inode[j] /\ dinode'[j] = dinode[j] /\ lock'[j] = lock[j]
    BY DEF Only
  <2>2. InodeOK(j) /\ InodeOK(j)' /\ Sized(j) /\ Ahead(j)
    BY DEF CallsOK, DataOK
  <2>3. Sized(j)'
    BY <1>1, <2>1, <2>2, KeptOthers, SizedKept
  <2>4. lock[j] # Null => k'[lock[j]] = k[lock[j]]
    BY DEF Only, Typed, TypedFiles
  <2> QED BY <2>1, <2>2, <2>3, <2>4 DEF Ahead
<1>3. ASSUME NEW q \in Procs \ {p}
      PROVE  Filled(q)' /\ Got(q)'
  <2>1. k'[q] = k[q] /\ Filled(q) /\ Got(q) /\ CallOK(q) /\ k[q] \in Call
    BY Holder DEF Only, DataOK
  <2>2. CASE ~OnFile(k[q])
    BY <2>1, <2>2 DEF Filled, Got, Writes, OnFile
  <2>3. CASE OnFile(k[q])
    <3>1. PICK j \in Inums : j = k[q].ip /\ lock[j] = q
      BY <2>3, Holder DEF OnFile
    <3>2. ASSUME NEW u \in 0..Limit - 1, NEW v, HasUnit(j, u, v)
          PROVE  HasUnit(j, u, v)'
      <4>1. CASE j # i
        BY <1>1, <3>2, <4>1, HasUnitKept
      <4>2. CASE j = i
        <5>1. UNCHANGED <<inode, dinode, lock, blk>>
          BY <3>1, <4>2, Bounds DEF Only
        <5>2. Kept(j)' /\ Begun(j)' = Begun(j)
          BY <2>1, <3>1, <5>1, Bounds DEF Kept, Begun, Truncated
        <5>3. Grown(j) /\ Unwritten(j)
          BY <5>1, <5>2 DEF Grown, Unwritten, Has, Slot, InTable
        <5> QED BY <3>2, <5>3, HasUnitKept
      <4> QED BY <4>1, <4>2
    <3>3. /\ k[q].off \in Nat /\ k[q].tot \in Nat /\ k[q].n \in Nat
          /\ k[q].off + k[q].tot <= Limit
      <4>1. /\ k[q].off \in Nat /\ k[q].tot \in Nat /\ k[q].n \in Nat
            /\ k[q].off + k[q].n <= Limit
        BY DEF Call, Typed, TypedCalls
      <4>2. k[q].tot <= k[q].n
        BY <2>1, <2>3 DEF CallOK
      <4> QED BY <4>1, <4>2, Bounds
    <3>4. Filled(q)'
      BY <2>1, <3>1, <3>2, <3>3, Bounds DEF Filled
    <3>5. Got(q)'
      <4> SUFFICES ASSUME k[q].pc = "read"
                   PROVE  /\ Len(k[q].got) = k[q].tot
                          /\ \A u \in 1..k[q].tot :
                               HasUnit(j, k[q].off + u - 1, k[q].got[u])'
        BY <2>1, <3>1 DEF Got
      <4>1. /\ Len(k[q].got) = k[q].tot
            /\ \A u \in 1..k[q].tot :
                 HasUnit(j, k[q].off + u - 1, k[q].got[u])
        BY <2>1, <3>1 DEF Got
      <4>2. ASSUME NEW u \in 1..k[q].tot
            PROVE  HasUnit(j, k[q].off + u - 1, k[q].got[u])'
        <5>1. PICK x, v : x = k[q].off + u - 1 /\ v = k[q].got[u]
          OBVIOUS
        <5>2. x \in 0..Limit - 1
          BY <3>3, <5>1, Bounds
        <5>3. HasUnit(j, x, v)
          BY <4>1, <5>1
        <5>4. HasUnit(j, x, v)'
          BY <3>2, <5>2, <5>3
        <5>5. k'[q].off + u - 1 = x /\ k'[q].got[u] = v
          BY <2>1, <5>1
        <5> QED BY <5>4, <5>5
      <4> QED BY <4>1, <4>2
    <3> QED BY <3>4, <3>5
  <2> QED BY <2>2, <2>3
<1> QED BY <1>2, <1>3

\* It is enough to look at p and its inode.
LEMMA DataStep ==
  ASSUME Assumptions, Inv, NEW p \in Procs, NEW i \in Inums,
         Only(p, i), Frame(i), CallsOK', Sized(i)', Ahead(i)',
         Filled(p)', Got(p)'
  PROVE  DataOK'
BY DataOthers DEF DataOK, Inv

\* The inode of a call keeps its blocks and its size on the disk.
LEMMA SizedCall ==
  ASSUME Assumptions, Inv, NEW p \in Procs, NEW i \in Inums, lock[i] = p,
         ~Freeing(k[p]), Grown(i), CallsOK',
         dinode'[i].size = dinode[i].size,
         dinode'[i].addrs \in {dinode[i].addrs, inode'[i].addrs}
  PROVE  Sized(i)'
<1>1. Kept(i) /\ ~Truncated(i)
  BY HolderKept DEF Inv
<1> QED BY <1>1, SizedKept DEF Inv, CallsOK, DataOK

\* Only a write() is ahead of the disk.
LEMMA AheadNot ==
  ASSUME Assumptions, Inv, NEW i \in Inums,
         lock[i] = Null \/ ~Writes(k[lock[i]])
  PROVE  dinode[i] = inode[i]
BY DEF Inv, DataOK, Ahead

\* A process outside of transfers.
LEMMA IdleData ==
  ASSUME NEW p \in Procs, ~OnFile(k'[p])
  PROVE  Filled(p)' /\ Got(p)'
BY DEF Filled, Got, Writes, OnFile

\* An inode keeps its blocks if nothing changes about it.
LEMMA GrownSame ==
  ASSUME Assumptions, HasSame, blk' = blk, NEW i \in Inums
  PROVE  Grown(i) /\ Unwritten(i)
<1>1. 0..MAXFILE - 1 \subseteq Slots
  BY Bounds DEF Slots
<1> QED BY <1>1 DEF HasSame, Grown, Unwritten

\* The inode has been written to the disk as it is.
LEMMA WrittenInode ==
  ASSUME NEW i \in Inums, dinode'[i] = inode'[i]
  PROVE  Ahead(i)'
BY DEF Ahead

\* Where the size is 0, or does not count, no block is needed.
LEMMA NoSize ==
  ASSUME NEW i \in Inums, dinode'[i].size = 0 \/ Truncated(i)'
  PROVE  Sized(i)'
<1>1. 0..0 - 1 = {}
  OBVIOUS
<1> QED BY <1>1 DEF Sized

\* create().
LEMMA CreateData ==
  ASSUME Assumptions, Inv, NEW p \in Procs, NEW i \in Inums, Create(p, i),
         CallsOK'
  PROVE  DataOK'
<1>1. Only(p, i)
  BY CreateOnly DEF Inv
<1>2. dinode'[i] = Empty /\ inode'[i] = Empty /\ blk' = blk
  BY DEF Create, Empty, Inv, Typed, TypedInodes
<1>3. Sized(i)'
  BY <1>2, NoSize DEF Empty, FreeInode
<1>4. k'[p].pc = "create"
  BY DEF Create, Begin, Become, User, Inv, Typed, TypedCalls
<1>5. Filled(p)' /\ Got(p)'
  BY <1>4, IdleData DEF OnFile
<1> QED BY <1>1, <1>2, <1>3, <1>5, FrameQuiet, WrittenInode, DataStep

\* unlink() writes the inode as it is in memory.
LEMMA UnlinkData ==
  ASSUME Assumptions, Inv, NEW p \in Procs, NEW i \in Inums, Unlink(p, i),
         CallsOK', HasSame
  PROVE  DataOK'
<1>1. Only(p, i) /\ lock[i] = Null
  BY CreateOnly DEF Inv
<1>2. /\ inode[i].nlink > 0 /\ inode'[i] = [inode[i] EXCEPT !.nlink = 0]
      /\ dinode'[i] = inode'[i] /\ blk' = blk
  BY DEF Unlink, Inv, Typed, TypedInodes
<1>3. dinode'[i].size = dinode[i].size
  <2>1. inode'[i].size = inode[i].size
    BY <1>2 DEF Inv, Typed, TypedInodes, Inode
  <2> QED BY <1>2, <2>1 DEF Inv, CallsOK, InodeOK
<1>4. Sized(i)'
  <2>1. Kept(i) /\ ~Truncated(i)
    BY <1>1, <1>2 DEF Kept, Truncated
  <2>2. Grown(i)
    BY <1>2, GrownSame
  <2> QED BY <1>2, <1>3, <2>1, <2>2, SizedKept DEF Inv, CallsOK, DataOK
<1>5. k'[p].pc = "put"
  BY DEF Unlink, Begin, Become, User, Inv, Typed, TypedCalls
<1>6. Filled(p)' /\ Got(p)'
  BY <1>5, IdleData DEF OnFile
<1> QED BY <1>1, <1>2, <1>4, <1>6, FrameQuiet, WrittenInode, DataStep

\* close().
LEMMA CloseData ==
  ASSUME Assumptions, Inv, NEW p \in Procs, NEW f \in Files, Close(p, f),
         CallsOK', HasSame
  PROVE  DataOK'
<1>1. PICK i \in Inums : i = file[f].ip
  BY DEF Close, Inv, Typed, TypedFiles
<1>2. Only(p, i) /\ Opened(i) /\ k[p].pc = "user"
  <2>1. Only(p, i) /\ k[p].pc = "user"
    BY <1>1, CloseOnly DEF Inv
  <2> QED BY <1>1, <2>1 DEF Opened
<1>3. UNCHANGED <<blk, inode, dinode>>
  BY DEF Close, diskVars
<1>4. ~Truncated(i)
  <2> SUFFICES ASSUME Truncated(i)
               PROVE  FALSE
    OBVIOUS
  <2>1. PICK q \in Procs : lock[i] = q
    BY DEF Truncated, Inv, Typed, TypedFiles
  <2>2. k[q].ip = i /\ Freeing(k[q]) /\ CallOK(q)
    BY <2>1, Holder DEF Truncated, Inv
  <2> QED BY <1>2, <2>2 DEF CallOK
<1>5. Sized(i)'
  <2>1. Kept(i) /\ Grown(i)
    BY <1>2, <1>3, GrownSame DEF Kept
  <2> QED BY <1>3, <1>4, <2>1, SizedKept DEF Inv, CallsOK, DataOK
<1>6. Ahead(i)' /\ ~OnFile(k'[p])
  <2>1. CASE inode[i].nlink = 0 /\ LastRef(p, i, file')
    <3>1. lock[i] = Null /\ k'[p] = Trunc(i)
      BY <1>1, <2>1 DEF Close, Begin, Become, Inv, Typed, TypedCalls
    <3>2. dinode'[i] = inode'[i]
      BY <1>3, <3>1, AheadNot
    <3> QED BY <3>1, <3>2, WrittenInode DEF Trunc, User, OnFile
  <2>2. CASE ~(inode[i].nlink = 0 /\ LastRef(p, i, file'))
    <3>1. UNCHANGED <<lock, k>>
      BY <1>1, <2>2 DEF Close
    <3>2. Ahead(i)
      BY DEF Inv, DataOK
    <3> QED BY <1>2, <1>3, <3>1, <3>2 DEF Ahead, OnFile
  <2> QED BY <2>1, <2>2
<1> QED BY <1>2, <1>3, <1>5, <1>6, FrameQuiet, IdleData, DataStep

\* A transfer begins with nothing done.
LEMMA TransferData ==
  ASSUME Assumptions, Inv, NEW p \in Procs, NEW f \in Files, NEW n \in Sizes,
         Write(p, f, n) \/ Read(p, f, n), CallsOK', Typed', HasSame
  PROVE  DataOK'
<1>1. PICK i \in Inums : i = file[f].ip
  BY TransferOnly DEF Inv
<1>2. Only(p, i) /\ lock[i] = Null
  BY <1>1, TransferOnly DEF Inv
<1>3. UNCHANGED <<blk, inode, dinode>>
  BY DEF Write, Read, diskVars
<1>4. Sized(i)'
  <2>1. Kept(i) /\ ~Truncated(i) /\ Grown(i)
    BY <1>1, <1>2, <1>3, GrownSame DEF Kept, Opened, Truncated
  <2> QED BY <1>3, <2>1, SizedKept DEF Inv, CallsOK, DataOK
<1>5. Ahead(i)'
  BY <1>2, <1>3, AheadNot, WrittenInode
<1>6. k'[p].tot = 0 /\ k'[p].got = <<>>
  <2> DEFINE lw == Least(n, MAXFILE * BSIZE - file[f].off)
             lr == Least(n, inode[file[f].ip].size - file[f].off)
             gw == [User EXCEPT !.pc = "write", !.f = f, !.ip = file[f].ip,
                    !.off = file[f].off, !.n = lw]
             gr == [User EXCEPT !.pc = "read", !.f = f, !.ip = file[f].ip,
                    !.off = file[f].off, !.n = lr]
  <2>1. Become(p, gw) \/ Become(p, gr)
    BY DEF Write, Read, Begin
  <2> HIDE DEF lw, lr
  <2>2. gw.tot = 0 /\ gr.tot = 0 /\ gw.got = <<>> /\ gr.got = <<>>
    BY DEF User
  <2> HIDE DEF gw, gr
  <2> QED BY <2>1, <2>2 DEF Become, Inv, Typed, TypedCalls
<1>7. Filled(p)' /\ Got(p)'
  <2>1. k'[p].off \in Nat
    BY DEF Typed, TypedCalls, Call
  <2>2. k'[p].off..k'[p].off + k'[p].tot - 1 = {} /\ 1..k'[p].tot = {}
    BY <1>6, <2>1
  <2> QED BY <1>6, <2>2 DEF Filled, Got
<1> QED BY <1>2, <1>3, <1>4, <1>5, <1>7, FrameQuiet, DataStep

\* The end of a call that has left the inode as it is on the disk.
LEMMA EndData ==
  ASSUME Assumptions, Inv, NEW p \in Procs, NEW i \in Inums, i = k[p].ip,
         Only(p, i), k[p].pc # "user", ~Freeing(k[p]),
         dinode'[i].size = dinode[i].size, inode'[i] = dinode'[i],
         blk' = blk, ~OnFile(k'[p]), CallsOK', HasSame
  PROVE  DataOK'
<1>1. lock[i] = p
  BY Holder DEF Inv
<1>2. Sized(i)'
  BY <1>1, GrownSame, SizedCall
<1> QED BY <1>2, FrameQuiet, WrittenInode, IdleData, DataStep

\* The rest of create().
LEMMA CreateLinkedData ==
  ASSUME Assumptions, Inv, NEW p \in Procs, CreateLinked(p), CallsOK', HasSame
  PROVE  DataOK'
<1>1. PICK i \in Inums : i = k[p].ip /\ lock[i] = p /\ Only(p, i)
  BY InCallOnly DEF InCall, Inv
<1>2. k[p].pc = "create" /\ blk' = blk /\ inode[i] \in Inode
  BY DEF CreateLinked, At, Inv, Typed, TypedInodes
<1>3. inode'[i].size = inode[i].size /\ inode'[i] = dinode'[i]
  BY <1>1, <1>2 DEF CreateLinked, Inv, Typed, TypedInodes, Inode
<1>4. dinode[i].size = inode[i].size
  BY DEF Inv, CallsOK, InodeOK
<1>5. k'[p] = User
  BY DEF CreateLinked, Unlock, Become, Inv, Typed, TypedCalls
<1>6. ~OnFile(k'[p])
  BY <1>5 DEF OnFile, User
<1> QED BY <1>1, <1>2, <1>3, <1>4, <1>6, EndData DEF Freeing

\* The iput() of unlink().
LEMMA UnlinkPutData ==
  ASSUME Assumptions, Inv, NEW p \in Procs, UnlinkPut(p), CallsOK', HasSame
  PROVE  DataOK'
<1>1. PICK i \in Inums : i = k[p].ip /\ lock[i] = p /\ Only(p, i)
  BY InCallOnly DEF InCall, Inv
<1>2. k[p].pc = "put" /\ UNCHANGED <<blk, inode, dinode>>
  BY DEF UnlinkPut, At, diskVars
<1>3. inode[i] = dinode[i]
  BY <1>1, <1>2, AheadNot DEF Writes
<1>4. k'[p] = User \/ k'[p] = Trunc(i)
  BY <1>1 DEF UnlinkPut, Unlock, Become, Inv, Typed, TypedCalls
<1>5. ~OnFile(k'[p])
  <2>1. User.pc = "user" /\ Trunc(i).pc = "bfree"
    BY DEF User, Trunc
  <2> QED BY <1>4, <2>1 DEF OnFile
<1> QED BY <1>1, <1>2, <1>3, <1>5, EndData DEF Freeing

\* The end of read().
LEMMA ReadDoneData ==
  ASSUME Assumptions, Inv, NEW p \in Procs, ReadDone(p), CallsOK', HasSame
  PROVE  DataOK'
<1>1. PICK i \in Inums : i = k[p].ip /\ lock[i] = p /\ Only(p, i)
  BY InCallOnly DEF InCall, Inv
<1>2. k[p].pc = "read" /\ UNCHANGED <<blk, inode, dinode>>
  BY DEF ReadDone, At, diskVars
<1>3. inode[i] = dinode[i]
  BY <1>1, <1>2, AheadNot DEF Writes
<1>4. k'[p] = User
  BY DEF ReadDone, Unlock, Become, Inv, Typed, TypedCalls
<1>5. ~OnFile(k'[p])
  BY <1>4 DEF OnFile, User
<1> QED BY <1>1, <1>2, <1>3, <1>5, EndData DEF Freeing

\* itrunc(): the size on the disk does not count any more.
LEMMA TruncData ==
  ASSUME Assumptions, Inv, NEW p \in Procs,
         Zero(p) \/ Clear(p) \/ Emptied(p) \/ Freed(p), CallsOK',
         Frame(k[p].ip)
  PROVE  DataOK'
<1>1. PICK i \in Inums : i = k[p].ip /\ lock[i] = p /\ Only(p, i)
  BY InCallOnly DEF InCall, Inv
<1>2. k[p] \in Call /\ Freeing(k[p])
  BY Holder DEF Inv, Freeing, Zero, Clear, Emptied, Freed, At
<1>3. inode[i] = dinode[i]
  BY <1>1, <1>2, AheadNot DEF Writes, Freeing
<1>4. inode'[i] = dinode'[i]
  BY <1>1, <1>3 DEF Zero, Clear, Emptied, Freed, Panic, diskVars, Inv, Typed,
    TypedInodes
<1>5. CASE Freed(p)
  <2>1. dinode'[i].size = 0 /\ k'[p] = User
    BY <1>1, <1>5 DEF Freed, FreeInode, Unlock, Become, Inv, Typed,
      TypedInodes, TypedCalls
  <2> QED
    BY <1>1, <1>4, <2>1, NoSize, WrittenInode, IdleData, DataStep
    DEF OnFile, User
<1>6. CASE Zero(p) \/ Clear(p) \/ Emptied(p)
  <2>1. lock' = lock
    BY <1>6 DEF Zero, Clear, Emptied, Goes, Panic
  <2>2. Freeing(k'[p])
    BY <1>2, <1>6 DEF Zero, Clear, Emptied, Become, Panic, Freeing, Inv, Typed,
      TypedCalls, Call
  <2>3. Truncated(i)'
    BY <1>1, <2>1, <2>2, Bounds DEF Truncated
  <2>4. ~OnFile(k'[p])
    BY <2>2 DEF Freeing, OnFile
  <2> QED BY <1>1, <1>4, <2>3, <2>4, NoSize, WrittenInode, IdleData, DataStep
<1> QED BY <1>5, <1>6

\* A write() goes on.
LEMMA WritingData ==
  ASSUME Assumptions, Inv, NEW p \in Procs, NEW i \in Inums, i = k[p].ip,
         Only(p, i), Frame(i), Writes(k[p]), Writes(k'[p]),
         k'[p].off = k[p].off, k'[p].n = k[p].n, k'[p].tot = k[p].tot,
         k'[p].ip = i, lock' = lock, dinode' = dinode,
         inode'[i].size = inode[i].size,
         inode'[i] = inode[i] \/ k[p].off + k[p].n > inode[i].size,
         Grown(i), Unwritten(i), CallsOK'
  PROVE  DataOK'
<1>1. lock[i] = p /\ k[p] \in Call /\ CallOK(p)
  BY Holder DEF Inv, Writes
<1>2. Sized(i)'
  BY <1>1, SizedCall DEF Writes, Freeing
<1>3. Ahead(i)'
  <2>1. Ahead(i) /\ lock[i] # Null
    BY <1>1, Bounds DEF Inv, DataOK
  <2> QED BY <1>1, <2>1 DEF Ahead
<1>4. Filled(p)'
  <2> SUFFICES ASSUME NEW u \in k[p].off..k[p].off + k[p].tot - 1
               PROVE  HasUnit(i, u, Written(p))'
    BY DEF Filled
  <2>1. HasUnit(i, u, Written(p))
    BY DEF Inv, DataOK, Filled
  <2>2. /\ k[p].off \in Nat /\ k[p].tot \in Nat /\ k[p].n \in Nat
        /\ k[p].tot <= k[p].n /\ k[p].off + k[p].n <= Limit
    BY <1>1 DEF Call, CallOK, Inv, Typed, TypedCalls, OnFile, Writes
  <2>3. u \in 0..Limit - 1
    BY <2>2, Bounds
  <2> QED BY <2>1, <2>3, HasUnitKept DEF Inv
<1>5. Got(p)'
  BY DEF Got, Writes
<1> QED BY <1>2, <1>3, <1>4, <1>5, DataStep

\* Inode i gets a block, and others nothing.
LEMMA GainsGrown ==
  ASSUME NEW i, NEW x, NEW b, Gains(i, x, b), NEW j \in Inums
  PROVE  Grown(j)
BY DEF Gains, Grown

\* The call that makes a file longer is ahead as soon as it adds a block.
LEMMA BmapInodeData ==
  ASSUME Assumptions, Inv, NEW p \in Procs, BmapInode(p), CallsOK'
  PROVE  DataOK'
<1>1. PICK i \in Inums : i = k[p].ip /\ lock[i] = p /\ Only(p, i)
  BY InCallOnly DEF InCall, Inv
<1>2. /\ k[p].pc = "write" /\ k[p].tot < k[p].n /\ k' = k
      /\ UNCHANGED <<blk, lock, dinode>> /\ k[p] \in Call
  BY Holder DEF BmapInode, More, At, Goes, Inv
<1>3. Grown(i) /\ Unwritten(i)
  <2>1. 0..MAXFILE - 1 \subseteq Slots
    BY Bounds DEF Slots
  <2> QED BY <1>1, <1>2, <2>1, BmapInodeBlocks, GainsGrown DEF Inv, Unwritten
<1>4. inode'[i].size = inode[i].size
  <2> DEFINE n == IF bn(p) < NDIRECT THEN bn(p) ELSE NDIRECT
  <2>1. PICK b : inode' = [inode EXCEPT ![i].addrs[n] = b]
    BY <1>1 DEF BmapInode
  <2> HIDE DEF n
  <2> QED BY <2>1 DEF Inv, Typed, TypedInodes, Inode
<1>5. k[p].off + k[p].n > inode[i].size
  <2> SUFFICES ASSUME ~(k[p].off + k[p].n > inode[i].size)
               PROVE  FALSE
    OBVIOUS
  <2>1. PICK u : u = k[p].off + k[p].tot
    OBVIOUS
  <2>2. u \in 0..dinode[i].size - 1 /\ u \in Nat
    <3>1. dinode[i].size = inode[i].size /\ inode[i].size \in Nat
      BY Bounds DEF Inv, CallsOK, InodeOK, Typed, TypedInodes, Inode, Limit
    <3> QED BY <1>2, <2>1, <3>1 DEF Call
  <2>3. Kept(i) /\ ~Truncated(i)
    BY <1>1, <1>2, HolderKept DEF Inv, Freeing
  <2>4. bn(p) \in Slots /\ bn(p) \in 0..MAXFILE - 1
    BY <1>2, Position DEF Inv
  <2>5. Slot(dinode[i], bn(p)) # Null
    BY <2>1, <2>2, <2>3 DEF Inv, DataOK, Sized, BlockOf, bn
  <2>6. Slot(inode[i], bn(p)) # Null
    BY <2>4, <2>5, DiskSlot DEF Inv, CallsOK
  <2>7. CASE bn(p) < NDIRECT
    BY <1>1, <2>6, <2>7 DEF BmapInode, Slot
  <2>8. CASE ~(bn(p) < NDIRECT)
    <3>1. inode[i].addrs[NDIRECT] # Null
      BY <2>4, <2>6, <2>8, TableSlot, Bounds
    <3> QED BY <1>1, <2>8, <3>1 DEF BmapInode
  <2> QED BY <2>7, <2>8
<1> QED
  BY <1>1, <1>2, <1>3, <1>4, <1>5, FrameQuiet, WritingData DEF Writes

\* balloc() for a table entry.
LEMMA BmapTableData ==
  ASSUME Assumptions, Inv, NEW p \in Procs, BmapTable(p), CallsOK'
  PROVE  DataOK'
<1>1. PICK i \in Inums : i = k[p].ip /\ lock[i] = p /\ Only(p, i)
  BY InCallOnly DEF InCall, Inv
<1>2. /\ k[p].pc = "write" /\ UNCHANGED <<blk, lock, dinode, inode>>
      /\ k[p] \in Call
  BY Holder DEF BmapTable, More, At, Goes, Inv
<1>3. PICK b : k'[p] = [k[p] EXCEPT !.pc = "table", !.new = b]
  BY DEF BmapTable, Become, Inv, Typed, TypedCalls
<1>4. /\ k'[p].pc = "table" /\ k'[p].off = k[p].off /\ k'[p].n = k[p].n
      /\ k'[p].tot = k[p].tot /\ k'[p].ip = k[p].ip
  BY <1>2, <1>3 DEF Call
<1>5. Grown(i) /\ Unwritten(i)
  BY <1>2, BmapTableBlocks, GrownSame DEF Inv
<1> QED BY <1>1, <1>2, <1>4, <1>5, FrameQuiet, WritingData DEF Writes

\* A table holds no data.
LEMMA TableUnwritten ==
  ASSUME Assumptions, Inv, NEW p \in Procs, BmapTableWrite(p), Typed'
  PROVE  Grown(k[p].ip) /\ Unwritten(k[p].ip) /\ Frame(k[p].ip)
<1>1. PICK i \in Inums : i = k[p].ip
  BY InCallOnly DEF InCall, Inv
<1>2. /\ Frame(i) /\ Has(i, MAXFILE, Table(p)) /\ Table(p) \in Numbers
      /\ Gains(i, bn(p), k[p].new)
      /\ \A c \in Numbers : c # Table(p) => blk'[c] = blk[c]
  BY <1>1, BmapTableWriteBlocks DEF Inv
<1>3. Unwritten(i)
  <2> SUFFICES ASSUME NEW n \in 0..MAXFILE - 1, NEW c \in Units, Has(i, n, c)
               PROVE  blk'[c] = blk[c]
    BY DEF Unwritten
  <2>1. n \in Slots /\ MAXFILE \in Slots /\ n # MAXFILE
    BY Bounds DEF Slots
  <2>2. c \in Numbers
    BY <2>1, HasType DEF Inv, BlocksOK
  <2>3. c # Table(p)
    BY <1>2, <2>1 DEF Inv, BlocksOK, OwnOK
  <2> QED BY <1>2, <2>2, <2>3
<1> QED BY <1>1, <1>2, <1>3, GainsGrown

\* A block more in the table.
LEMMA BmapTableWriteData ==
  ASSUME Assumptions, Inv, NEW p \in Procs, BmapTableWrite(p), CallsOK', Typed'
  PROVE  DataOK'
<1>1. PICK i \in Inums : i = k[p].ip /\ lock[i] = p /\ Only(p, i)
  BY InCallOnly DEF InCall, Inv
<1>2. /\ k[p].pc = "table" /\ UNCHANGED <<lock, dinode, inode>>
      /\ k[p] \in Call
  BY Holder DEF BmapTableWrite, At, Goes, Inv
<1>3. k'[p] = [k[p] EXCEPT !.pc = "write", !.new = Null]
  BY DEF BmapTableWrite, Become, Inv, Typed, TypedCalls
<1>4. /\ k'[p].pc = "write" /\ k'[p].off = k[p].off /\ k'[p].n = k[p].n
      /\ k'[p].tot = k[p].tot /\ k'[p].ip = k[p].ip
  BY <1>2, <1>3 DEF Call
<1>5. Grown(i) /\ Unwritten(i) /\ Frame(i)
  BY <1>1, TableUnwritten
<1> QED BY <1>1, <1>2, <1>4, <1>5, WritingData DEF Writes

-----------------------------------------------------------------------------
(* The steps of a transfer: which units they are about.                    *)

\* Multiples of the size of a block.
LEMMA Times ==
  ASSUME Assumptions, NEW a \in Int, NEW b \in Int, a <= b
  PROVE  BSIZE * a <= BSIZE * b
<1>1. BSIZE \in Nat \ {0}
  BY Bounds
<1> QED BY <1>1

\* A unit is in one place of one block.
LEMMA OnePlace ==
  ASSUME Assumptions, NEW q \in Int, NEW r \in 0..BSIZE - 1,
         NEW q2 \in Int, NEW r2 \in 0..BSIZE - 1,
         BSIZE * q + r = BSIZE * q2 + r2
  PROVE  q = q2 /\ r = r2
<1>1. BSIZE \in Nat \ {0}
  BY Bounds
<1>2. ~(q < q2)
  <2> SUFFICES ASSUME q < q2
               PROVE  FALSE
    OBVIOUS
  <2>1. BSIZE * (q + 1) <= BSIZE * q2
    BY Times
  <2>2. BSIZE * (q + 1) = BSIZE * q + BSIZE
    BY <1>1
  <2> QED BY <1>1, <2>1, <2>2
<1>3. ~(q2 < q)
  <2> SUFFICES ASSUME q2 < q
               PROVE  FALSE
    OBVIOUS
  <2>1. BSIZE * (q2 + 1) <= BSIZE * q
    BY Times
  <2>2. BSIZE * (q2 + 1) = BSIZE * q2 + BSIZE
    BY <1>1
  <2> QED BY <1>1, <2>1, <2>2
<1>4. q = q2
  BY <1>2, <1>3
<1> QED BY <1>1, <1>4

\* The units of a step are in one block, one after the other.
LEMMA Within ==
  ASSUME Assumptions, Typed, NEW p \in Procs, k[p].tot < k[p].n,
         NEW x \in 0..m(p) - 1
  PROVE  LET u == k[p].off + k[p].tot + x IN
         /\ u \div BSIZE = bn(p) /\ u % BSIZE = From(p) + x
         /\ From(p) + x \in From(p)..From(p) + m(p) - 1
<1>1. /\ m(p) \in Nat \ {0} /\ From(p) \in 0..BSIZE - 1
      /\ From(p) + m(p) <= BSIZE
  BY Parts DEF Typed
<1>2. PICK s \in Nat : s = k[p].off + k[p].tot
  BY DEF Typed, TypedCalls, Call
<1>3. bn(p) = s \div BSIZE /\ From(p) = s % BSIZE
  BY <1>2 DEF bn, From
<1>4. PICK q, r : q = bn(p) /\ r = From(p)
  OBVIOUS
<1>5. q \in Nat /\ s = BSIZE * q + r
  BY <1>3, <1>4, BlockNumber
<1>6. PICK u : u = s + x
  OBVIOUS
<1>7. x \in Nat /\ u \in Nat /\ r + x \in 0..BSIZE - 1
  BY <1>1, <1>4, <1>6, Bounds
<1>8. u \div BSIZE \in Nat /\ u % BSIZE \in 0..BSIZE - 1
      /\ u = BSIZE * (u \div BSIZE) + (u % BSIZE)
  BY <1>7, BlockNumber
<1>9. BSIZE * q \in Nat
  BY <1>5, Bounds
<1>10. BSIZE * q + (r + x) = u
  BY <1>1, <1>4, <1>5, <1>6, <1>7, <1>9
<1>11. q = u \div BSIZE /\ r + x = u % BSIZE
  BY <1>5, <1>7, <1>8, <1>10, OnePlace
<1>12. From(p) + x \in From(p)..From(p) + m(p) - 1
  BY <1>1, <1>7
<1> QED BY <1>2, <1>4, <1>6, <1>11, <1>12

\* A place in a block is one that it has.
LEMMA Places ==
  ASSUME Assumptions, Typed, NEW b \in Numbers, NEW x \in 0..BSIZE - 1
  PROVE  x \in DOMAIN blk[b]
<1>1. DOMAIN blk[b] = DOMAIN Zeros
  BY DEF Typed, TypedDisk
<1> QED BY <1>1, Bounds DEF Zeros

\* writei() writes where it is, and keeps what it has written.
LEMMA WriteBlockData ==
  ASSUME Assumptions, Inv, NEW p \in Procs, WriteBlock(p), CallsOK'
  PROVE  DataOK'
<1>1. PICK i \in Inums : i = k[p].ip /\ lock[i] = p /\ Only(p, i)
  BY InCallOnly DEF InCall, Inv
<1>2. /\ k[p].pc = "write" /\ k[p].tot < k[p].n /\ k[p] \in Call
      /\ CallOK(p) /\ UNCHANGED <<lock, dinode, inode>>
  BY Holder DEF WriteBlock, More, At, Goes, Inv
<1>3. k'[p] = [k[p] EXCEPT !.tot = k[p].tot + m(p)]
  BY DEF WriteBlock, Become, Inv, Typed, TypedCalls
<1>4. /\ k'[p].pc = "write" /\ k'[p].off = k[p].off /\ k'[p].n = k[p].n
      /\ k'[p].tot = k[p].tot + m(p) /\ k'[p].ip = i
  BY <1>1, <1>2, <1>3 DEF Call
<1>5. PICK a : a = Addr(p)
  OBVIOUS
<1>6. PICK x : x = bn(p)
  OBVIOUS
<1>7. /\ HasSame /\ Frame(i) /\ Has(i, x, a) /\ x \in 0..MAXFILE - 1
  BY <1>1, <1>5, <1>6, WriteBlockBlocks DEF Inv
<1>8. x \in Slots
  BY <1>7, Bounds DEF Slots
<1>9. a \in Numbers /\ a \in Units
  BY <1>7, <1>8, HasType DEF Inv, BlocksOK
<1>10. blk' = [blk EXCEPT ![a] = [u \in DOMAIN blk[a] |->
                 IF u \in From(p)..From(p) + m(p) - 1 THEN Written(p)
                 ELSE blk[a][u]]]
  BY <1>5 DEF WriteBlock
<1>11. Grown(i)
  BY <1>7 DEF HasSame, Grown
<1>12. Sized(i)'
  BY <1>1, <1>2, <1>11, SizedCall DEF Freeing
<1>13. Ahead(i)'
  <2>1. Ahead(i) /\ lock[i] # Null
    BY <1>1, Bounds DEF Inv, DataOK
  <2> QED BY <1>1, <1>2, <1>4, <2>1 DEF Ahead, Writes
<1>14. /\ k[p].off \in Nat /\ k[p].tot \in Nat /\ k[p].n \in Nat
       /\ k[p].tot <= k[p].n /\ k[p].off + k[p].n <= Limit
       /\ m(p) \in Nat \ {0} /\ k[p].tot + m(p) <= k[p].n
       /\ From(p) \in 0..BSIZE - 1
  BY <1>2, Parts DEF Call, CallOK, Inv, Typed, TypedCalls, OnFile
<1>15. ASSUME NEW u \in k[p].off..k[p].off + k[p].tot + m(p) - 1
       PROVE  HasUnit(i, u, Written(p))'
  <2>1. u \in Nat /\ u < Limit
    BY <1>14, Bounds
  <2>2. /\ u \div BSIZE \in 0..MAXFILE - 1 /\ u \div BSIZE \in Slots
        /\ u % BSIZE \in 0..BSIZE - 1
    BY <2>1, BlockNumber, Bounds DEF Slots
  <2>3. CASE u < k[p].off + k[p].tot
    <3>1. u \in k[p].off..k[p].off + k[p].tot - 1
      BY <1>14, <2>1, <2>3
    <3>2. HasUnit(i, u, Written(p))
      BY <1>1, <1>2, <3>1 DEF Inv, DataOK, Filled, Writes
    <3>3. PICK b \in Numbers : Has(i, u \div BSIZE, b)
                               /\ blk[b][u % BSIZE] = Written(p)
      BY <3>2 DEF HasUnit
    <3>4. Has(i, u \div BSIZE, b)'
      BY <1>11, <2>2, <3>3 DEF Grown, Units, Pointers
    <3>5. u % BSIZE \in DOMAIN blk[b]
      BY <2>2, Places DEF Inv
    <3>6. blk'[b][u % BSIZE] = Written(p)
      <4>1. CASE b # a
        BY <1>10, <3>3, <4>1 DEF Inv, Typed, TypedDisk
      <4>2. CASE b = a
        <5>1. blk'[a] = [y \in DOMAIN blk[a] |->
                 IF y \in From(p)..From(p) + m(p) - 1 THEN Written(p)
                 ELSE blk[a][y]]
          BY <1>9, <1>10 DEF Inv, Typed, TypedDisk
        <5> QED BY <3>3, <3>5, <4>2, <5>1
      <4> QED BY <4>1, <4>2
    <3> QED BY <3>4, <3>6 DEF HasUnit
  <2>4. CASE ~(u < k[p].off + k[p].tot)
    <3>1. PICK y \in 0..m(p) - 1 : u = k[p].off + k[p].tot + y
      <4>1. u - (k[p].off + k[p].tot) \in 0..m(p) - 1
        BY <1>14, <2>1, <2>4
      <4>2. u = k[p].off + k[p].tot + (u - (k[p].off + k[p].tot))
        BY <1>14, <2>1
      <4> QED BY <4>1, <4>2
    <3>2. u \div BSIZE = x /\ u % BSIZE \in From(p)..From(p) + m(p) - 1
      BY <1>2, <1>6, <3>1, Within DEF Inv
    <3>3. Has(i, x, a)'
      BY <1>7, <1>8, <1>9, <1>11 DEF Grown
    <3>4. u % BSIZE \in DOMAIN blk[a]
      BY <1>9, <2>2, Places DEF Inv
    <3>5. blk'[a][u % BSIZE] = Written(p)
      <4>1. blk'[a] = [z \in DOMAIN blk[a] |->
                 IF z \in From(p)..From(p) + m(p) - 1 THEN Written(p)
                 ELSE blk[a][z]]
        BY <1>9, <1>10 DEF Inv, Typed, TypedDisk
      <4> QED BY <3>2, <3>4, <4>1
    <3> QED BY <1>9, <3>2, <3>3, <3>5 DEF HasUnit
  <2> QED BY <2>3, <2>4
<1>16. Filled(p)'
  <2>1. k'[p].off + k'[p].tot - 1 = k[p].off + k[p].tot + m(p) - 1
    BY <1>4, <1>14
  <2> QED BY <1>4, <1>15, <2>1 DEF Filled
<1>17. Got(p)'
  BY <1>4 DEF Got
<1> QED BY <1>1, <1>7, <1>12, <1>13, <1>16, <1>17, DataStep

\* readi() reads from blocks that the file has.
LEMMA ReadAddr ==
  ASSUME Assumptions, Inv, NEW p \in Procs, k[p].pc = "read",
         k[p].tot < k[p].n
  PROVE  Has(k[p].ip, bn(p), Addr(p)) /\ Addr(p) \in Numbers
<1>1. PICK i \in Inums : i = k[p].ip /\ lock[i] = p
  BY Holder DEF Inv
<1>2. CallOK(p) /\ k[p] \in Call
  BY Holder DEF Inv
<1>3. Kept(i) /\ ~Truncated(i) /\ Begun(i) = 0
  BY <1>1, HolderKept DEF Inv, Freeing
<1>4. PICK u : u = k[p].off + k[p].tot
  OBVIOUS
<1>5. u \in 0..dinode[i].size - 1
  <2>1. dinode[i].size = inode[i].size /\ inode[i].size \in Nat
    BY Bounds DEF Inv, CallsOK, InodeOK, Typed, TypedInodes, Inode, Limit
  <2>2. k[p].off + k[p].n <= inode[i].size
    BY <1>1, <1>2 DEF CallOK
  <2> QED BY <1>2, <1>4, <2>1, <2>2 DEF Call
<1>6. bn(p) \in Slots
  BY Position DEF Inv
<1>7. Slot(dinode[i], bn(p)) # Null
  BY <1>3, <1>4, <1>5 DEF Inv, DataOK, Sized, BlockOf, bn
<1>8. Slot(inode[i], bn(p)) # Null
  BY <1>6, <1>7, DiskSlot DEF Inv, CallsOK
<1>9. Has(i, bn(p), Addr(p))
  BY <1>1, <1>3, <1>6, <1>8, Bounds DEF Has, Addr, Slots
<1>10. Addr(p) \in Numbers
  BY <1>6, <1>9, HasType DEF Inv, BlocksOK
<1> QED BY <1>1, <1>9, <1>10

\* readi() takes what is there.
LEMMA ReadBlockData ==
  ASSUME Assumptions, Inv, NEW p \in Procs, ReadBlock(p), CallsOK', HasSame
  PROVE  DataOK'
<1>1. PICK i \in Inums : i = k[p].ip /\ lock[i] = p /\ Only(p, i)
  BY InCallOnly DEF InCall, Inv
<1>2. /\ k[p].pc = "read" /\ k[p].tot < k[p].n /\ k[p] \in Call
      /\ CallOK(p) /\ UNCHANGED <<blk, lock, dinode, inode>>
  BY Holder DEF ReadBlock, More, At, Goes, Inv, diskVars
<1>3. PICK a : a = Addr(p)
  OBVIOUS
<1> DEFINE s == [u \in 1..m(p) |-> blk[a][From(p) + u - 1]]
<1>4. k'[p] = [k[p] EXCEPT !.tot = k[p].tot + m(p), !.got = k[p].got \o s]
  BY <1>3 DEF ReadBlock, Become, Inv, Typed, TypedCalls
<1> HIDE DEF s
<1>5. /\ k'[p].pc = "read" /\ k'[p].off = k[p].off /\ k'[p].ip = i
      /\ k'[p].tot = k[p].tot + m(p)
  BY <1>1, <1>2, <1>4 DEF Call
<1>18. k'[p].got = k[p].got \o s
  BY <1>2, <1>4 DEF Call
<1>6. Has(i, bn(p), a) /\ a \in Numbers
  BY <1>1, <1>2, <1>3, ReadAddr
<1>7. Grown(i) /\ Unwritten(i)
  BY <1>2, GrownSame
<1>8. Sized(i)'
  BY <1>1, <1>2, <1>7, SizedCall DEF Freeing
<1>9. Ahead(i)'
  BY <1>1, <1>2, AheadNot, WrittenInode DEF Writes
<1>10. /\ k[p].off \in Nat /\ k[p].tot \in Nat /\ k[p].n \in Nat
       /\ k[p].tot <= k[p].n /\ k[p].off + k[p].n <= Limit
       /\ m(p) \in Nat \ {0} /\ k[p].tot + m(p) <= k[p].n
       /\ From(p) \in 0..BSIZE - 1
  BY <1>2, Parts DEF Call, CallOK, Inv, Typed, TypedCalls, OnFile
<1>11. Len(k[p].got) = k[p].tot /\ k[p].got \in Seq(Units)
  BY <1>2 DEF Inv, DataOK, Got, Call
<1>12. \A y \in 1..m(p) : s[y] = blk[a][From(p) + y - 1]
  BY DEF s
<1>13. s \in Seq(Units) /\ Len(s) = m(p)
  <2>1. \A y \in 1..m(p) : blk[a][From(p) + y - 1] \in Units
    <3> SUFFICES ASSUME NEW y \in 1..m(p)
                 PROVE  blk[a][From(p) + y - 1] \in Units
      OBVIOUS
    <3>1. From(p) + y - 1 \in 0..BSIZE - 1
      BY <1>2, <1>10, Parts, Bounds DEF Inv, Typed
    <3>2. From(p) + y - 1 \in DOMAIN blk[a]
      BY <1>6, <3>1, Places DEF Inv
    <3> QED BY <1>6, <3>2 DEF Inv, Typed, TypedDisk
  <2>2. m(p) \in Nat
    BY <1>10
  <2>3. s \in [1..m(p) -> Units]
    BY <2>1 DEF s
  <2> HIDE DEF s
  <2> QED BY <2>2, <2>3
<1>14. /\ Len(k[p].got \o s) = k[p].tot + m(p)
       /\ \A y \in 1..k[p].tot : (k[p].got \o s)[y] = k[p].got[y]
       /\ \A y \in 1..m(p) : (k[p].got \o s)[k[p].tot + y] = s[y]
  <2> PICK g, w, t : g = k[p].got /\ w = m(p) /\ t = k[p].tot
    OBVIOUS
  <2>1. /\ g \in Seq(Units) /\ Len(g) = t /\ s \in Seq(Units) /\ Len(s) = w
        /\ t \in Nat /\ w \in Nat
    BY <1>10, <1>11, <1>13
  <2>2. /\ Len(g \o s) = Len(g) + Len(s)
        /\ \A y \in 1..Len(g) + Len(s) :
             (g \o s)[y] = IF y <= Len(g) THEN g[y] ELSE s[y - Len(g)]
    BY <2>1, ConcatProperties
  <2>3. \A y \in 1..t : (g \o s)[y] = g[y]
    BY <2>1, <2>2
  <2>4. ASSUME NEW y \in 1..w
        PROVE  (g \o s)[t + y] = s[y]
    <3>1. t + y \in 1..Len(g) + Len(s) /\ ~(t + y <= Len(g))
          /\ (t + y) - Len(g) = y
      BY <2>1
    <3> QED BY <2>2, <3>1
  <2> QED BY <2>1, <2>2, <2>3, <2>4
<1>15. ASSUME NEW u \in 1..k[p].tot + m(p)
       PROVE  HasUnit(i, k[p].off + u - 1, k[p].got[u])'
  <2>1. CASE u <= k[p].tot
    <3>1. PICK x, v : x = k[p].off + u - 1 /\ v = k[p].got[u]
      OBVIOUS
    <3>2. HasUnit(i, x, v)
      BY <1>1, <1>2, <1>10, <2>1, <3>1 DEF Inv, DataOK, Got
    <3>3. x \in 0..Limit - 1
      BY <1>10, <2>1, <3>1, Bounds
    <3>4. HasUnit(i, x, v)'
      BY <1>7, <3>2, <3>3, HasUnitKept DEF Inv
    <3>5. k'[p].off + u - 1 = x /\ k'[p].got[u] = v
      BY <1>5, <1>18, <1>14, <2>1, <3>1
    <3> QED BY <3>4, <3>5
  <2>2. CASE ~(u <= k[p].tot)
    <3>1. PICK y \in 0..m(p) - 1 : u = k[p].tot + y + 1
      <4>1. u - k[p].tot - 1 \in 0..m(p) - 1
        BY <1>10, <2>2
      <4>2. u = k[p].tot + (u - k[p].tot - 1) + 1
        BY <1>10
      <4> QED BY <4>1, <4>2
    <3>2. PICK x : x = k[p].off + k[p].tot + y
      OBVIOUS
    <3>3. x \div BSIZE = bn(p) /\ x % BSIZE = From(p) + y
      BY <1>2, <3>2, Within DEF Inv
    <3>4. k'[p].off + u - 1 = x
      BY <1>5, <1>10, <3>1, <3>2
    <3>5. k'[p].got[u] = blk[a][x % BSIZE]
      <4>1. y + 1 \in 1..m(p) /\ From(p) + (y + 1) - 1 = From(p) + y
        BY <1>10
      <4>2. (k[p].got \o s)[k[p].tot + (y + 1)] = s[y + 1]
        BY <1>14, <4>1
      <4>3. u = k[p].tot + (y + 1)
        BY <1>10, <3>1
      <4>4. s[y + 1] = blk[a][From(p) + y]
        BY <1>12, <4>1
      <4> QED BY <1>18, <3>3, <4>2, <4>3, <4>4
    <3>6. Has(i, x \div BSIZE, a)
      BY <1>6, <3>3
    <3>7. Has(i, x \div BSIZE, a)'
      <4>1. bn(p) \in Slots
        BY <1>2, Position DEF Inv
      <4> QED BY <1>6, <1>7, <3>3, <4>1 DEF Grown, Units, Pointers
    <3>8. PICK v : v = k'[p].got[u]
      OBVIOUS
    <3>9. HasUnit(i, x, v)'
      BY <1>2, <1>6, <3>5, <3>7, <3>8 DEF HasUnit
    <3> QED BY <3>4, <3>8, <3>9
  <2> QED BY <2>1, <2>2
<1>16. Got(p)'
  BY <1>5, <1>18, <1>14, <1>15 DEF Got
<1>17. Filled(p)'
  BY <1>5 DEF Filled, Writes
<1> QED
  BY <1>1, <1>2, <1>8, <1>9, <1>16, <1>17, FrameQuiet, DataStep


\* What writei() has written is in the file when its size is.
LEMMA WriteDoneData ==
  ASSUME Assumptions, Inv, NEW p \in Procs, WriteDone(p), CallsOK', HasSame
  PROVE  DataOK'
<1>1. PICK i \in Inums : i = k[p].ip /\ lock[i] = p /\ Only(p, i)
  BY InCallOnly DEF InCall, Inv
<1>2. /\ k[p].pc = "write" /\ k[p].tot = k[p].n /\ k[p] \in Call
      /\ CallOK(p) /\ blk' = blk
  BY Holder DEF WriteDone, At, Inv
<1>3. PICK e : e = k[p].off + k[p].n
  OBVIOUS
<1>4. k'[p] = User
  BY DEF WriteDone, Unlock, Become, Inv, Typed, TypedCalls
<1>5. ~OnFile(k'[p])
  BY <1>4 DEF OnFile, User
<1>6. /\ k[p].off \in Nat /\ k[p].n \in Nat /\ e \in Nat /\ e <= Limit
      /\ k[p].off <= inode[i].size /\ inode[i].size \in Nat
      /\ dinode[i].size = inode[i].size /\ inode[i].size <= Limit
  BY <1>1, <1>2, <1>3, Bounds
  DEF Call, CallOK, Inv, CallsOK, InodeOK, Typed, TypedCalls, TypedInodes,
    OnFile, Inode, Limit
<1>7. CASE k[p].n > 0 /\ e > inode[i].size
  <2>1. /\ inode'[i] = [inode[i] EXCEPT !.size = e] /\ dinode'[i] = inode'[i]
    BY <1>1, <1>3, <1>7 DEF WriteDone, Inv, Typed, TypedInodes
  <2>2. dinode'[i].size = e
    BY <2>1 DEF Inv, Typed, TypedInodes, Inode
  <2>3. Kept(i) /\ ~Truncated(i) /\ Grown(i)
    BY <1>1, <1>2, HolderKept, GrownSame DEF Inv, Freeing
  <2>4. Sized(i)'
    <3> SUFFICES ASSUME NEW u \in 0..e - 1
                 PROVE  Slot(dinode[i], u \div BSIZE)' # Null
      BY <2>2 DEF Sized, BlockOf
    <3>1. u \in Nat /\ u < Limit
      BY <1>6, Bounds
    <3>2. u \div BSIZE \in Slots
      BY <3>1, BlockNumber, Bounds DEF Slots
    <3>3. CASE u < inode[i].size
      <4>1. Slot(dinode[i], u \div BSIZE) # Null
        BY <1>6, <2>3, <3>1, <3>3 DEF Inv, DataOK, Sized, BlockOf
      <4> QED
        BY <2>1, <2>3, <3>2, <4>1, DiskSlotKept DEF Inv, CallsOK
    <3>4. CASE ~(u < inode[i].size)
      <4>1. u \in k[p].off..k[p].off + k[p].tot - 1
        BY <1>2, <1>3, <1>6, <3>1, <3>4
      <4>2. HasUnit(i, u, Written(p))
        BY <1>1, <1>2, <4>1 DEF Inv, DataOK, Filled, Writes
      <4>3. PICK b \in Numbers : Has(i, u \div BSIZE, b)
        BY <4>2 DEF HasUnit
      <4>4. Has(i, u \div BSIZE, b)'
        BY <2>3, <3>2, <4>3 DEF Grown, Units, Pointers
      <4>5. Slot(inode[i], u \div BSIZE)' = b /\ b # Null
        BY <4>4 DEF Has
      <4> QED BY <2>1, <4>5 DEF Slot, InTable
    <3> QED BY <3>3, <3>4
  <2> QED
    BY <1>1, <1>2, <1>5, <2>1, <2>4, FrameQuiet, WrittenInode, IdleData,
       DataStep
<1>8. CASE ~(k[p].n > 0 /\ e > inode[i].size)
  <2>1. UNCHANGED <<inode, dinode>>
    BY <1>1, <1>3, <1>8 DEF WriteDone
  <2>2. inode[i] = dinode[i]
    <3>1. Ahead(i)
      BY DEF Inv, DataOK
    <3>2. ~(e > inode[i].size)
      BY <1>3, <1>6, <1>8
    <3> QED BY <1>1, <1>3, <3>1, <3>2 DEF Ahead
  <2> QED BY <1>1, <1>2, <1>5, <2>1, <2>2, EndData DEF Freeing
<1> QED BY <1>7, <1>8

\* Nothing changes about the data.
LEMMA SameData ==
  ASSUME Assumptions, Inv, HasSame, CallsOK',
         UNCHANGED <<blk, dinode, inode, lock, k>>,
         \A i \in Inums : Kept(i)' <=> Kept(i)
  PROVE  DataOK'
<1>1. ASSUME NEW i \in Inums
      PROVE  Sized(i)' /\ Ahead(i)'
  <2>1. Truncated(i)' <=> Truncated(i)
    BY DEF Truncated
  <2>2. Grown(i)
    BY GrownSame
  <2>3. Sized(i)'
    BY <2>1, <2>2, SizedKept DEF Inv, CallsOK, DataOK
  <2>4. Ahead(i)
    BY DEF Inv, DataOK
  <2> QED BY <2>3, <2>4 DEF Ahead
<1>2. ASSUME NEW j, NEW u, NEW v, HasUnit(j, u, v), Kept(j)' <=> Kept(j)
      PROVE  HasUnit(j, u, v)'
  <2>1. Begun(j)' = Begun(j)
    BY DEF Begun, Truncated
  <2> QED BY <1>2, <2>1 DEF HasUnit, Has, Slot, InTable
<1>3. ASSUME NEW q \in Procs
      PROVE  Filled(q)' /\ Got(q)'
  <2>1. OnFile(k[q]) => k[q].ip \in Inums
    BY Holder DEF Inv, OnFile
  <2>2. Filled(q) /\ Got(q)
    BY DEF Inv, DataOK
  <2>3. Filled(q)'
    BY <1>2, <2>1, <2>2 DEF Filled, OnFile, Writes
  <2>4. Got(q)'
    BY <1>2, <2>1, <2>2 DEF Got, OnFile
  <2> QED BY <2>3, <2>4
<1> QED BY <1>1, <1>3 DEF DataOK

\* What is on the disk is still sound after a power failure.
LEMMA CrashData ==
  ASSUME Assumptions, Inv, Crash, Typed', CallsOK'
  PROVE  DataOK'
<1>1. /\ blk' = blk /\ dinode' = dinode /\ inode' = dinode
      /\ k' = [p \in Procs |-> User]
      /\ \A j \in Inums : Kept(j)' => Kept(j) /\ ~Truncated(j)
  BY CrashBlocks DEF Inv, Crash, diskVars
<1>2. ASSUME NEW i \in Inums
      PROVE  Sized(i)' /\ Ahead(i)'
  <2>1. Ahead(i)'
    BY <1>1, WrittenInode
  <2>2. Sized(i)'
    BY <1>1 DEF Inv, DataOK, Sized, BlockOf, Slot, InTable
  <2> QED BY <2>1, <2>2
<1>3. ASSUME NEW p \in Procs
      PROVE  Filled(p)' /\ Got(p)'
  <2>1. k'[p].pc = "user"
    BY <1>1 DEF User
  <2> QED BY <2>1, IdleData DEF OnFile
<1> QED BY <1>2, <1>3 DEF DataOK

\* There is no data in the initial state.
LEMMA InitData ==
  ASSUME Assumptions, Init
  PROVE  DataOK
<1>1. ASSUME NEW i \in Inums
      PROVE  Sized(i) /\ Ahead(i)
  <2>1. dinode[i].size = 0 /\ inode[i] = dinode[i]
    BY DEF Init, FreeInode
  <2>2. 0..0 - 1 = {}
    OBVIOUS
  <2> QED BY <2>1, <2>2 DEF Sized, Ahead
<1>2. ASSUME NEW p \in Procs
      PROVE  Filled(p) /\ Got(p)
  <2>1. k[p].pc = "user"
    BY DEF Init, User
  <2> QED BY <2>1 DEF Filled, Got, Writes
<1> QED BY <1>1, <1>2 DEF DataOK

-----------------------------------------------------------------------------
(* The invariant holds.                                                    *)

\* It holds in the initial state,
LEMMA InitInv ==
  ASSUME Assumptions, Init
  PROVE  Inv
BY InitTyped, InitCalls, InitBlocks, InitData DEF Inv

\* every step of a process keeps the types,
LEMMA StepTyped ==
  ASSUME Assumptions, Inv, NEW p \in Procs, Step(p)
  PROVE  Typed'
<1>1. Typed /\ CallsOK
  BY DEF Inv
<1>2. CASE \E i \in Inums : Create(p, i) \/ Unlink(p, i)
  BY <1>1, <1>2, CreateTyped, UnlinkTyped
<1>3. CASE \E f \in Files :
             Close(p, f) \/ \E n \in Sizes : Write(p, f, n) \/ Read(p, f, n)
  BY <1>1, <1>3, CloseTyped, WriteTyped, ReadTyped
<1>4. CASE UnlinkPut(p)
  <2>1. k[p].ip \in Inums
    BY <1>1, <1>4, Holder DEF UnlinkPut, At
  <2> QED BY <1>1, <1>4, <2>1, UnlinkPutTyped
<1>5. CASE ReadBlock(p)
  <2>1. Addr(p) \in Numbers
    BY <1>5, ReadAddr DEF ReadBlock, More, At
  <2> QED BY <1>1, <1>5, <2>1, ReadBlockTyped
<1> QED
  BY <1>1, <1>2, <1>3, <1>4, <1>5, CreateLinkedTyped, BmapInodeTyped,
     BmapTableTyped, BmapTableWriteTyped, OutOfBlocksTyped, WriteBlockTyped,
     WriteDoneTyped, ReadDoneTyped, ZeroTyped, ClearTyped, EmptiedTyped,
     FreedTyped
  DEF Step

\* and the calls and inodes,
LEMMA StepCalls ==
  ASSUME Assumptions, Inv, NEW p \in Procs, Step(p)
  PROVE  CallsOK'
<1>1. Typed /\ CallsOK
  BY DEF Inv
<1>2. CASE \E i \in Inums : Create(p, i) \/ Unlink(p, i)
  BY <1>1, <1>2, CreateCalls, UnlinkCalls
<1>3. CASE \E f \in Files :
             Close(p, f) \/ \E n \in Sizes : Write(p, f, n) \/ Read(p, f, n)
  BY <1>1, <1>3, CloseCalls, WriteCalls, ReadCalls
<1>4. CASE OutOfBlocks(p)
  BY <1>1, <1>4, OutOfBlocksCalls DEF OutOfBlocks, Panic, diskVars
<1> QED
  BY <1>1, <1>2, <1>3, <1>4, CreateLinkedCalls, UnlinkPutCalls, BmapInodeCalls,
     BmapTableCalls, BmapTableWriteCalls, WriteBlockCalls, WriteDoneCalls,
     ReadBlockCalls, ReadDoneCalls, ZeroCalls, ClearCalls, EmptiedCalls,
     FreedCalls
  DEF Step

\* The steps that are not quiet.
Busy(p) ==
  \/ BmapInode(p) \/ BmapTable(p) \/ BmapTableWrite(p) \/ WriteBlock(p)
  \/ Zero(p) \/ Clear(p)

\* a quiet step keeps the rest,
LEMMA QuietInv ==
  ASSUME Assumptions, Inv, NEW p \in Procs, Quiet(p), Typed', CallsOK'
  PROVE  Inv' /\ HasSame /\ blk' = blk /\ bitmap' = bitmap
<1>1. HasSame /\ BlocksOK' /\ blk' = blk /\ bitmap' = bitmap
  BY QuietStep DEF Inv
<1>2. CASE \E i \in Inums : Create(p, i) \/ Unlink(p, i)
  BY <1>1, <1>2, CreateData, UnlinkData DEF Inv
<1>3. CASE \E f \in Files :
             Close(p, f) \/ \E n \in Sizes : Write(p, f, n) \/ Read(p, f, n)
  BY <1>1, <1>3, CloseData, TransferData DEF Inv
<1>4. CASE Emptied(p) \/ Freed(p)
  <2>1. Frame(k[p].ip)
    BY <1>1 DEF Frame
  <2> QED BY <1>1, <1>4, <2>1, TruncData DEF Inv
<1> QED
  BY <1>1, <1>2, <1>3, <1>4, CreateLinkedData, UnlinkPutData, WriteDoneData,
     ReadBlockData, ReadDoneData
  DEF Quiet, Inv

\* and so does one that writes a block or the bitmap,
LEMMA BusyInv ==
  ASSUME Assumptions, Inv, NEW p \in Procs, Busy(p), Typed', CallsOK'
  PROVE  Inv'
<1>1. CASE BmapInode(p)
  BY <1>1, BmapInodeBlocks, BmapInodeData DEF Inv
<1>2. CASE BmapTable(p)
  BY <1>2, BmapTableBlocks, BmapTableData DEF Inv
<1>3. CASE BmapTableWrite(p)
  BY <1>3, BmapTableWriteBlocks, BmapTableWriteData DEF Inv
<1>4. CASE WriteBlock(p)
  BY <1>4, WriteBlockBlocks, WriteBlockData DEF Inv
<1>5. CASE Zero(p)
  BY <1>5, ZeroBlocks, TruncData DEF Inv
<1>6. CASE Clear(p)
  <2>1. BlocksOK' /\ blk' = blk
    BY <1>6, ClearBlocks DEF Inv
  <2>2. Frame(k[p].ip)
    BY <2>1 DEF Frame
  <2> QED BY <1>6, <2>1, <2>2, TruncData DEF Inv
<1> QED BY <1>1, <1>2, <1>3, <1>4, <1>5, <1>6 DEF Busy

\* the panic of balloc(),
LEMMA OutOfBlocksInv ==
  ASSUME Assumptions, Inv, NEW p \in Procs, OutOfBlocks(p), Typed', CallsOK'
  PROVE  Inv'
<1>1. HasSame /\ BlocksOK'
  BY OutOfBlocksBlocks DEF Inv
<1>2. UNCHANGED <<blk, dinode, inode, lock, file, k>>
  BY DEF OutOfBlocks, Panic, diskVars
<1>3. \A i \in Inums : Kept(i)' <=> Kept(i)
  BY <1>2 DEF Kept, Opened
<1> QED BY <1>1, <1>2, <1>3, SameData DEF Inv

\* open(),
LEMMA OpenInv ==
  ASSUME Assumptions, Inv, NEW f \in Files, NEW i \in Inums, Open(f, i)
  PROVE  Inv'
<1>1. Typed' /\ CallsOK'
  BY OpenTyped, OpenCalls DEF Inv
<1>2. HasSame /\ BlocksOK' /\ \A j \in Inums : Kept(j)' <=> Kept(j)
  BY OpenBlocks DEF Inv
<1>3. UNCHANGED <<blk, dinode, inode, lock, k>>
  BY DEF Open, diskVars
<1> QED BY <1>1, <1>2, <1>3, SameData DEF Inv

\* and a power failure.
LEMMA CrashInv ==
  ASSUME Assumptions, Inv, Crash
  PROVE  Inv'
<1>1. Typed' /\ CallsOK'
  BY CrashTyped, CrashCalls DEF Inv
<1>2. BlocksOK'
  BY CrashBlocks DEF Inv
<1> QED BY <1>1, <1>2, CrashData DEF Inv

\* A step of a process keeps the invariant;
LEMMA StepInv ==
  ASSUME Assumptions, Inv, NEW p \in Procs, Step(p)
  PROVE  Inv'
<1>1. Typed' /\ CallsOK'
  BY StepTyped, StepCalls
<1>2. Quiet(p) \/ Busy(p) \/ OutOfBlocks(p)
  BY DEF Step, Quiet, Busy
<1> QED BY <1>1, <1>2, QuietInv, BusyInv, OutOfBlocksInv

\* so does no step at all;
LEMMA StutterInv ==
  ASSUME Assumptions, Inv, UNCHANGED vars
  PROVE  Inv'
<1>1. UNCHANGED <<blk, bitmap, dinode, inode, lock, file, k>>
  BY DEF vars, diskVars
<1>2. Typed' /\ CallsOK'
  BY DEF Inv, vars, diskVars, Typed, TypedDisk, TypedInodes, TypedCalls,
    TypedFiles, CallsOK, CallOK, LocksOK, InodeOK, Opened, bn, Table
<1>3. \A i \in Inums : Kept(i)' <=> Kept(i)
  BY <1>1 DEF Kept, Opened
<1>4. HasSame /\ BlocksOK'
  BY <1>1, <1>3, SameBlocks DEF Inv
<1>5. DataOK'
  BY <1>1, <1>2, <1>3, <1>4, SameData
<1> QED BY <1>2, <1>4, <1>5 DEF Inv

\* so does every step.
LEMMA NextInv ==
  ASSUME Assumptions, Inv, [Next]_vars
  PROVE  Inv'
BY StepInv, OpenInv, CrashInv, StutterInv DEF Next

(* The calls, the inodes, the blocks and the data are what the invariant   *)
(* says in every reachable state.  (fs.c: who holds which lock, who has    *)
(* which block, what is on the disk)                                       *)
THEOREM Invariance == Spec => []Inv
<1> Assumptions
  BY BlocksAssumption DEF Assumptions
<1>1. Init => Inv
  BY InitInv
<1>2. Inv /\ [Next]_vars => Inv'
  BY NextInv
<1> QED BY <1>1, <1>2, PTL DEF Spec

-----------------------------------------------------------------------------
(* What follows from it.                                                   *)

\* itrunc() works on files without links.
LEMMA LinkedKept ==
  ASSUME Assumptions, Inv, NEW i \in Linked
  PROVE  i \in Inums /\ Kept(i) /\ ~Truncated(i) /\ Begun(i) = 0
<1>1. i \in Inums /\ inode[i].nlink > 0
  BY DEF Linked, Inv, CallsOK, InodeOK
<1>2. ~Truncated(i)
  <2> SUFFICES ASSUME Truncated(i)
               PROVE  FALSE
    OBVIOUS
  <2>1. PICK q \in Procs : lock[i] = q
    BY <1>1 DEF Truncated, Inv, Typed, TypedFiles
  <2>2. k[q].ip = i /\ Freeing(k[q]) /\ CallOK(q)
    BY <1>1, <2>1, Holder DEF Truncated, Inv
  <2> QED BY <1>1, <2>2 DEF CallOK
<1> QED BY <1>1, <1>2 DEF Kept, Begun

\* A linked file has the blocks that are in it on the disk.
LEMMA LinkedHas ==
  ASSUME Assumptions, Inv, NEW i \in Linked, NEW n \in Slots,
         Slot(dinode[i], n) # Null
  PROVE  Has(i, n, Slot(dinode[i], n)) /\ Slot(dinode[i], n) \in Units
<1>1. i \in Inums /\ Kept(i) /\ Begun(i) = 0
  BY LinkedKept
<1>2. Slot(dinode[i], n) = Slot(inode[i], n)
  BY <1>1, DiskSlot DEF Inv, CallsOK
<1>3. Slot(dinode[i], n) \in Units
  BY <1>1, SlotType DEF Inv, Typed, TypedInodes
<1> QED BY <1>1, <1>2, <1>3, Bounds DEF Has, Slots

\* What is on the disk is sound, by the invariant.
LEMMA InvSound ==
  ASSUME Assumptions, Inv
  PROVE  FilesSound
<1> SUFFICES ASSUME NEW i \in Linked
             PROVE  /\ Owned(dinode[i]) \subseteq bitmap
                    /\ \A j \in Linked \ {i} :
                         Owned(dinode[i]) \cap Owned(dinode[j]) = {}
                    /\ \A x, y \in Slots :
                         Slot(dinode[i], x) = Slot(dinode[i], y) /\ x # y
                           => Slot(dinode[i], x) = Null
                    /\ \A u \in 0..dinode[i].size - 1 :
                         BlockOf(dinode[i], u) # Null
  BY DEF FilesSound
<1>1. i \in Inums /\ Kept(i) /\ ~Truncated(i)
  BY LinkedKept
<1>2. OwnOK
  BY DEF Inv, BlocksOK
<1>3. ASSUME NEW b \in Owned(dinode[i])
      PROVE  b \in bitmap
  <2>1. PICK n \in Slots : Slot(dinode[i], n) = b /\ b # Null
    BY DEF Owned
  <2>2. Has(i, n, b) /\ b \in Units
    BY <2>1, LinkedHas
  <2> QED BY <1>1, <1>2, <2>2 DEF OwnOK
<1>4. ASSUME NEW j \in Linked \ {i}, NEW b \in Owned(dinode[i]),
             b \in Owned(dinode[j])
      PROVE  FALSE
  <2>1. PICK n \in Slots : Slot(dinode[i], n) = b /\ b # Null
    BY DEF Owned
  <2>2. PICK x \in Slots : Slot(dinode[j], x) = b
    BY <1>4 DEF Owned
  <2>3. Has(i, n, b) /\ b \in Units /\ Has(j, x, b) /\ j \in Inums
    BY <2>1, <2>2, LinkedHas, LinkedKept
  <2> QED BY <1>1, <1>2, <2>3 DEF OwnOK
<1>5. ASSUME NEW x \in Slots, NEW y \in Slots,
             Slot(dinode[i], x) = Slot(dinode[i], y), x # y,
             Slot(dinode[i], x) # Null
      PROVE  FALSE
  <2>1. PICK b : b = Slot(dinode[i], x)
    OBVIOUS
  <2>2. Has(i, x, b) /\ b \in Units /\ Has(i, y, b)
    BY <1>5, <2>1, LinkedHas
  <2> QED BY <1>1, <1>2, <1>5, <2>2 DEF OwnOK
<1>6. \A u \in 0..dinode[i].size - 1 : BlockOf(dinode[i], u) # Null
  BY <1>1 DEF Inv, DataOK, Sized
<1> QED BY <1>3, <1>4, <1>5, <1>6

(* All variables keep their types; and on the disk, also after a power     *)
(* failure at any time, every block of a linked file is marked, in one     *)
(* place only, and there wherever the size says so.  (the order of the     *)
(* writes of balloc, bmap, iupdate, itrunc and unlink)                     *)
THEOREM SoundOnDisk == Spec => []BlocksSound
<1> Assumptions
  BY BlocksAssumption DEF Assumptions
<1>1. Inv => FilesSound
  BY InvSound
<1>2. Inv => TypeOK
  BY DEF Inv, Typed, TypedDisk, TypedInodes, TypedCalls, TypedFiles, TypeOK,
    Limit
<1> QED BY <1>1, <1>2, Invariance, PTL DEF BlocksSound

(* What a call has done to an inode is on the disk when it unlocks it,     *)
(* although writei() calls iupdate() only when the file has grown.         *)
THEOREM DurableInodes == Spec => []WrittenThrough
<1> Assumptions
  BY BlocksAssumption DEF Assumptions
<1>1. Inv => WrittenThrough
  BY DEF Inv, DataOK, Ahead, WrittenThrough
<1> QED BY <1>1, Invariance, PTL

\* A quiet step does not panic.
LEMMA QuietPanic ==
  ASSUME NEW p \in Procs, Quiet(p)
  PROVE  panicked' = panicked
BY DEF Quiet, Create, Unlink, Close, Write, Read, CreateLinked, UnlinkPut,
  WriteDone, ReadBlock, ReadDone, Emptied, Freed, Begin, Goes

(* No block is freed twice: the kernel stops only when the disk is full.   *)
(* (the panics of balloc and bfree)                                        *)
THEOREM NoBlockFreedTwice == Spec => []PanicsOnlyWhenFull
<1> Assumptions
  BY BlocksAssumption DEF Assumptions
<1>1. Init => PanicsOnlyWhenFull
  BY DEF Init, PanicsOnlyWhenFull
<1>2. Inv /\ PanicsOnlyWhenFull /\ [Next]_vars => PanicsOnlyWhenFull'
  <2> SUFFICES ASSUME Inv, PanicsOnlyWhenFull, [Next]_vars
               PROVE  PanicsOnlyWhenFull'
    OBVIOUS
  <2>1. ASSUME NEW p \in Procs, Step(p)
        PROVE  PanicsOnlyWhenFull'
    <3>1. CASE Quiet(p)
      BY <3>1, QuietPanic DEF PanicsOnlyWhenFull
    <3>2. CASE Clear(p)
      <4>1. Typed'
        BY <2>1, StepTyped
      <4> QED BY <3>2, <4>1, ClearBlocks DEF Inv, PanicsOnlyWhenFull
    <3>3. CASE BmapInode(p) \/ BmapTable(p) \/ BmapTableWrite(p)
               \/ WriteBlock(p) \/ Zero(p)
      BY <3>3 DEF BmapInode, BmapTable, BmapTableWrite, WriteBlock, Zero, Goes,
        PanicsOnlyWhenFull
    <3>4. CASE OutOfBlocks(p)
      BY <3>4 DEF OutOfBlocks, Panic, PanicsOnlyWhenFull
    <3> QED BY <2>1, <3>1, <3>2, <3>3, <3>4 DEF Step, Quiet
  <2>2. ASSUME NEW f \in Files, NEW i \in Inums, Open(f, i)
        PROVE  PanicsOnlyWhenFull'
    BY <2>2 DEF Open, PanicsOnlyWhenFull
  <2>3. CASE Crash
    BY <2>3 DEF Crash, PanicsOnlyWhenFull
  <2>4. CASE UNCHANGED vars
    BY <2>4 DEF vars, PanicsOnlyWhenFull
  <2> QED BY <2>1, <2>2, <2>3, <2>4 DEF Next
<1> QED BY <1>1, <1>2, Invariance, PTL DEF Spec

-----------------------------------------------------------------------------
(* No block is lost.                                                       *)

\* As long as the power has not failed, an inode that nobody can come to is
\* free, and a marked block is somebody's, or about to be.
KeptOK == \A i \in Inums : Kept(i) \/ inode[i] = FreeInode
UsedOK ==
  \A b \in bitmap :
    \/ \E i \in Inums, n \in Slots : Has(i, n, b)
    \/ \E p \in Procs : k[p].new = b
LeakOK == crashes = 0 => KeptOK /\ UsedOK

\* It is enough to look at the inode that a step is about.
LEMMA KeptStep ==
  ASSUME Assumptions, Typed, KeptOK, NEW p \in Procs, NEW i \in Inums,
         Only(p, i), Kept(i)' \/ inode'[i] = FreeInode
  PROVE  KeptOK'
<1>1. ASSUME NEW j \in Inums, j # i
      PROVE  Kept(j)' \/ inode'[j] = FreeInode
  BY <1>1, KeptOthers DEF KeptOK, Only
<1> QED BY <1>1 DEF KeptOK

\* iput() leaves an inode to those that have it too.
LEMMA CloseKept ==
  ASSUME Assumptions, Inv, KeptOK, NEW p \in Procs, NEW f \in Files,
         Close(p, f)
  PROVE  KeptOK'
<1>1. PICK i \in Inums : i = file[f].ip /\ Only(p, i) /\ k[p].pc = "user"
  BY CloseOnly DEF Inv
<1>2. inode' = inode
  BY DEF Close
<1>3. CASE LastRef(p, i, file') /\ inode[i].nlink = 0
  <2>1. lock' = [lock EXCEPT ![i] = p]
    BY <1>1, <1>3 DEF Close, Begin
  <2> QED BY <1>1, <2>1, Bounds, KeptStep DEF Kept, Inv, Typed, TypedFiles
<1>4. CASE inode[i].nlink # 0
  <2>1. inode'[i].nlink > 0
    BY <1>2, <1>4 DEF Inv, Typed, TypedInodes, Inode
  <2> QED BY <1>1, <2>1, KeptStep DEF Kept, Inv
<1>5. CASE ~LastRef(p, i, file') /\ inode[i].nlink = 0
  <2>1. lock' = lock
    BY <1>1, <1>5 DEF Close
  <2>2. CASE \E g \in Files : file'[g].ip = i
    BY <1>1, <2>2, KeptStep DEF Kept, Opened, Inv
  <2>3. CASE \E q \in Procs \ {p} : k[q].ip = i
    <3>1. PICK q \in Procs : k[q].ip = i
      BY <2>3
    <3>2. lock[i] = q
      <4>1. k[q].pc = "user" => k[q].ip = Null
        BY Holder DEF Inv, CallOK, User
      <4> QED BY <3>1, <4>1, Holder, Bounds DEF Inv
    <3> QED BY <1>1, <2>1, <3>2, Bounds, KeptStep DEF Kept, Inv
  <2> QED BY <1>5, <2>2, <2>3 DEF LastRef
<1> QED BY <1>3, <1>4, <1>5

\* The iput() of unlink() leaves an inode to others, or goes on to itrunc().
LEMMA UnlinkPutKept ==
  ASSUME Assumptions, Inv, KeptOK, NEW p \in Procs, UnlinkPut(p)
  PROVE  KeptOK'
<1>1. PICK i \in Inums : i = k[p].ip /\ lock[i] = p /\ Only(p, i)
  BY InCallOnly DEF InCall, Inv
<1>2. file' = file
  BY DEF UnlinkPut
<1>3. CASE LastRef(p, i, file)
  <2>1. lock' = lock
    BY <1>1, <1>3 DEF UnlinkPut
  <2> QED BY <1>1, <2>1, Bounds, KeptStep DEF Kept, Inv
<1>4. CASE ~LastRef(p, i, file)
  <2>1. CASE \E g \in Files : file[g].ip = i
    BY <1>1, <1>2, <2>1, KeptStep DEF Kept, Opened, Inv
  <2>2. CASE \E q \in Procs \ {p} : k[q].ip = i
    <3>1. PICK q \in Procs \ {p} : k[q].ip = i
      BY <2>2
    <3>2. k[q].pc = "user" => k[q].ip = Null
      BY Holder DEF Inv, CallOK, User
    <3>3. lock[i] = q
      BY <3>1, <3>2, Holder, Bounds DEF Inv
    <3> QED BY <1>1, <3>1, <3>3
  <2> QED BY <1>4, <2>1, <2>2 DEF LastRef
<1> QED BY <1>3, <1>4

\* A call leaves a file that is open or linked, or a free inode.
LEMMA CallKept ==
  ASSUME Assumptions, Inv, KeptOK, NEW p \in Procs,
         InCall(p), ~UnlinkPut(p), Typed'
  PROVE  KeptOK'
<1>1. PICK i \in Inums : i = k[p].ip /\ lock[i] = p /\ Only(p, i)
  BY InCallOnly DEF Inv
<1>2. CASE CreateLinked(p)
  <2>1. inode'[i].nlink = 1
    BY <1>1, <1>2 DEF CreateLinked, Inv, Typed, TypedInodes, Inode
  <2> QED BY <1>1, <2>1, KeptStep DEF Kept, Inv
<1>3. CASE WriteDone(p) \/ ReadDone(p)
  <2>1. OnFile(k[p]) /\ CallOK(p) /\ k[p] \in Call
    BY <1>3, Holder DEF WriteDone, ReadDone, At, OnFile, Inv
  <2>2. PICK f \in Files : f = k[p].f /\ file[f].ip = i
    BY <1>1, <2>1 DEF CallOK, Call
  <2>3. \E e : file' = [file EXCEPT ![f].off = e]
    BY <1>3, <2>2 DEF WriteDone, ReadDone
  <2>4. file'[f].ip = i
    BY <2>2, <2>3 DEF Inv, Typed, TypedFiles
  <2> QED BY <1>1, <2>4, KeptStep DEF Kept, Opened, Inv
<1>4. CASE Freed(p)
  <2>1. inode'[i] = FreeInode
    BY <1>1, <1>4 DEF Freed, Inv, Typed, TypedInodes
  <2> QED BY <1>1, <2>1, KeptStep DEF Inv
<1>5. CASE ~(CreateLinked(p) \/ WriteDone(p) \/ ReadDone(p) \/ Freed(p))
  <2>1. lock' = lock
    BY <1>5 DEF InCall, BmapInode, BmapTable, BmapTableWrite, WriteBlock,
      ReadBlock, Zero, Clear, Emptied, Goes, Panic
  <2> QED BY <1>1, <2>1, Bounds, KeptStep DEF Kept, Inv
<1> QED BY <1>2, <1>3, <1>4, <1>5

\* A call that begins locks its inode.
LEMMA BeginKept ==
  ASSUME Assumptions, Inv, KeptOK, NEW p \in Procs,
         \/ \E i \in Inums : Create(p, i) \/ Unlink(p, i)
         \/ \E f \in Files, n \in Sizes : Write(p, f, n) \/ Read(p, f, n)
  PROVE  KeptOK'
<1>1. PICK i \in Inums : Only(p, i) /\ lock'[i] = p
  BY CreateOnly, TransferOnly DEF Inv
<1> QED BY <1>1, Bounds, KeptStep DEF Kept, Inv

\* No step leaves an inode with blocks to nobody.
LEMMA StepKept ==
  ASSUME Assumptions, Inv, KeptOK, NEW p \in Procs, Step(p), Typed'
  PROVE  KeptOK'
<1>1. CASE OutOfBlocks(p)
  BY <1>1 DEF OutOfBlocks, Panic, diskVars, KeptOK, Kept, Opened
<1>2. CASE ~OutOfBlocks(p)
  <2>1. \/ \E f \in Files : Close(p, f)
        \/ UnlinkPut(p)
        \/ InCall(p)
        \/ \E i \in Inums : Create(p, i) \/ Unlink(p, i)
        \/ \E f \in Files, n \in Sizes : Write(p, f, n) \/ Read(p, f, n)
    BY <1>2 DEF Step, InCall
  <2> QED BY <2>1, CloseKept, UnlinkPutKept, CallKept, BeginKept
<1> QED BY <1>1, <1>2

\* A quiet step marks no block.
LEMMA UsedQuiet ==
  ASSUME Assumptions, Inv, UsedOK, NEW p \in Procs, Quiet(p), Typed', CallsOK'
  PROVE  UsedOK'
<1>1. HasSame /\ bitmap' = bitmap
  BY QuietInv
<1>2. PICK i \in Inums : Only(p, i)
  BY QuietOnly DEF Inv
<1>3. k[p].new = Null
  <2>1. k[p].pc # "table" /\ CallOK(p)
    BY Holder DEF Inv, Quiet, Create, Unlink, Close, Write, Read, CreateLinked,
      UnlinkPut, WriteDone, ReadBlock, ReadDone, Emptied, Freed, At, More,
      Begin
  <2> QED BY <2>1 DEF CallOK
<1> SUFFICES ASSUME NEW b \in bitmap
             PROVE  \/ \E j \in Inums, n \in Slots : Has(j, n, b)'
                    \/ \E q \in Procs : k'[q].new = b
  BY <1>1 DEF UsedOK
<1>4. b \in Units /\ b # Null
  BY Bounds DEF Inv, Typed, TypedDisk, Units, Pointers
<1>5. CASE \E j \in Inums, n \in Slots : Has(j, n, b)
  BY <1>1, <1>4, <1>5 DEF HasSame
<1>6. CASE \E q \in Procs : k[q].new = b
  BY <1>2, <1>3, <1>4, <1>6 DEF Only
<1> QED BY <1>5, <1>6 DEF UsedOK

\* The others mark a block for somebody, or clear the bit of one.
LEMMA UsedBusy ==
  ASSUME Assumptions, Inv, UsedOK, NEW p \in Procs, Busy(p), Typed'
  PROVE  UsedOK'
<1>1. PICK i \in Inums : i = k[p].ip /\ Only(p, i)
  BY InCallOnly DEF Busy, InCall, Inv
<1>2. k[p] \in Call
  BY Holder DEF Inv
<1> SUFFICES ASSUME NEW b \in bitmap'
             PROVE  \/ \E j \in Inums, n \in Slots : Has(j, n, b)'
                    \/ \E q \in Procs : k'[q].new = b
  BY DEF UsedOK
<1>3. b \in Units /\ b # Null
  BY Bounds DEF Typed, TypedDisk, Units, Pointers
<1>4. CASE BmapInode(p)
  <2>1. PICK c \in Numbers \ bitmap, x \in Slots :
          bitmap' = bitmap \cup {c} /\ Gains(i, x, c)
    BY <1>1, <1>4, BmapInodeBlocks DEF Inv
  <2>2. k' = k
    BY <1>4 DEF BmapInode
  <2>3. CASE b = c
    BY <1>3, <2>1, <2>3 DEF Gains
  <2>4. CASE b # c
    BY <1>3, <2>1, <2>2, <2>4 DEF Gains, UsedOK
  <2> QED BY <2>3, <2>4
<1>5. CASE BmapTable(p)
  <2>1. HasSame
    BY <1>5, BmapTableBlocks DEF Inv
  <2>2. PICK c : bitmap' = bitmap \cup {c} /\ k'[p].new = c
    BY <1>5, BmapTableBlocks DEF Inv
  <2>3. \A q \in Procs : q # p => k'[q].new = k[q].new
    BY <1>1 DEF Only
  <2>4. k[p].new = Null
    BY <1>5, Holder DEF BmapTable, More, At, Inv, CallOK
  <2> QED BY <1>3, <2>1, <2>2, <2>3, <2>4 DEF HasSame, UsedOK
<1>6. CASE BmapTableWrite(p)
  <2>a. PICK x \in Slots : Gains(i, x, k[p].new)
    BY <1>1, <1>6, BmapTableWriteBlocks DEF Inv
  <2>1. PICK c : c = k[p].new /\ Gains(i, x, c)
    BY <2>a
  <2>2. bitmap' = bitmap
    BY <1>6 DEF BmapTableWrite
  <2>3. CASE b = c
    BY <1>3, <2>1, <2>3 DEF Gains
  <2>4. CASE b # c
    <3>1. CASE \E j \in Inums, n \in Slots : Has(j, n, b)
      BY <1>3, <2>1, <3>1 DEF Gains
    <3>2. CASE \E q \in Procs : k[q].new = b
      BY <1>1, <2>1, <2>4, <3>2 DEF Only
    <3> QED BY <2>2, <3>1, <3>2 DEF UsedOK
  <2> QED BY <2>3, <2>4
<1>7. CASE WriteBlock(p) \/ Zero(p)
  <2>1. HasSame /\ bitmap' = bitmap
    BY <1>7, WriteBlockBlocks, ZeroBlocks DEF Inv
  <2>2. k'[p].new = k[p].new
    <3>1. CASE WriteBlock(p)
      <4>1. \E t : k'[p] = [k[p] EXCEPT !.tot = t]
        BY <3>1 DEF WriteBlock, Become, Inv, Typed, TypedCalls
      <4> QED BY <1>2, <4>1 DEF Call
    <3>2. CASE Zero(p)
      <4>1. \E n : k'[p] = [k[p] EXCEPT !.pc = "clear", !.at = n]
        BY <3>2 DEF Zero, Become, Inv, Typed, TypedCalls
      <4> QED BY <1>2, <4>1 DEF Call
    <3> QED BY <1>7, <3>1, <3>2
  <2>3. \A q \in Procs : k'[q].new = k[q].new
    BY <1>1, <2>2 DEF Only
  <2> QED BY <1>3, <2>1, <2>3 DEF HasSame, UsedOK
<1>8. CASE Clear(p)
  <2>1. PICK c \in Numbers, x \in Slots :
          /\ bitmap' = bitmap \ {c} /\ Loses(i, x, c)
          /\ \A q \in Procs : k'[q].new = k[q].new
    BY <1>1, <1>8, ClearBlocks DEF Inv
  <2>2. b \in bitmap /\ b # c
    BY <2>1
  <2>3. CASE \E q \in Procs : k[q].new = b
    BY <2>1, <2>3
  <2>4. CASE \E j \in Inums, n \in Slots : Has(j, n, b)
    <3>1. PICK j \in Inums, n \in Slots : Has(j, n, b)
      BY <2>4
    <3>2. ~(j = i /\ n = x)
      BY <2>1, <2>2, <3>1 DEF Loses, Has
    <3> QED BY <1>3, <2>1, <3>1, <3>2 DEF Loses
  <2> QED BY <2>2, <2>3, <2>4 DEF UsedOK
<1> QED BY <1>4, <1>5, <1>6, <1>7, <1>8 DEF Busy

\* No step of a process loses a block.
LEMMA StepLeak ==
  ASSUME Assumptions, Inv, LeakOK, NEW p \in Procs, Step(p)
  PROVE  LeakOK'
<1>1. Typed' /\ CallsOK'
  BY StepTyped, StepCalls
<1>2. crashes' = crashes
  BY DEF Step, Create, CreateLinked, Unlink, UnlinkPut, Close, Write, Read,
    BmapInode, BmapTable, BmapTableWrite, OutOfBlocks, WriteBlock, WriteDone,
    ReadBlock, ReadDone, Zero, Clear, Emptied, Freed, Begin, Goes, Panic
<1>3. UsedOK => UsedOK'
  <2>1. CASE OutOfBlocks(p)
    <3>1. HasSame
      BY <2>1, OutOfBlocksBlocks DEF Inv
    <3>2. k' = k /\ bitmap' = bitmap
      BY <2>1 DEF OutOfBlocks, Panic, diskVars
    <3>3. bitmap \subseteq Units
      BY DEF Inv, Typed, TypedDisk, Units, Pointers
    <3> QED BY <3>1, <3>2, <3>3 DEF HasSame, UsedOK
  <2>2. Quiet(p) \/ Busy(p) \/ OutOfBlocks(p)
    BY DEF Step, Quiet, Busy
  <2> QED BY <1>1, <2>1, <2>2, UsedQuiet, UsedBusy
<1> QED BY <1>1, <1>2, <1>3, StepKept DEF LeakOK

(* As long as the power has not failed, a block is marked because it is in *)
(* some inode, or because a call is about to put it there: none is lost    *)
(* when a file goes away; and none is freed twice.  (itrunc, bmap and the  *)
(* last iput)                                                              *)
THEOREM NoBlockLost == Spec => []NoLeak
<1> Assumptions
  BY BlocksAssumption DEF Assumptions
<1>1. Init => LeakOK
  BY DEF Init, LeakOK, KeptOK, UsedOK
<1>2. Inv /\ LeakOK /\ [Next]_vars => LeakOK'
  <2> SUFFICES ASSUME Inv, LeakOK, [Next]_vars
               PROVE  LeakOK'
    OBVIOUS
  <2>1. ASSUME NEW p \in Procs, Step(p)
        PROVE  LeakOK'
    BY <2>1, StepLeak
  <2>2. ASSUME HasSame, k' = k, bitmap' = bitmap, inode' = inode,
               crashes' = crashes, \A j \in Inums : Kept(j)' <=> Kept(j)
        PROVE  LeakOK'
    <3>1. bitmap \subseteq Units
      BY DEF Inv, Typed, TypedDisk, Units, Pointers
    <3>2. KeptOK => KeptOK'
      BY <2>2 DEF KeptOK
    <3>3. UsedOK => UsedOK'
      BY <2>2, <3>1 DEF HasSame, UsedOK
    <3> QED BY <2>2, <3>2, <3>3 DEF LeakOK
  <2>3. ASSUME NEW f \in Files, NEW i \in Inums, Open(f, i)
        PROVE  LeakOK'
    <3>1. HasSame /\ \A j \in Inums : Kept(j)' <=> Kept(j)
      BY <2>3, OpenBlocks DEF Inv
    <3>2. UNCHANGED <<k, bitmap, inode, crashes>>
      BY <2>3 DEF Open, diskVars
    <3> QED BY <2>2, <3>1, <3>2
  <2>4. CASE Crash
    <3>1. crashes' # 0
      BY <2>4 DEF Crash, Inv, Typed, TypedFiles
    <3> QED BY <3>1 DEF LeakOK
  <2>5. CASE UNCHANGED vars
    <3>1. UNCHANGED <<blk, bitmap, inode, lock, file, k, crashes>>
      BY <2>5 DEF vars, diskVars
    <3>2. \A j \in Inums : Kept(j)' <=> Kept(j)
      BY <3>1 DEF Kept, Opened
    <3>3. HasSame
      BY <3>1, <3>2, SameBlocks DEF Inv
    <3> QED BY <2>2, <3>1, <3>2, <3>3
  <2> QED BY <2>1, <2>3, <2>4, <2>5 DEF Next
<1>3. Inv /\ LeakOK => Accounted
  <2> SUFFICES ASSUME Inv, LeakOK, crashes = 0, NEW b \in bitmap
               PROVE  b \in (UNION {Owned(inode[i]) : i \in Inums})
                              \cup {k[p].new : p \in Procs}
    BY DEF Accounted
  <2>1. CASE \E i \in Inums, n \in Slots : Has(i, n, b)
    BY <2>1 DEF Has, Owned
  <2>2. CASE \E p \in Procs : k[p].new = b
    BY <2>2
  <2> QED BY <2>1, <2>2 DEF LeakOK, UsedOK
<1> QED BY <1>1, <1>2, <1>3, Invariance, NoBlockFreedTwice, PTL
  DEF Spec, NoLeak

-----------------------------------------------------------------------------
(* What read() returns.                                                    *)

\* What read() has got is in the file, by the invariant.
LEMMA InvReads ==
  ASSUME Assumptions, Inv
  PROVE  ReadsFile
<1> SUFFICES ASSUME NEW p \in Procs, k[p].pc = "read"
             PROVE  k[p].got = SubSeq(Contents(inode[k[p].ip]), k[p].off + 1,
                                      k[p].off + k[p].tot)
  BY DEF ReadsFile
<1>1. PICK i \in Inums : i = k[p].ip /\ lock[i] = p
  BY Holder DEF Inv
<1>2. PICK o, t, g : o = k[p].off /\ t = k[p].tot /\ g = k[p].got
  OBVIOUS
<1>3. /\ o \in Nat /\ t \in Nat /\ g \in Seq(Units) /\ Len(g) = t
      /\ \A u \in 1..t : HasUnit(i, o + u - 1, g[u])
  BY <1>1, <1>2, Holder DEF Inv, Call, DataOK, Got
<1>4. PICK z \in Nat : z = inode[i].size
  BY Bounds DEF Inv, Typed, TypedInodes, Inode, Limit
<1>5. o + t <= z /\ z <= Limit
  <2>1. /\ CallOK(p) /\ k[p].n \in Nat /\ inode[i].size <= Limit
    BY Holder, Bounds DEF Inv, Call, Typed, TypedInodes, Inode, Limit
  <2>2. t <= k[p].n /\ o + k[p].n <= z
    BY <1>1, <1>2, <1>4, <2>1 DEF CallOK, OnFile
  <2> QED BY <1>3, <1>4, <2>1, <2>2
<1> DEFINE s == Contents(inode[i])
<1>6. s = [u \in 1..z |-> blk[BlockOf(inode[i], u - 1)][(u - 1) % BSIZE]]
  BY <1>4 DEF Contents
<1>7. \A u \in 1..z : s[u] = blk[BlockOf(inode[i], u - 1)][(u - 1) % BSIZE]
  BY <1>6
<1>8. s \in Seq(Units)
  <2>1. ASSUME NEW u \in 1..z
        PROVE  blk[BlockOf(inode[i], u - 1)][(u - 1) % BSIZE] \in Units
    <3>1. PICK x : x = u - 1
      OBVIOUS
    <3>2. x \in Nat /\ x < Limit /\ x \in 0..z - 1
      BY <1>5, <3>1, Bounds
    <3>3. x \div BSIZE \in Slots /\ x % BSIZE \in 0..BSIZE - 1
      BY <3>2, BlockNumber, Bounds DEF Slots
    <3>4. Kept(i) /\ ~Truncated(i) /\ Begun(i) = 0
      BY <1>1, HolderKept DEF Inv, Freeing
    <3>5. Slot(dinode[i], x \div BSIZE) # Null
      BY <1>4, <3>2, <3>4 DEF Inv, CallsOK, InodeOK, DataOK, Sized, BlockOf
    <3>6. PICK b : b = Slot(inode[i], x \div BSIZE) /\ b # Null
      BY <3>3, <3>5, DiskSlot DEF Inv, CallsOK
    <3>7. Has(i, x \div BSIZE, b)
      BY <3>3, <3>4, <3>6, Bounds DEF Has, Slots
    <3>8. b \in Numbers
      BY <3>3, <3>7, HasType DEF Inv, BlocksOK
    <3>9. x % BSIZE \in DOMAIN blk[b]
      BY <3>3, <3>8, Places DEF Inv
    <3>10. blk[b][x % BSIZE] \in Units
      BY <3>8, <3>9 DEF Inv, Typed, TypedDisk
    <3> QED BY <3>1, <3>6, <3>10 DEF BlockOf
  <2>2. s \in [1..z -> Units]
    BY <1>6, <2>1
  <2> HIDE DEF s
  <2> QED BY <1>4, <2>2
<1>9. Len(s) = z
  BY <1>4, <1>6
<1> HIDE DEF s
<1>10. ASSUME NEW u \in 1..t
       PROVE  g[u] = s[o + u]
  <2>1. PICK x : x = o + u - 1
    OBVIOUS
  <2>2. PICK b \in Numbers :
          Has(i, x \div BSIZE, b) /\ blk[b][x % BSIZE] = g[u]
    BY <1>3, <2>1 DEF HasUnit
  <2>3. b = BlockOf(inode[i], x)
    BY <2>2 DEF Has, BlockOf
  <2>4. o + u \in 1..z /\ (o + u) - 1 = x
    BY <1>3, <1>5, <2>1
  <2> QED BY <1>7, <2>2, <2>3, <2>4
<1>11. /\ SubSeq(s, o + 1, o + t) \in Seq(Units)
       /\ Len(SubSeq(s, o + 1, o + t)) = t
       /\ \A u \in 1..t : SubSeq(s, o + 1, o + t)[u] = s[o + u]
  <2>1. \A u \in o + 1..o + t : s[u] \in Units
    BY <1>3, <1>4, <1>5, <1>8, <1>9
  <2>2. /\ o + 1 \in Int /\ o + t \in Int
        /\ (o + t) - (o + 1) + 1 = t /\ (o + 1 <= o + t <=> 1 <= t)
    BY <1>3
  <2>3. /\ SubSeq(s, o + 1, o + t) \in Seq(Units)
        /\ Len(SubSeq(s, o + 1, o + t)) = t
        /\ \A u \in 1..t : SubSeq(s, o + 1, o + t)[u] = s[(o + 1) + u - 1]
    <3> HIDE DEF s
    <3> QED BY <1>3, <2>1, <2>2, SubSeqProperties
  <2>4. \A u \in 1..t : (o + 1) + u - 1 = o + u
    BY <1>3
  <2> QED BY <2>3, <2>4
<1>12. g = SubSeq(s, o + 1, o + t)
  BY <1>3, <1>10, <1>11, SeqEqual
<1> QED BY <1>1, <1>2, <1>12 DEF s

(* read() returns what is in the file from the offset on, as much of it as *)
(* was asked for or as there is, whatever is written to other files.       *)
(* (readi, with the inode locked)                                          *)
THEOREM ReadsTheFile == Spec => []ReadsFile
<1> Assumptions
  BY BlocksAssumption DEF Assumptions
<1>1. Inv => ReadsFile
  BY InvReads
<1> QED BY <1>1, Invariance, PTL

(* Nothing that a write() has returned from is lost with the power, and a  *)
(* read() finds it.  (writei, iupdate and readi)                           *)
THEOREM DurableFiles == Spec => []Durable
BY DurableInodes, ReadsTheFile, PTL DEF Durable


-----------------------------------------------------------------------------
(* What is on the disk behaves like FileStore.                             *)

FileOf(i) == IF i \in Linked THEN Contents(dinode[i]) ELSE <<>>

\* Unit u of a linked file is in a block that the file has.
LEMMA FileUnit ==
  ASSUME Assumptions, Inv, NEW i \in Linked, NEW u \in 0..dinode[i].size - 1
  PROVE  /\ u \in Nat /\ u < Limit /\ u \div BSIZE \in 0..MAXFILE - 1
         /\ u \div BSIZE \in Slots /\ u % BSIZE \in 0..BSIZE - 1
         /\ BlockOf(dinode[i], u) \in Numbers
         /\ Has(i, u \div BSIZE, BlockOf(dinode[i], u))
         /\ blk[BlockOf(dinode[i], u)][u % BSIZE] \in Units
<1>1. i \in Inums
  BY LinkedKept
<1>2. u \in Nat /\ u < Limit
  <2>1. dinode[i].size \in Nat /\ dinode[i].size <= Limit
    BY <1>1, Bounds DEF Inv, Typed, TypedInodes, Inode, Limit
  <2> QED BY <2>1, Bounds
<1>3. /\ u \div BSIZE \in 0..MAXFILE - 1 /\ u \div BSIZE \in Slots
      /\ u % BSIZE \in 0..BSIZE - 1
  BY <1>2, BlockNumber, Bounds DEF Slots
<1>4. PICK b : b = BlockOf(dinode[i], u)
  OBVIOUS
<1>5. b # Null
  BY <1>4, InvSound DEF FilesSound
<1>6. Has(i, u \div BSIZE, b)
  BY <1>3, <1>4, <1>5, LinkedHas DEF BlockOf
<1>7. b \in Numbers
  BY <1>1, <1>3, <1>6, HasType DEF Inv, BlocksOK
<1>8. u % BSIZE \in DOMAIN blk[b]
  BY <1>3, <1>7, Places DEF Inv
<1>9. blk[b][u % BSIZE] \in Units
  BY <1>7, <1>8 DEF Inv, Typed, TypedDisk
<1> QED BY <1>2, <1>3, <1>4, <1>6, <1>7, <1>9

\* A linked file is a sequence of units, as long as its size.
LEMMA FileType ==
  ASSUME Assumptions, Inv, NEW i \in Linked
  PROVE  /\ FileOf(i) \in Seq(Units) /\ Len(FileOf(i)) = dinode[i].size
         /\ dinode[i].size \in 0..Limit
         /\ \A u \in 1..dinode[i].size :
              FileOf(i)[u] = blk[BlockOf(dinode[i], u - 1)][(u - 1) % BSIZE]
<1>1. PICK z \in Nat : z = dinode[i].size /\ z <= Limit
  BY LinkedKept, Bounds DEF Inv, Typed, TypedInodes, Inode, Limit
<1> DEFINE s == [u \in 1..z |->
                   blk[BlockOf(dinode[i], u - 1)][(u - 1) % BSIZE]]
<1>2. FileOf(i) = s
  BY <1>1 DEF FileOf, Contents
<1>3. ASSUME NEW u \in 1..z
      PROVE  s[u] \in Units
  <2>1. u - 1 \in 0..dinode[i].size - 1
    BY <1>1
  <2> QED BY <2>1, FileUnit
<1>4. s \in [1..z -> Units] /\ \A u \in 1..z :
        s[u] = blk[BlockOf(dinode[i], u - 1)][(u - 1) % BSIZE]
  BY <1>3
<1> HIDE DEF s
<1>5. s \in Seq(Units) /\ Len(s) = z
  BY <1>1, <1>4
<1> QED BY <1>1, <1>2, <1>4, <1>5, Bounds

\* A file stays as it is if its blocks and its size do.
LEMMA FileKept ==
  ASSUME Assumptions, Inv, Inv', NEW i \in Inums,
         i \in Linked' <=> i \in Linked,
         i \in Linked => /\ Grown(i) /\ Unwritten(i)
                         /\ dinode'[i].size = dinode[i].size
                         /\ dinode'[i].addrs
                              \in {dinode[i].addrs, inode'[i].addrs}
  PROVE  FileOf(i)' = FileOf(i)
<1>1. CASE i \notin Linked
  BY <1>1 DEF FileOf
<1>2. CASE i \in Linked
  <2>1. PICK z \in Nat : z = dinode[i].size /\ dinode'[i].size = z
    BY <1>2, FileType, Bounds
  <2>2. ASSUME NEW u \in 1..z
        PROVE  blk'[BlockOf(dinode[i], u - 1)'][(u - 1) % BSIZE]
                 = blk[BlockOf(dinode[i], u - 1)][(u - 1) % BSIZE]
    <3>1. PICK x : x = u - 1
      OBVIOUS
    <3>2. x \in 0..dinode[i].size - 1
      BY <2>1, <3>1
    <3>3. PICK b : b = BlockOf(dinode[i], x)
      OBVIOUS
    <3>4. /\ x \div BSIZE \in 0..MAXFILE - 1 /\ x \div BSIZE \in Slots
          /\ b \in Numbers /\ Has(i, x \div BSIZE, b)
      BY <1>2, <3>2, <3>3, FileUnit
    <3>5. b # Null /\ b \in Units
      BY <3>4, Bounds DEF Units, Pointers
    <3>6. Slot(dinode[i], x \div BSIZE)' = b
      BY <1>2, <3>3, <3>4, <3>5, LinkedKept, DiskSlotKept
      DEF BlockOf, Inv, CallsOK
    <3>7. blk'[b] = blk[b]
      BY <1>2, <3>4, <3>5 DEF Unwritten
    <3>8. BlockOf(dinode[i], x)' = b
      BY <3>6 DEF BlockOf
    <3> QED BY <3>1, <3>3, <3>7, <3>8
  <2> QED BY <1>2, <2>1, <2>2 DEF FileOf, Contents
<1> QED BY <1>1, <1>2

\* A step of p leaves every other file alone.
LEMMA OtherFiles ==
  ASSUME Assumptions, Inv, Inv', NEW p \in Procs, NEW i \in Inums, Only(p, i),
         Frame(i), NEW j \in Inums \ {i}
  PROVE  FileOf(j)' = FileOf(j)
<1>1. dinode'[j] = dinode[j]
  BY DEF Only
<1>2. 0..MAXFILE - 1 \subseteq Slots
  BY Bounds DEF Slots
<1>3. \A n \in Slots, c \in Units :
        Has(j, n, c) => Has(j, n, c)' /\ blk'[c] = blk[c]
  BY HasOthers DEF Inv
<1>4. Grown(j) /\ Unwritten(j)
  BY <1>2, <1>3 DEF Grown, Unwritten
<1> QED BY <1>1, <1>4, FileKept DEF Linked

\* Nothing happens to the disk.
LEMMA SameDisk ==
  ASSUME UNCHANGED <<dinode, blk>>, NEW j
  PROVE  FileOf(j)' = FileOf(j)
BY DEF FileOf, Linked, Contents, BlockOf, Slot, InTable

\* The disk is what it was, except for inode i.
LEMMA StoreSame ==
  ASSUME \A j \in Inums : FileOf(j)' = FileOf(j)
  PROVE  UNCHANGED Store!vars
BY DEF Store!vars, FileOf

\* File i is gone.
LEMMA StoreRemove ==
  ASSUME NEW i \in Inums, FileOf(i)' = <<>>,
         \A j \in Inums \ {i} : FileOf(j)' = FileOf(j)
  PROVE  Store!Next
<1>1. Store!Remove(i)
  BY DEF Store!Remove, FileOf
<1> QED BY <1>1 DEF Store!Next

\* File i is longer.
LEMMA StoreExtend ==
  ASSUME Assumptions, NEW i \in Inums, NEW p \in Procs, NEW n \in 1..Limit,
         Len(FileOf(i)) + n <= Limit,
         FileOf(i)' = FileOf(i) \o [u \in 1..n |-> Written(p)],
         \A j \in Inums \ {i} : FileOf(j)' = FileOf(j)
  PROVE  Store!Next
<1>1. Store!Extend(i, n, Written(p))
  BY DEF Store!Extend, FileOf, Limit
<1> QED BY <1>1 DEF Store!Next, Limit

\* Part of file i is replaced.
LEMMA StoreOverwrite ==
  ASSUME Assumptions, NEW i \in Inums, NEW p \in Procs,
         NEW from \in 1..Limit, NEW to \in 1..Limit,
         from <= to, to <= Len(FileOf(i)), to - from < BSIZE,
         FileOf(i)' = [u \in 1..Len(FileOf(i)) |->
                         IF u \in from..to THEN Written(p) ELSE FileOf(i)[u]],
         \A j \in Inums \ {i} : FileOf(j)' = FileOf(j)
  PROVE  Store!Next
<1>1. PICK g, old :
        /\ g = [j \in Inums |-> FileOf(j)] /\ old = FileOf(i) /\ old = g[i]
        /\ g = [j \in Inums |-> IF j \in Linked THEN Contents(dinode[j])
                                ELSE <<>>]
  BY DEF FileOf
<1>2. PICK h : h = [j \in Inums |-> IF j \in Linked THEN Contents(dinode[j])
                                  ELSE <<>>]'
  OBVIOUS
<1>3. /\ h = [j \in Inums |-> h[j]]
      /\ h[i] = [u \in 1..Len(old) |->
                   IF u \in from..to THEN Written(p) ELSE old[u]]
      /\ \A j \in Inums \ {i} : h[j] = g[j]
  BY <1>1, <1>2 DEF FileOf
<1>4. h = [g EXCEPT ![i] = [u \in 1..Len(g[i]) |->
             IF u \in from..to THEN Written(p) ELSE g[i][u]]]
  BY <1>1, <1>3
<1>5. 1 <= from /\ from <= to /\ to <= Len(g[i]) /\ to - from < BSIZE
  BY <1>1
<1>6. Store!Overwrite(i, from, to, Written(p))
  BY <1>1, <1>2, <1>4, <1>5 DEF Store!Overwrite
<1> QED BY <1>6 DEF Store!Next, Limit

\* What a step of writei() does to a unit of the file.
LEMMA WriteUnit ==
  ASSUME Assumptions, Inv, NEW p \in Procs, WriteBlock(p),
         NEW u \in 0..Limit - 1, NEW b \in Numbers,
         Has(k[p].ip, u \div BSIZE, b)
  PROVE  LET s == k[p].off + k[p].tot IN
         blk'[b][u % BSIZE] =
           IF u \in s..s + m(p) - 1 THEN Written(p) ELSE blk[b][u % BSIZE]
<1>1. PICK i \in Inums : i = k[p].ip
  BY InCallOnly DEF InCall, Inv
<1>2. PICK s, w, r, x, a :
        /\ s = k[p].off + k[p].tot /\ w = m(p) /\ r = From(p) /\ x = bn(p)
        /\ a = Addr(p)
  OBVIOUS
<1>3. k[p].tot < k[p].n /\ k[p] \in Call
  BY Holder DEF WriteBlock, More, At, Inv
<1>4. /\ s \in Nat /\ w \in Nat \ {0} /\ r \in 0..BSIZE - 1 /\ r + w <= BSIZE
  BY <1>2, <1>3, Parts DEF Call, Inv, Typed
<1>5. Has(i, x, a) /\ x \in Slots /\ a \in Numbers /\ a \in Units /\ x \in Nat
  <2>1. Has(i, x, a) /\ x \in Slots /\ x \in Nat
    BY <1>1, <1>2, WriteBlockBlocks, Bounds DEF Inv, Slots
  <2> QED BY <2>1, HasType DEF Inv, BlocksOK
<1>6. u \in Nat /\ u \div BSIZE \in Slots /\ u % BSIZE \in 0..BSIZE - 1
      /\ u \div BSIZE \in Nat /\ u = BSIZE * (u \div BSIZE) + (u % BSIZE)
  <2>1. u \in Nat /\ u < Limit
    BY Bounds
  <2> QED BY <2>1, BlockNumber, Bounds DEF Slots
<1>7. blk' = [blk EXCEPT ![a] = [y \in DOMAIN blk[a] |->
                IF y \in r..r + w - 1 THEN Written(p) ELSE blk[a][y]]]
  BY <1>2 DEF WriteBlock
<1>8. u % BSIZE \in DOMAIN blk[b]
  BY <1>6, Places DEF Inv
<1>9. CASE u \in s..s + w - 1
  <2>1. PICK d \in 0..w - 1 : u = s + d
    <3>1. u - s \in 0..w - 1 /\ u = s + (u - s)
      BY <1>4, <1>6, <1>9
    <3> QED BY <3>1
  <2>2. u \div BSIZE = x /\ u % BSIZE \in r..r + w - 1
    BY <1>2, <1>3, <2>1, Within DEF Inv
  <2>3. b = a
    BY <1>1, <1>5, <2>2 DEF Has
  <2>4. blk'[a] = [y \in DOMAIN blk[a] |->
                IF y \in r..r + w - 1 THEN Written(p) ELSE blk[a][y]]
    BY <1>5, <1>7 DEF Inv, Typed, TypedDisk
  <2>5. blk'[b][u % BSIZE] = Written(p)
    BY <1>8, <2>2, <2>3, <2>4
  <2> QED BY <1>2, <1>9, <2>5
<1>10. CASE u \notin s..s + w - 1
  <2>1. CASE b # a
    <3>1. blk'[b] = blk[b]
      BY <1>7, <2>1 DEF Inv, Typed, TypedDisk
    <3> QED BY <1>2, <1>10, <3>1
  <2>2. CASE b = a
    <3>1. u \div BSIZE = x
      <4>1. OwnOK
        BY DEF Inv, BlocksOK
      <4> QED BY <1>1, <1>5, <1>6, <2>2, <4>1 DEF OwnOK
    <3>2. u % BSIZE \notin r..r + w - 1
      <4> SUFFICES ASSUME u % BSIZE \in r..r + w - 1
                   PROVE  FALSE
        OBVIOUS
      <4>1. s = BSIZE * x + r
        BY <1>2, <1>4, BlockNumber DEF bn, From
      <4>2. PICK z \in Nat : z = BSIZE * x
        BY <1>5, Bounds
      <4>3. PICK y \in Nat : y = u % BSIZE
        BY <1>4, <1>6, Bounds
      <4>4. u = z + y /\ s = z + r /\ y >= r /\ y <= r + w - 1
        BY <1>4, <1>6, <3>1, <4>1, <4>2, <4>3
      <4> QED BY <1>4, <1>10, <4>4
    <3>3. blk'[a] = [y \in DOMAIN blk[a] |->
                IF y \in r..r + w - 1 THEN Written(p) ELSE blk[a][y]]
      BY <1>5, <1>7 DEF Inv, Typed, TypedDisk
    <3>4. blk'[b][u % BSIZE] = blk[b][u % BSIZE]
      BY <1>8, <2>2, <3>2, <3>3
    <3> QED BY <1>2, <1>10, <3>4
  <2> QED BY <2>1, <2>2
<1> QED BY <1>9, <1>10

-----------------------------------------------------------------------------
(* Every step is a step of FileStore, or none.                             *)

\* No step of FileStore where neither inodes nor blocks are written.
LEMMA StoreQuiet ==
  ASSUME UNCHANGED <<dinode, blk>>
  PROVE  UNCHANGED Store!vars
BY SameDisk, StoreSame

\* A step of p that leaves the file it is about as it is.
LEMMA StoreOnly ==
  ASSUME Assumptions, Inv, Inv', NEW p \in Procs, NEW i \in Inums, Only(p, i),
         Frame(i), FileOf(i)' = FileOf(i)
  PROVE  UNCHANGED Store!vars
<1>1. \A j \in Inums : FileOf(j)' = FileOf(j)
  BY OtherFiles
<1> QED BY <1>1, StoreSame

\* create() makes an empty file.
LEMMA StoreCreate ==
  ASSUME Assumptions, Inv, Inv', NEW p \in Procs, NEW i \in Inums,
         Create(p, i)
  PROVE  UNCHANGED Store!vars
<1>1. Only(p, i) /\ Frame(i)
  <2>1. blk' = blk
    BY DEF Create
  <2> QED BY <2>1, CreateOnly, FrameQuiet DEF Inv
<1>2. i \notin Linked
  BY DEF Create, Linked
<1>3. i \notin Linked'
  <2>1. dinode'[i].nlink = 0
    BY DEF Create, FreeInode, Inv, Typed, TypedInodes
  <2> QED BY <2>1 DEF Linked
<1>4. FileOf(i)' = FileOf(i)
  BY <1>2, <1>3 DEF FileOf
<1> QED BY <1>1, <1>4, StoreOnly

\* A link to an empty file.
LEMMA StoreCreateLinked ==
  ASSUME Assumptions, Inv, Inv', NEW p \in Procs, CreateLinked(p)
  PROVE  UNCHANGED Store!vars
<1>1. PICK i \in Inums : i = k[p].ip /\ Only(p, i)
  BY InCallOnly DEF InCall, Inv
<1>2. Frame(i)
  <2>1. blk' = blk
    BY DEF CreateLinked
  <2> QED BY <2>1, FrameQuiet
<1>3. inode[i] = Empty
  BY <1>1, Holder DEF CreateLinked, At, CallOK, Inv
<1>4. FileOf(i) = <<>>
  <2>1. dinode[i].nlink = 0
    BY <1>3 DEF Inv, CallsOK, InodeOK, Empty, FreeInode
  <2> QED BY <2>1 DEF FileOf, Linked
<1>5. FileOf(i)' = <<>>
  <2>1. dinode'[i].size = 0
    BY <1>1, <1>3 DEF CreateLinked, Empty, FreeInode, Inv, Typed, TypedInodes
  <2>2. 1..0 = {}
    OBVIOUS
  <2>3. Contents(dinode[i])' = <<>>
    BY <2>1, <2>2 DEF Contents
  <2> QED BY <2>3 DEF FileOf
<1> QED BY <1>1, <1>2, <1>4, <1>5, StoreOnly

\* itrunc() works on files that are not there any more.
LEMMA StoreTrunc ==
  ASSUME Assumptions, Inv, Inv', NEW p \in Procs,
         Zero(p) \/ Emptied(p) \/ Freed(p)
  PROVE  UNCHANGED Store!vars
<1>1. PICK i \in Inums : i = k[p].ip /\ Only(p, i)
  BY InCallOnly DEF InCall, Inv
<1>2. Frame(i)
  <2>1. CASE Zero(p)
    BY <1>1, <2>1, ZeroBlocks DEF Inv
  <2>2. CASE Emptied(p) \/ Freed(p)
    <3>1. blk' = blk
      BY <2>2 DEF Emptied, Freed
    <3> QED BY <3>1, FrameQuiet
  <2> QED BY <2>1, <2>2
<1>3. dinode[i].nlink = 0
  <2>1. Freeing(k[p])
    BY DEF Zero, Emptied, Freed, At, Freeing
  <2> QED BY <1>1, <2>1, Holder DEF CallOK, Inv, CallsOK, InodeOK
<1>4. dinode'[i].nlink = 0
  <2>1. CASE Zero(p)
    BY <1>3, <2>1 DEF Zero
  <2>2. CASE Emptied(p)
    BY <1>1, <2>2 DEF Emptied, FreeInode, Inv, Typed, TypedInodes
  <2>3. CASE Freed(p)
    BY <1>1, <2>3 DEF Freed, FreeInode, Inv, Typed, TypedInodes
  <2> QED BY <2>1, <2>2, <2>3
<1>5. FileOf(i)' = FileOf(i)
  BY <1>3, <1>4 DEF FileOf, Linked
<1> QED BY <1>1, <1>2, <1>5, StoreOnly

\* unlink() is the step that loses a file.
LEMMA StoreUnlink ==
  ASSUME Assumptions, Inv, Inv', NEW p \in Procs, NEW i \in Inums,
         Unlink(p, i)
  PROVE  Store!Next
<1>1. Only(p, i) /\ Frame(i)
  <2>1. blk' = blk
    BY DEF Unlink
  <2> QED BY <2>1, CreateOnly, FrameQuiet DEF Inv
<1>2. dinode'[i].nlink = 0
  BY DEF Unlink, Inv, Typed, TypedInodes, Inode
<1>3. FileOf(i)' = <<>>
  BY <1>2 DEF FileOf, Linked
<1>4. \A j \in Inums \ {i} : FileOf(j)' = FileOf(j)
  BY <1>1, OtherFiles
<1> QED BY <1>3, <1>4, StoreRemove

\* A block more for a file is not seen before its size is.
LEMMA StoreTable ==
  ASSUME Assumptions, Inv, Inv', NEW p \in Procs, BmapTableWrite(p)
  PROVE  UNCHANGED Store!vars
<1>1. PICK i \in Inums : i = k[p].ip /\ Only(p, i)
  BY InCallOnly DEF InCall, Inv
<1>2. Grown(i) /\ Unwritten(i) /\ Frame(i)
  BY <1>1, TableUnwritten DEF Inv
<1>3. dinode' = dinode
  BY DEF BmapTableWrite
<1>4. FileOf(i)' = FileOf(i)
  BY <1>2, <1>3, FileKept DEF Linked
<1> QED BY <1>1, <1>2, <1>4, StoreOnly

\* writei() on its way: what is beyond the size on the disk is not seen.
LEMMA StoreWriteBlock ==
  ASSUME Assumptions, Inv, Inv', NEW p \in Procs, WriteBlock(p)
  PROVE  Store!Next \/ UNCHANGED Store!vars
<1>1. PICK i \in Inums : i = k[p].ip /\ Only(p, i)
  BY InCallOnly DEF InCall, Inv
<1>2. Frame(i) /\ HasSame /\ dinode' = dinode /\ inode' = inode
  BY <1>1, WriteBlockBlocks DEF WriteBlock, Inv
<1>3. \A j \in Inums \ {i} : FileOf(j)' = FileOf(j)
  BY <1>1, <1>2, OtherFiles
<1>4. CASE i \notin Linked
  <2>1. FileOf(i)' = FileOf(i)
    BY <1>2, <1>4 DEF FileOf, Linked
  <2> QED BY <1>1, <1>2, <2>1, StoreOnly
<1>5. CASE i \in Linked
  <2>1. PICK s, w, z, F :
          /\ s = k[p].off + k[p].tot /\ w = m(p) /\ z = dinode[i].size
          /\ F = FileOf(i)
    OBVIOUS
  <2>2. s \in Nat /\ w \in Nat \ {0} /\ w <= BSIZE
    <3>1. k[p].tot < k[p].n /\ k[p] \in Call
      BY Holder DEF WriteBlock, More, At, Inv
    <3>2. s \in Nat
      BY <2>1, <3>1 DEF Call
    <3>3. w \in Nat \ {0} /\ From(p) \in 0..BSIZE - 1 /\ From(p) + w <= BSIZE
      BY <2>1, <3>1, Parts DEF Inv, Typed
    <3> QED BY <3>2, <3>3, Bounds
  <2>3. /\ z \in Nat /\ z <= Limit /\ F \in Seq(Units) /\ Len(F) = z
        /\ \A u \in 1..z :
             F[u] = blk[BlockOf(dinode[i], u - 1)][(u - 1) % BSIZE]
    <3>1. /\ F \in Seq(Units) /\ Len(F) = z /\ z \in 0..Limit
          /\ \A u \in 1..z :
               F[u] = blk[BlockOf(dinode[i], u - 1)][(u - 1) % BSIZE]
      BY <1>5, <2>1, FileType
    <3> QED BY <3>1, Bounds
  <2>4. ASSUME NEW u \in 1..z
        PROVE  blk'[BlockOf(dinode[i], u - 1)'][(u - 1) % BSIZE]
                 = IF u \in s + 1..s + w THEN Written(p) ELSE F[u]
    <3>1. PICK x : x = u - 1
      OBVIOUS
    <3>2. x \in 0..dinode[i].size - 1 /\ x \in 0..Limit - 1 /\ x \in Nat
      BY <2>1, <2>3, <3>1, Bounds
    <3>3. PICK b : b = BlockOf(dinode[i], x)
      OBVIOUS
    <3>4. b \in Numbers /\ Has(i, x \div BSIZE, b) /\ x \div BSIZE \in Slots
      BY <1>5, <3>2, <3>3, FileUnit
    <3>5. BlockOf(dinode[i], x)' = b
      <4>1. b # Null
        BY <3>4 DEF Has
      <4>2. Grown(i)
        BY <1>2 DEF Grown, HasSame
      <4>3. Kept(i) /\ ~Truncated(i)
        BY <1>5, LinkedKept
      <4> QED
        BY <1>2, <3>3, <3>4, <4>1, <4>2, <4>3, DiskSlotKept
        DEF BlockOf, Inv, CallsOK
    <3>6. blk'[b][x % BSIZE]
            = IF x \in s..s + w - 1 THEN Written(p) ELSE blk[b][x % BSIZE]
      BY <1>1, <2>1, <3>2, <3>4, WriteUnit
    <3>7. x \in s..s + w - 1 <=> u \in s + 1..s + w
      BY <2>2, <2>3, <3>1, <3>2
    <3> QED BY <2>3, <3>1, <3>3, <3>5, <3>6, <3>7
  <2>5. FileOf(i)' = [u \in 1..z |->
                        IF u \in s + 1..s + w THEN Written(p) ELSE F[u]]
    <3>1. i \in Linked' /\ dinode'[i].size = z
      BY <1>2, <1>5, <2>1 DEF Linked
    <3>2. FileOf(i)' = [u \in 1..z |->
                  blk'[BlockOf(dinode[i], u - 1)'][(u - 1) % BSIZE]]
      BY <3>1 DEF FileOf, Contents
    <3> QED BY <2>4, <3>2
  <2>6. CASE s < z
    <3>1. PICK to \in Nat : to = IF s + w < z THEN s + w ELSE z
      BY <2>2, <2>3
    <3>2. PICK from \in Nat : from = s + 1
      BY <2>2
    <3>3. /\ from \in 1..Limit /\ to \in 1..Limit /\ from <= to /\ to <= z
          /\ to - from < BSIZE
      BY <2>2, <2>3, <2>6, <3>1, <3>2, Bounds
    <3>4. \A u \in 1..z : u \in s + 1..s + w <=> u \in from..to
      BY <2>2, <2>3, <3>1, <3>2
    <3>5. FileOf(i)' = [u \in 1..Len(FileOf(i)) |->
                          IF u \in from..to THEN Written(p) ELSE FileOf(i)[u]]
      BY <2>1, <2>3, <2>5, <3>4
    <3> QED BY <1>3, <2>1, <2>3, <3>3, <3>5, StoreOverwrite
  <2>7. CASE ~(s < z)
    <3>1. \A u \in 1..z : u \notin s + 1..s + w
      BY <2>2, <2>3, <2>7
    <3>2. FileOf(i)' = F
      BY <2>3, <2>5, <3>1
    <3> QED BY <1>1, <1>2, <2>1, <3>2, StoreOnly
  <2> QED BY <2>6, <2>7
<1> QED BY <1>4, <1>5

\* The end of a write(): what is new in the file appears at once.
LEMMA StoreWriteDone ==
  ASSUME Assumptions, Inv, Inv', HasSame, NEW p \in Procs, WriteDone(p)
  PROVE  Store!Next \/ UNCHANGED Store!vars
<1>1. PICK i \in Inums : i = k[p].ip /\ Only(p, i)
  BY InCallOnly DEF InCall, Inv
<1>2. blk' = blk /\ Frame(i) /\ Grown(i)
  BY FrameQuiet DEF WriteDone, HasSame, Grown
<1>3. \A j \in Inums \ {i} : FileOf(j)' = FileOf(j)
  BY <1>1, <1>2, OtherFiles
<1>4. PICK e, z : e = k[p].off + k[p].n /\ z = inode[i].size
  OBVIOUS
<1>5. CASE ~(k[p].n > 0 /\ e > z)
  <2>1. dinode' = dinode
    BY <1>1, <1>4, <1>5 DEF WriteDone
  <2> QED BY <1>2, <2>1, StoreQuiet
<1>6. CASE k[p].n > 0 /\ e > z
  <2>1. /\ inode'[i] = [inode[i] EXCEPT !.size = e] /\ dinode'[i] = inode'[i]
    BY <1>1, <1>4, <1>6 DEF WriteDone, Inv, Typed, TypedInodes
  <2>2. /\ dinode'[i].size = e /\ dinode'[i].nlink = inode[i].nlink
        /\ dinode'[i].used = inode[i].used
    BY <2>1 DEF Inv, Typed, TypedInodes, Inode
  <2>3. i \in Linked' <=> i \in Linked
    BY <2>2 DEF Linked, Inv, CallsOK, InodeOK
  <2>4. CASE i \notin Linked
    <3>1. FileOf(i)' = FileOf(i)
      BY <2>3, <2>4 DEF FileOf
    <3> QED BY <1>1, <1>2, <3>1, StoreOnly
  <2>5. CASE i \in Linked
    <3>1. /\ k[p].pc = "write" /\ k[p].tot = k[p].n /\ k[p].off \in Nat
          /\ k[p].n \in Nat /\ k[p].off <= z /\ e \in Nat /\ e <= Limit
      <4>1. k[p].pc = "write" /\ k[p].tot = k[p].n /\ k[p] \in Call
            /\ CallOK(p) /\ k[p].off + k[p].n <= Limit
        BY Holder DEF WriteDone, At, Inv, Typed, TypedCalls
      <4> QED BY <1>1, <1>4, <4>1 DEF Call, CallOK, OnFile
    <3>2. PICK F : F = FileOf(i)
      OBVIOUS
    <3>3. /\ z \in Nat /\ z <= Limit /\ F \in Seq(Units) /\ Len(F) = z
          /\ z = dinode[i].size
          /\ \A u \in 1..z :
               F[u] = blk[BlockOf(dinode[i], u - 1)][(u - 1) % BSIZE]
      <4>1. z = dinode[i].size
        BY <1>4 DEF Inv, CallsOK, InodeOK
      <4>2. /\ F \in Seq(Units) /\ Len(F) = z /\ z \in 0..Limit
            /\ \A u \in 1..z :
                 F[u] = blk[BlockOf(dinode[i], u - 1)][(u - 1) % BSIZE]
        BY <2>5, <3>2, <4>1, FileType
      <4> QED BY <4>1, <4>2, Bounds
    <3>4. ASSUME NEW u \in 1..e
          PROVE  blk'[BlockOf(dinode[i], u - 1)'][(u - 1) % BSIZE]
                   = IF u <= z THEN F[u] ELSE Written(p)
      <4>1. PICK x : x = u - 1
        OBVIOUS
      <4>2. x \in Nat /\ x < Limit /\ x < e
        BY <3>1, <4>1, Bounds
      <4>3. x \div BSIZE \in Slots
        BY <4>2, BlockNumber, Bounds DEF Slots
      <4>4. CASE u <= z
        <5>1. x \in 0..dinode[i].size - 1
          BY <3>3, <4>1, <4>4
        <5>2. PICK b : b = BlockOf(dinode[i], x)
          OBVIOUS
        <5>3. b # Null
          BY <2>5, <5>1, <5>2, FileUnit DEF Has
        <5>4. Kept(i) /\ ~Truncated(i)
          BY <2>5, LinkedKept
        <5>5. BlockOf(dinode[i], x)' = b
          BY <1>2, <2>1, <4>3, <5>2, <5>3, <5>4, DiskSlotKept
          DEF BlockOf, Inv, CallsOK
        <5> QED BY <1>2, <3>3, <4>1, <4>4, <5>2, <5>5
      <4>5. CASE ~(u <= z)
        <5>1. x \in k[p].off..k[p].off + k[p].tot - 1
          BY <1>4, <3>1, <3>3, <4>1, <4>2, <4>5
        <5>2. HasUnit(i, x, Written(p))
          BY <1>1, <3>1, <5>1 DEF Inv, DataOK, Filled, Writes
        <5>3. PICK b \in Numbers :
                 Has(i, x \div BSIZE, b) /\ blk[b][x % BSIZE] = Written(p)
          BY <5>2 DEF HasUnit
        <5>4. Has(i, x \div BSIZE, b)'
          BY <1>2, <4>3, <5>3 DEF Grown, Units, Pointers
        <5>5. Slot(inode[i], x \div BSIZE)' = b
          BY <5>4 DEF Has
        <5>6. BlockOf(dinode[i], x)' = b
          BY <2>1, <5>5 DEF BlockOf, Slot, InTable
        <5> QED BY <1>2, <4>1, <4>5, <5>3, <5>6
      <4> QED BY <4>4, <4>5
    <3>5. PICK n \in 1..Limit : n = e - z
      BY <1>6, <3>1, <3>3, Bounds
    <3>6. FileOf(i)' = [u \in 1..e |-> IF u <= z THEN F[u] ELSE Written(p)]
      <4>1. FileOf(i)' = [u \in 1..e |->
                    blk'[BlockOf(dinode[i], u - 1)'][(u - 1) % BSIZE]]
        BY <2>2, <2>3, <2>5 DEF FileOf, Contents
      <4> QED BY <3>4, <4>1
    <3>7. PICK G : G = [u \in 1..n |-> Written(p)]
      OBVIOUS
    <3>8. G \in Seq(Units) /\ Len(G) = n /\ \A u \in 1..n : G[u] = Written(p)
      <4>1. Written(p) \in Units
        BY DEF Units
      <4> QED BY <3>5, <3>7, <4>1, Bounds
    <3>9. /\ F \o G \in Seq(Units) /\ Len(F \o G) = e
          /\ \A u \in 1..e : (F \o G)[u] = IF u <= z THEN F[u] ELSE Written(p)
      <4>1. /\ F \o G \in Seq(Units) /\ Len(F \o G) = Len(F) + Len(G)
            /\ \A u \in 1..Len(F) + Len(G) :
                 (F \o G)[u] = IF u <= Len(F) THEN F[u] ELSE G[u - Len(F)]
        BY <3>3, <3>8, ConcatProperties
      <4>2. Len(F) + Len(G) = e
        BY <3>1, <3>3, <3>5, <3>8
      <4>3. ASSUME NEW u \in 1..e, ~(u <= z)
            PROVE  u - z \in 1..n
        BY <3>1, <3>3, <3>5, <4>3
      <4> QED BY <3>3, <3>8, <4>1, <4>2, <4>3
    <3>10. FileOf(i)' = F \o G
      <4>1. PICK H : H = F \o G
        OBVIOUS
      <4>2. H \in [1..e -> Units]
        <5>1. H \in Seq(Units) /\ Len(H) = e
          BY <3>9, <4>1
        <5> QED BY <5>1, LenProperties
      <4>3. FileOf(i)' = H
        BY <3>6, <3>9, <4>1, <4>2
      <4> QED BY <4>1, <4>3
    <3>11. Len(FileOf(i)) + n <= Limit
      BY <3>1, <3>2, <3>3, <3>5
    <3> QED BY <1>3, <3>2, <3>5, <3>7, <3>10, <3>11, StoreExtend
  <2> QED BY <2>4, <2>5
<1> QED BY <1>5, <1>6

\* The steps of a process.
LEMMA StoreStep ==
  ASSUME Assumptions, Inv, Inv', NEW p \in Procs, Step(p)
  PROVE  Store!Next \/ UNCHANGED Store!vars
<1>1. CASE \E i \in Inums : Create(p, i)
  BY <1>1, StoreCreate
<1>2. CASE \E i \in Inums : Unlink(p, i)
  BY <1>2, StoreUnlink
<1>3. CASE CreateLinked(p)
  BY <1>3, StoreCreateLinked
<1>4. CASE BmapTableWrite(p)
  BY <1>4, StoreTable
<1>5. CASE WriteBlock(p)
  BY <1>5, StoreWriteBlock
<1>6. CASE WriteDone(p)
  <2>1. HasSame
    BY <1>6, QuietInv DEF Quiet, Inv
  <2> QED BY <1>6, <2>1, StoreWriteDone
<1>7. CASE Zero(p) \/ Emptied(p) \/ Freed(p)
  BY <1>7, StoreTrunc
<1>8. CASE \/ \E f \in Files :
                Close(p, f) \/ \E n \in Sizes : Write(p, f, n) \/ Read(p, f, n)
           \/ UnlinkPut(p) \/ BmapInode(p) \/ BmapTable(p) \/ OutOfBlocks(p)
           \/ ReadBlock(p) \/ ReadDone(p) \/ Clear(p)
  <2>1. UNCHANGED <<dinode, blk>>
    BY <1>8 DEF Close, Write, Read, UnlinkPut, BmapInode, BmapTable,
      OutOfBlocks, ReadBlock, ReadDone, Clear, Panic, Goes, diskVars
  <2> QED BY <2>1, StoreQuiet
<1> QED
  BY <1>1, <1>2, <1>3, <1>4, <1>5, <1>6, <1>7, <1>8 DEF Step

\* Every step.
LEMMA StoreNext ==
  ASSUME Assumptions, Inv, Inv', [Next]_vars
  PROVE  [Store!Next]_(Store!vars)
<1>1. CASE \/ Crash \/ UNCHANGED vars
           \/ \E f \in Files, i \in Inums : Open(f, i)
  <2>1. UNCHANGED <<dinode, blk>>
    BY <1>1 DEF Crash, Open, vars, diskVars
  <2> QED BY <2>1, StoreQuiet
<1>2. CASE \E p \in Procs : Step(p)
  BY <1>2, StoreStep
<1> QED BY <1>1, <1>2 DEF Next

\* There is no file in the initial state.
LEMMA StoreInit ==
  ASSUME Init
  PROVE  Store!Init
<1>1. Linked = {}
  BY DEF Init, Linked, FreeInode
<1> QED BY <1>1 DEF Store!Init

(* A file on the disk is a sequence of data that a write changes where it  *)
(* is about and nowhere else, that grows all at once, and that only        *)
(* unlink() removes: every step of the file system, and every power        *)
(* failure between two of them, is a step of FileStore or leaves all files *)
(* alone.  (bmap, writei, iupdate, itrunc: data before size, and no block  *)
(* zeroed while there is a link)                                           *)
THEOREM StoreImplemented == Spec => ImplementsStore
<1> Assumptions
  BY BlocksAssumption DEF Assumptions
<1>1. Init => Store!Init
  BY StoreInit
<1>2. Inv /\ Inv' /\ [Next]_vars => [Store!Next]_(Store!vars)
  BY StoreNext
<1> QED BY <1>1, <1>2, Invariance, PTL DEF Spec, ImplementsStore, Store!Spec

=============================================================================
