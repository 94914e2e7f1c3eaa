------------------------------ MODULE Blocks ------------------------------
(***************************************************************************)
(* Files in blocks: balloc(), bfree(), bmap(), itrunc(), readi(), writei() *)
(* and iupdate() of kernel/fs.c, as fileread(), filewrite(), create(),     *)
(* unlink() and the last close() use them.                                 *)
(*                                                                         *)
(* A step ends with a write to the disk or, in readi(), with a block read. *)
(* A call works on an inode that it has locked; the bitmap is protected by *)
(* its buffer, so that balloc() is one step.  The power may fail between   *)
(* any two steps: what is in memory is lost, what was written stays.       *)
(* Contents count in units; a block has BSIZE of them, or NINDIRECT block  *)
(* numbers.  A bitmap block has more bits than the disk has blocks, unless *)
(* its size is a multiple of theirs: balloc() looks at all of them.        *)
(***************************************************************************)
EXTENDS Integers, Sequences, FiniteSets

CONSTANTS
  Procs,
  Inums, Files,    \* inodes; open files of the system (struct file)
  NBLOCKS, NBITS,  \* data blocks on the disk; bits there are for them
  BSIZE, NDIRECT, NINDIRECT,
  Sizes,           \* lengths of the reads and writes that are made
  Written(_),      \* what a process writes
  MAXCALLS,        \* bound: calls
  MAXCRASH         \* bound: power failures

SizeAssumption ==
  /\ {NBLOCKS, BSIZE, NDIRECT, NINDIRECT} \subseteq Nat \ {0}
  /\ NBITS \in Nat /\ NBITS >= NBLOCKS
  /\ Sizes \subseteq Nat
DataAssumption == \A p \in Procs : Written(p) \notin 0..NBITS
NameAssumption == 0 \notin Procs \cup Inums \cup Files  \* see Null
ASSUME BlocksAssumption == SizeAssumption /\ DataAssumption /\ NameAssumption

Null == 0
Numbers == 1..NBITS
MAXFILE == NDIRECT + NINDIRECT
Zeros == [u \in 0..(IF BSIZE > NINDIRECT THEN BSIZE ELSE NINDIRECT) - 1 |-> 0]

VARIABLES
  blk,       \* contents of the data blocks
  bitmap,    \* blocks marked as used
  dinode,    \* the inodes on disk
  inode,     \* the inodes in memory
  lock,      \* the holder of I_BUSY, or Null
  file,      \* open files: inode and offset
  k,         \* the calls on their way
  panicked, calls, crashes

diskVars == <<blk, bitmap, dinode>>
vars == <<diskVars, inode, lock, file, k, panicked, calls, crashes>>

-----------------------------------------------------------------------------
FreeInode == [used |-> FALSE, nlink |-> 0, size |-> 0,
              addrs |-> [n \in 0..NDIRECT |-> Null]]
Closed == [ip |-> Null, off |-> 0]
User == [pc |-> "user", f |-> Null, ip |-> Null, off |-> 0, n |-> 0, tot |-> 0,
         new |-> Null, at |-> 0, got |-> <<>>]

Init ==
  /\ blk = [b \in Numbers |-> Zeros] /\ bitmap = {}
  /\ dinode = [i \in Inums |-> FreeInode] /\ inode = dinode
  /\ lock = [i \in Inums |-> Null]
  /\ file = [f \in Files |-> Closed]
  /\ k = [p \in Procs |-> User]
  /\ panicked = "no" /\ calls = 0 /\ crashes = 0

At(p, l) == k[p].pc = l /\ panicked = "no"
Become(p, f) == k' = [k EXCEPT ![p] = f]
Panic(message) ==
  /\ panicked' = message
  /\ UNCHANGED <<diskVars, inode, lock, file, k, calls, crashes>>

\* A call begins, with inode i locked or, if no other is, with none.
Begin(p, i, f) ==
  /\ At(p, "user") /\ calls < MAXCALLS /\ calls' = calls + 1
  /\ lock[i] = Null /\ lock' = [lock EXCEPT ![i] = p]
  /\ Become(p, f)
  /\ UNCHANGED <<panicked, crashes>>
Goes == UNCHANGED <<panicked, calls, crashes>>
Unlock(p) == lock' = [lock EXCEPT ![k[p].ip] = Null] /\ Become(p, User)

\* iput() has the last reference when i is in no open file and nobody else's.
LastRef(p, i, open) ==
  /\ \A f \in Files : open[f].ip # i
  /\ \A q \in Procs \ {p} : k[q].ip # i

-----------------------------------------------------------------------------
(* Making, opening and unlinking files, as far as inodes are concerned.    *)

\* create(): ialloc() writes a zeroed inode, ...
Create(p, i) ==
  /\ ~dinode[i].used
  /\ Begin(p, i, [User EXCEPT !.pc = "create", !.ip = i])
  /\ dinode' = [dinode EXCEPT ![i] = [FreeInode EXCEPT !.used = TRUE]]
  /\ inode' = [inode EXCEPT ![i] = [FreeInode EXCEPT !.used = TRUE]]
  /\ UNCHANGED <<blk, bitmap, file>>

\* ... the rest is written with a link count of 1 and entered somewhere.
CreateLinked(p) ==
  LET i == k[p].ip IN
  /\ At(p, "create")
  /\ inode' = [inode EXCEPT ![i].nlink = 1]
  /\ dinode' = [dinode EXCEPT ![i] = inode'[i]]
  /\ Unlock(p) /\ Goes /\ UNCHANGED <<blk, bitmap, file>>

\* ilock() has read the inode from the disk.
Open(f, i) ==
  /\ file[f].ip = Null /\ lock[i] = Null /\ dinode[i].nlink > 0
  /\ panicked = "no"
  /\ file' = [file EXCEPT ![f] = [ip |-> i, off |-> 0]]
  /\ UNCHANGED <<diskVars, inode, lock, k, panicked, calls, crashes>>

\* itrunc() is about to begin, at the first block.
Trunc(i) == [User EXCEPT !.pc = "bfree", !.ip = i]

\* The last close() of a file: iput() truncates an inode without links.
Close(p, f) ==
  LET i == file[f].ip IN
  /\ i # Null /\ \A q \in Procs : k[q].f # f
  /\ file' = [file EXCEPT ![f] = Closed]
  /\ UNCHANGED <<diskVars, inode>>
  /\ IF inode[i].nlink = 0 /\ LastRef(p, i, file')
     THEN Begin(p, i, Trunc(i))
     ELSE At(p, "user") /\ Goes /\ UNCHANGED <<lock, k>>

\* Variant: the count is only written when the inode is freed.
Unlink_InMemory(p, i) ==
  /\ inode[i].nlink > 0
  /\ inode' = [inode EXCEPT ![i].nlink = 0]
  /\ Begin(p, i, [User EXCEPT !.pc = "put", !.ip = i])
  /\ UNCHANGED <<diskVars, file>>

\* unlink(): the count goes to the disk; then iput().
Unlink(p, i) ==
  /\ inode[i].nlink > 0
  /\ inode' = [inode EXCEPT ![i].nlink = 0]
  /\ dinode' = [dinode EXCEPT ![i] = inode'[i]]
  /\ Begin(p, i, [User EXCEPT !.pc = "put", !.ip = i])
  /\ UNCHANGED <<blk, bitmap, file>>

UnlinkPut(p) ==
  /\ At(p, "put")
  /\ IF LastRef(p, k[p].ip, file)
     THEN Become(p, Trunc(k[p].ip)) /\ UNCHANGED lock
     ELSE Unlock(p)
  /\ Goes /\ UNCHANGED <<diskVars, inode, file>>

-----------------------------------------------------------------------------
(* bmap(): the block of the unit that a call has come to.                  *)

\* The blocks of inode d, in the order in which itrunc() comes to them: the
\* direct ones, those in the table, the table.
InTable(d) ==
  IF d.addrs[NDIRECT] = Null THEN Zeros ELSE blk[d.addrs[NDIRECT]]
Slot(d, n) ==
  IF n < NDIRECT THEN d.addrs[n]
  ELSE IF n < MAXFILE THEN InTable(d)[n - NDIRECT]
  ELSE d.addrs[NDIRECT]
Slots == 0..MAXFILE

bn(p) == (k[p].off + k[p].tot) \div BSIZE
Table(p) == inode[k[p].ip].addrs[NDIRECT]
Addr(p) == Slot(inode[k[p].ip], bn(p))

\* balloc() takes the first block whose bit is clear.
balloc(b) == b \in Numbers \ bitmap /\ \A c \in Numbers \ bitmap : b <= c

More(p, l) == At(p, l) /\ k[p].tot < k[p].n

\* A direct block, or the table of the others.
BmapInode(p) ==
  LET n == IF bn(p) < NDIRECT THEN bn(p) ELSE NDIRECT IN
  /\ More(p, "write") /\ inode[k[p].ip].addrs[n] = Null
  /\ \E b \in Numbers :
       /\ balloc(b)
       /\ bitmap' = bitmap \cup {b}
       /\ inode' = [inode EXCEPT ![k[p].ip].addrs[n] = b]
  /\ Goes /\ UNCHANGED <<blk, dinode, lock, file, k>>

\* Variant: the bitmap is not written.
BmapTable_Unmarked(p) ==
  /\ More(p, "write") /\ bn(p) >= NDIRECT /\ Table(p) # Null /\ Addr(p) = Null
  /\ \E b \in Numbers :
       balloc(b) /\ Become(p, [k[p] EXCEPT !.pc = "table", !.new = b])
  /\ Goes /\ UNCHANGED <<diskVars, inode, lock, file>>

\* A block of the table: first the bitmap, then the table is written.
BmapTable(p) ==
  /\ More(p, "write") /\ bn(p) >= NDIRECT /\ Table(p) # Null /\ Addr(p) = Null
  /\ \E b \in Numbers :
       /\ balloc(b)
       /\ bitmap' = bitmap \cup {b}
       /\ Become(p, [k[p] EXCEPT !.pc = "table", !.new = b])
  /\ Goes /\ UNCHANGED <<blk, dinode, inode, lock, file>>

BmapTableWrite(p) ==
  /\ At(p, "table")
  /\ blk' = [blk EXCEPT ![Table(p)][bn(p) - NDIRECT] = k[p].new]
  /\ Become(p, [k[p] EXCEPT !.pc = "write", !.new = Null])
  /\ Goes /\ UNCHANGED <<bitmap, dinode, inode, lock, file>>

OutOfBlocks(p) ==
  /\ More(p, "write") /\ Addr(p) = Null /\ bitmap = Numbers
  /\ Panic("balloc: out of blocks")

-----------------------------------------------------------------------------
(* filewrite() and fileread().                                             *)

Least(a, b) == IF a < b THEN a ELSE b

\* Units of the current block that the call is about: from, and how many.
From(p) == (k[p].off + k[p].tot) % BSIZE
\* Variant: a block is taken for a whole one.
m_Whole(p) == Least(k[p].n - k[p].tot, BSIZE)
m(p) == Least(k[p].n - k[p].tot, BSIZE - From(p))

Write(p, f, n) ==
  LET off == file[f].off i == file[f].ip IN
  /\ i # Null /\ off <= inode[i].size
  /\ Begin(p, i, [User EXCEPT !.pc = "write", !.f = f, !.ip = i, !.off = off,
                  !.n = Least(n, MAXFILE * BSIZE - off)])
  /\ UNCHANGED <<diskVars, inode, file>>

WriteBlock(p) ==
  /\ More(p, "write") /\ Addr(p) # Null
  /\ blk' = [blk EXCEPT ![Addr(p)] = [u \in DOMAIN @ |->
               IF u \in From(p)..From(p) + m(p) - 1 THEN Written(p) ELSE @[u]]]
  /\ Become(p, [k[p] EXCEPT !.tot = @ + m(p)])
  /\ Goes /\ UNCHANGED <<bitmap, dinode, inode, lock, file>>

\* Variant: the inode is only written if the file has got a new block.
WriteDone_NewBlock(p) ==
  LET i == k[p].ip end == k[p].off + k[p].n IN
  /\ At(p, "write") /\ k[p].tot = k[p].n
  /\ IF k[p].n > 0 /\ end > inode[i].size
     THEN /\ inode' = [inode EXCEPT ![i].size = end]
          /\ dinode' = IF inode[i].addrs = dinode[i].addrs THEN dinode
                       ELSE [dinode EXCEPT ![i] = inode'[i]]
     ELSE UNCHANGED <<inode, dinode>>
  /\ file' = [file EXCEPT ![k[p].f].off = end]
  /\ Unlock(p) /\ Goes /\ UNCHANGED <<blk, bitmap>>

\* The new size and the new blocks go to the disk, and the offset moves on.
WriteDone(p) ==
  LET i == k[p].ip end == k[p].off + k[p].n IN
  /\ At(p, "write") /\ k[p].tot = k[p].n
  /\ IF k[p].n > 0 /\ end > inode[i].size
     THEN /\ inode' = [inode EXCEPT ![i].size = end]
          /\ dinode' = [dinode EXCEPT ![i] = inode'[i]]
     ELSE UNCHANGED <<inode, dinode>>
  /\ file' = [file EXCEPT ![k[p].f].off = end]
  /\ Unlock(p) /\ Goes /\ UNCHANGED <<blk, bitmap>>

Read(p, f, n) ==
  LET off == file[f].off i == file[f].ip IN
  /\ i # Null /\ off <= inode[i].size
  /\ Begin(p, i, [User EXCEPT !.pc = "read", !.f = f, !.ip = i, !.off = off,
                  !.n = Least(n, inode[i].size - off)])
  /\ UNCHANGED <<diskVars, inode, file>>

\* Variant: from the beginning of the block.
ReadBlock_Start(p) ==
  /\ More(p, "read")
  /\ Become(p, [k[p] EXCEPT !.tot = @ + m(p),
        !.got = @ \o [u \in 1..m(p) |-> blk[Addr(p)][u - 1]]])
  /\ Goes /\ UNCHANGED <<diskVars, inode, lock, file>>

ReadBlock(p) ==
  /\ More(p, "read")
  /\ Become(p, [k[p] EXCEPT !.tot = @ + m(p),
        !.got = @ \o [u \in 1..m(p) |-> blk[Addr(p)][From(p) + u - 1]]])
  /\ Goes /\ UNCHANGED <<diskVars, inode, lock, file>>

ReadDone(p) ==
  /\ At(p, "read") /\ k[p].tot = k[p].n
  /\ file' = [file EXCEPT ![k[p].f].off = k[p].off + k[p].n]
  /\ Unlock(p) /\ Goes /\ UNCHANGED <<diskVars, inode>>

-----------------------------------------------------------------------------
(* itrunc(): every block is zeroed on the disk and its bit cleared; at the *)
(* end the inode is written, without blocks, and written again, free.      *)

Left(p) == {n \in Slots : n >= k[p].at /\ Slot(inode[k[p].ip], n) # Null}

Zero(p) ==
  /\ At(p, "bfree")
  /\ \E n \in Left(p) :
       /\ \A x \in Left(p) : n <= x
       /\ blk' = [blk EXCEPT ![Slot(inode[k[p].ip], n)] = Zeros]
       /\ Become(p, [k[p] EXCEPT !.pc = "clear", !.at = n])
  /\ Goes /\ UNCHANGED <<bitmap, dinode, inode, lock, file>>

Clear(p) ==
  LET b == Slot(inode[k[p].ip], k[p].at) IN
  /\ At(p, "clear")
  /\ IF b \in bitmap
     THEN /\ bitmap' = bitmap \ {b}
          /\ Become(p, [k[p] EXCEPT !.pc = "bfree", !.at = @ + 1])
          /\ Goes /\ UNCHANGED <<blk, dinode, inode, lock, file>>
     ELSE Panic("freeing free block")

Emptied(p) ==
  LET i == k[p].ip IN
  /\ At(p, "bfree") /\ Left(p) = {}
  /\ inode' = [inode EXCEPT ![i] = [FreeInode EXCEPT !.used = TRUE]]
  /\ dinode' = [dinode EXCEPT ![i] = inode'[i]]
  /\ Become(p, [k[p] EXCEPT !.pc = "free"])
  /\ Goes /\ UNCHANGED <<blk, bitmap, lock, file>>

Freed(p) ==
  LET i == k[p].ip IN
  /\ At(p, "free")
  /\ inode' = [inode EXCEPT ![i] = FreeInode]
  /\ dinode' = [dinode EXCEPT ![i] = FreeInode]
  /\ Unlock(p) /\ Goes /\ UNCHANGED <<blk, bitmap, file>>

\* The power fails; the next boot reads inodes from the disk.
Crash ==
  /\ crashes < MAXCRASH /\ crashes' = crashes + 1
  /\ inode' = dinode /\ lock' = [i \in Inums |-> Null]
  /\ file' = [f \in Files |-> Closed] /\ k' = [p \in Procs |-> User]
  /\ panicked' = "no"
  /\ UNCHANGED <<diskVars, calls>>

-----------------------------------------------------------------------------
Step(p) ==
  \/ \E i \in Inums : Create(p, i) \/ Unlink(p, i)
  \/ CreateLinked(p) \/ UnlinkPut(p)
  \/ \E f \in Files :
       Close(p, f) \/ \E n \in Sizes : Write(p, f, n) \/ Read(p, f, n)
  \/ BmapInode(p) \/ BmapTable(p) \/ BmapTableWrite(p) \/ OutOfBlocks(p)
  \/ WriteBlock(p) \/ WriteDone(p) \/ ReadBlock(p) \/ ReadDone(p)
  \/ Zero(p) \/ Clear(p) \/ Emptied(p) \/ Freed(p)

Next ==
  \/ Crash
  \/ \E f \in Files, i \in Inums : Open(f, i)
  \/ \E p \in Procs : Step(p)

Spec == Init /\ [][Next]_vars

-----------------------------------------------------------------------------
Pointers == {Null} \cup Numbers
Units == Pointers \cup {Written(p) : p \in Procs}
Inode == [used : BOOLEAN, nlink : 0..1, size : 0..MAXFILE * BSIZE,
          addrs : [0..NDIRECT -> Pointers]]

TypeOK ==
  /\ blk \in [Numbers -> [DOMAIN Zeros -> Units]] /\ bitmap \subseteq Numbers
  /\ dinode \in [Inums -> Inode] /\ inode \in [Inums -> Inode]
  /\ lock \in [Inums -> Procs \cup {Null}]
  /\ file \in [Files -> [ip : Inums \cup {Null}, off : 0..MAXFILE * BSIZE]]
  /\ \A p \in Procs : k[p].off + k[p].n <= MAXFILE * BSIZE

\* The blocks of an inode d, and the one that has its unit u.
Owned(d) == {Slot(d, n) : n \in Slots} \ {Null}
BlockOf(d, u) == Slot(d, u \div BSIZE)

Linked == {i \in Inums : dinode[i].used /\ dinode[i].nlink > 0}

(* On the disk, also after a power failure at any time: every block of a   *)
(* linked file is marked in the bitmap, is there once, and is in no other  *)
(* linked file; and there is a block wherever the size says so.            *)
(* (the order of the writes of balloc, bmap, iupdate, itrunc and unlink)   *)
FilesSound ==
  \A i \in Linked :
    /\ Owned(dinode[i]) \subseteq bitmap
    /\ \A j \in Linked \ {i} : Owned(dinode[i]) \cap Owned(dinode[j]) = {}
    /\ \A x, y \in Slots :
         Slot(dinode[i], x) = Slot(dinode[i], y) /\ x # y
           => Slot(dinode[i], x) = Null
    /\ \A u \in 0..dinode[i].size - 1 : BlockOf(dinode[i], u) # Null
BlocksSound == TypeOK /\ FilesSound

(* What a call has done to an inode is on the disk when it unlocks it.     *)
(* (writei calls iupdate only when the file has grown)                     *)
WrittenThrough == \A i \in Inums : lock[i] = Null => inode[i] = dinode[i]

(* As long as the power has not failed, a block is marked because it is in *)
(* some inode, or a call is about to put it there.                         *)
(* (itrunc and bmap)                                                       *)
Accounted ==
  crashes = 0 =>
    bitmap \subseteq (UNION {Owned(inode[i]) : i \in Inums})
                       \cup {k[p].new : p \in Procs}

\* A file as a sequence, and the one that a process works on.
Contents(d) ==
  [u \in 1..d.size |-> blk[BlockOf(d, u - 1)][(u - 1) % BSIZE]]

(* read() returns what is in the file from the offset on, as much of it as *)
(* was asked for or as there is.  (readi, with the inode locked)           *)
ReadsFile ==
  \A p \in Procs : k[p].pc = "read" =>
    k[p].got =
      SubSeq(Contents(inode[k[p].ip]), k[p].off + 1, k[p].off + k[p].tot)

(* Nothing that a write() has returned from is lost with the power, and a  *)
(* read() finds it.  (writei, iupdate and readi)                           *)
Durable == WrittenThrough /\ ReadsFile

(* The kernel stops when the disk is full, and never because a block is    *)
(* freed twice.  (the panics of balloc and bfree)                          *)
PanicsOnlyWhenFull == panicked # "freeing free block"

(* A block is marked just as long as it is somebody's: itrunc(), on an     *)
(* inode as bmap() left it, frees each of its blocks, and once.            *)
(* (balloc, bfree, bmap, itrunc)                                           *)
NoLeak == Accounted /\ PanicsOnlyWhenFull

(* What is on the disk behaves like FileStore: a write changes the data it *)
(* is about and nothing else, power failure or not, whatever happens to    *)
(* other files.                                                            *)
Store == INSTANCE FileStore WITH
  Files <- Inums, Data <- {Written(p) : p \in Procs},
  MAXSIZE <- MAXFILE * BSIZE,
  file <- [i \in Inums |-> IF i \in Linked THEN Contents(dinode[i]) ELSE <<>>]
ImplementsStore == Store!Spec

(* What the comment of balloc() says: "Allocate a disk block."             *)
OnDisk == bitmap \subseteq 1..NBLOCKS

=============================================================================
