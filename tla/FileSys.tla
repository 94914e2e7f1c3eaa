------------------------------ MODULE FileSys ------------------------------
(***************************************************************************)
(* Names, inodes and open files of xv6: the inode cache and the paths of   *)
(* kernel/fs.c, the file table of kernel/file.c and the calls of           *)
(* kernel/sysfile.c that work on them.                                     *)
(*                                                                         *)
(* A step of a call is what it does from taking an inode lock (I_BUSY), or *)
(* from a lock it keeps, up to its next write to the disk, its next drop   *)
(* of a reference, or the lock it has to wait for next.  What it reads in  *)
(* between is protected by the locks it holds.  iput() drops icache.lock   *)
(* to free an inode, so it is several steps.  The power may fail between   *)
(* any two steps; the next boot finds the disk as it is then.              *)
(*                                                                         *)
(* Directories are functions from names to inode numbers; how they and     *)
(* files are stored in blocks is module Blocks.                            *)
(***************************************************************************)
EXTENDS Integers, Sequences, FiniteSets

CONSTANTS
  Procs, First,    \* processes; the one that runs after a boot
  Nobody,          \* the holder of a lock that is free
  NINODES,         \* number of inodes on the disk
  NINODE,          \* number of slots of icache
  NFILE, NOFILE,   \* open files of the system, descriptors of a process
  Names,           \* what a directory may contain besides . and ..
  Requests,        \* the calls made: [op, path, new]; "/" starts at the root
  Starts,          \* disks and directories at first, after how many crashes
  MAXCALLS,        \* bound: calls; one that a power failure ends is no call
  MAXCRASH         \* bound: number of power failures

ASSUME ProcAssumption ==
  IsFiniteSet(Procs) /\ First \in Procs /\ Nobody \notin Procs
ASSUME NumberAssumption ==
  {NINODES, NINODE, NFILE, NOFILE} \subseteq Nat \ {0}
ASSUME NameAssumption ==
  IsFiniteSet(Names) /\ Names \cap {".", "..", "/"} = {}

Inums == 1..NINODES
Null == 0
Root == 1
Pointers == Inums \cup {Null}
Entries == Names \cup {".."}
Elements == Entries \cup {"."}

Types == {"free", "file", "dir", "dev"}
DiskInode == [type : Types, nlink : Nat, ents : [Entries -> Pointers]]
IsPath(s) ==
  s \in Seq(Elements \cup {"/"}) /\ \A n \in 2..Len(s) : s[n] # "/"

ASSUME RequestAssumption ==
  \A r \in Requests :
    /\ r.op \in {"open", "openw", "create", "mkdir", "mknod", "unlink", "link",
                  "chdir", "exec"}
    /\ IsPath(r.path) /\ IsPath(r.new)

\* The directories of disk d, the entries in them that name i, and the
\* subdirectories of i, by name.
DirsOn(d) == {i \in Inums : d[i].type = "dir"}
NamedOn(d, i) == {x \in DirsOn(d) \X Names : d[x[1]].ents[x[2]] = i}
BelowOn(d, i) ==
  {n \in Names : i \in DirsOn(d) /\ d[i].ents[n] \in DirsOn(d)}

\* A disk in order: a tree of directories, and counts that are high enough.
Sound(d) ==
  /\ d[Root].type = "dir" /\ d[Root].ents[".."] = Root
  /\ \A i \in Inums :
       /\ d[i].type = "free" => d[i].nlink = 0
       /\ d[i].nlink >= Cardinality(NamedOn(d, i))
                          + Cardinality(BelowOn(d, i))
                          + (IF i = Root THEN 1 ELSE 0)
  /\ \E depth \in [Inums -> 0..NINODES] :
       \A x \in DirsOn(d) : \A n \in BelowOn(d, x) :
         /\ d[d[x].ents[n]].ents[".."] = x
         /\ depth[d[x].ents[n]] > depth[x]

ASSUME StartAssumption ==
  \A s \in Starts :
    /\ s.disk \in [Inums -> DiskInode] /\ Sound(s.disk)
    /\ s.cwd \in [Procs -> Pointers] /\ s.cwd[First] # Null
    /\ \A p \in Procs : s.cwd[p] # Null => s.cwd[p] \in DirsOn(s.disk)

VARIABLES
  disk,       \* the inodes on disk: type, link count, directory entries
  icache,     \* the inodes in memory: references, lock, I_VALID, type, nlink
  ftable,     \* the open files: references and inode
  live, cwd, ofile,           \* the processes
  k,          \* what each process does in the kernel: local variables, label
  panicked,   \* "no", or the message that the kernel has stopped with
  calls, crashes,
  strayed     \* history: see Strays

procVars == <<live, cwd, ofile>>
vars == <<disk, icache, ftable, procVars, k, panicked, calls, crashes,
          strayed>>

-----------------------------------------------------------------------------
NoEntries == [n \in Entries |-> Null]
FreeInode == [type |-> "free", nlink |-> 0, ents |-> NoEntries]
Uncached ==
  [ref |-> 0, busy |-> Nobody, valid |-> FALSE, type |-> "free", nlink |-> 0]
NoFile == [ref |-> 0, ip |-> Null]

\* A process in user space: no label in the kernel, no pointers.
User == [pc |-> "user", op |-> "none", path |-> <<>>, new |-> <<>>,
         name |-> ".", ip |-> Null, dp |-> Null, src |-> Null,
         drop |-> Null, back |-> "user"]

\* What the kernel has in memory when processes have only directories: after
\* a boot, or at a start of the model.
Idle(directories, d) ==
  [i \in Inums |->
     LET n == Cardinality({p \in Procs : directories[p] = i}) IN
     IF n = 0 \/ i = Root THEN [Uncached EXCEPT !.ref = n]
     ELSE [Uncached EXCEPT !.ref = n, !.valid = TRUE,
                           !.type = d[i].type, !.nlink = d[i].nlink]]
NoFiles == [f \in 1..NFILE |-> NoFile]
NoDescriptors == [p \in Procs |-> [d \in 1..NOFILE |-> Null]]
AllUser == [p \in Procs |-> User]
InitAlone == [p \in Procs |-> IF p = First THEN Root ELSE Null]

Init ==
  \E s \in Starts :
    /\ disk = s.disk /\ cwd = s.cwd /\ icache = Idle(s.cwd, s.disk)
    /\ live = {p \in Procs : s.cwd[p] # Null}
    /\ ftable = NoFiles /\ ofile = NoDescriptors /\ k = AllUser
    /\ panicked = "no" /\ calls = 0 /\ crashes = s.crashes
    /\ strayed = FALSE

\* Process p is at label l of the kernel, and the kernel has not stopped.
At(p, l) == p \in live /\ k[p].pc = l /\ panicked = "no"

\* panic(); Stop if the same step has written to the disk.
Stop(message) ==
  /\ panicked' = message
  /\ UNCHANGED <<icache, ftable, procVars, k, calls, crashes>>
Panic(message) == Stop(message) /\ UNCHANGED disk

\* What a step leaves alone in any case, and if it does not use the disk.
Kernel == UNCHANGED <<ftable, procVars, panicked, calls, crashes>>
NoDisk == UNCHANGED disk

Become(p, f) == k' = [k EXCEPT ![p] = f]

\* Frame f, about to do iput(i) and to go on at label l.
Drop(f, i, l) == [f EXCEPT !.pc = "put", !.drop = i, !.back = l]

Making == {"create", "mkdir", "mknod"}
\* The calls, or halves of them, that look for the parent of a path.
ForParent == Making \cup {"unlink", "link2"}

\* Where a call goes on if its path leads nowhere.
Failed(op) == IF op = "link2" THEN "bad" ELSE "user"

-----------------------------------------------------------------------------
(* The inode cache.  An inode is in one slot at most (iget() looks for it  *)
(* under icache.lock), so that a pointer to a slot is its inode number.    *)

Cached == {i \in Inums : icache[i].ref > 0}

\* iget() finds no free slot.
NoSlot(i) == i \notin Cached /\ Cardinality(Cached) = NINODE

iget(cache, i) ==
  IF cache[i].ref > 0 THEN [cache EXCEPT ![i].ref = @ + 1]
                      ELSE [cache EXCEPT ![i] = [Uncached EXCEPT !.ref = 1]]

Unlocked(i) == icache[i].busy = Nobody

\* The cache when p has locked i, having read it from the disk if need be.
ilock(p, i) ==
  [icache EXCEPT ![i] =
     IF @.valid THEN [@ EXCEPT !.busy = p]
     ELSE [@ EXCEPT !.busy = p, !.valid = TRUE,
                    !.type = disk[i].type, !.nlink = disk[i].nlink]]

iunlock(cache, i) == [cache EXCEPT ![i].busy = Nobody]

\* ilock() finds a free inode on the disk.
NoType(i) == ~icache[i].valid /\ disk[i].type = "free"

\* The inode that the process of frame f locks next, while it holds others.
Wants(f) ==
  CASE f.pc = "walk" /\ f.path # <<>>      -> f.ip
    [] f.pc = "go" /\ f.op \in ForParent   -> f.dp
    [] f.pc = "go" /\ f.op \notin ForParent -> f.ip
    [] f.pc \in {"found", "init", "unlink"} -> f.ip
    [] f.pc = "bad"                         -> f.src
    [] OTHER                                -> Null

IlockPanic(p) ==
  /\ At(p, k[p].pc) /\ Wants(k[p]) # Null
  /\ Unlocked(Wants(k[p])) /\ NoType(Wants(k[p]))
  /\ Panic("ilock: no type")

\* Process p is at label l and gets the lock it wants.
Locks(p, l) ==
  /\ At(p, l) /\ Wants(k[p]) # Null
  /\ Unlocked(Wants(k[p])) /\ ~NoType(Wants(k[p]))

\* The cache with that lock taken, and taken and given back.
Locked(p) == ilock(p, Wants(k[p]))
Visited(p) == iunlock(Locked(p), Wants(k[p]))

\* iget(i) on top of a change of the cache; p goes on with frame f.
Get(p, cache, i, f) ==
  IF NoSlot(i) THEN Stop("iget: no inodes")
  ELSE /\ icache' = iget(cache, i)
       /\ Become(p, f) /\ Kernel

\* nlink of i becomes n, in memory and, by iupdate(), on the disk.
Relink(cache, i, n) ==
  /\ icache' = [cache EXCEPT ![i].nlink = n]
  /\ disk' = [disk EXCEPT ![i].nlink = n]

\* Variant: the inode is freed while others still hold references to it.
Unused_AnyRefs(i) == icache[i].valid /\ icache[i].nlink = 0

\* iput() frees i: this is the last reference and no directory has it.
Unused(i) == icache[i].ref = 1 /\ icache[i].valid /\ icache[i].nlink = 0

\* The end of iput(): the reference goes, and the pointer with it.
Release(p, i) ==
  /\ icache' = [icache EXCEPT ![i] =
                  IF @.ref = 1 THEN Uncached
                  ELSE [icache[i] EXCEPT !.ref = @ - 1]]
  /\ Become(p, IF k[p].back = "user" THEN User
               ELSE [k[p] EXCEPT !.pc = k[p].back, !.drop = Null])

Put(p) ==
  LET i == k[p].drop IN
  /\ At(p, "put") /\ ~Unused(i)
  /\ Release(p, i)
  /\ Kernel /\ NoDisk

PutUnused(p) ==
  LET i == k[p].drop IN
  /\ At(p, "put") /\ Unused(i)
  /\ IF Unlocked(i)
     THEN /\ icache' = [icache EXCEPT ![i].busy = p]
          /\ Become(p, [k[p] EXCEPT !.pc = "trunc"])
          /\ Kernel /\ NoDisk
     ELSE Panic("iput busy")

\* itrunc(): the contents are gone.
Trunc(p) ==
  /\ At(p, "trunc")
  /\ disk' = [disk EXCEPT ![k[p].drop].ents = NoEntries]
  /\ Become(p, [k[p] EXCEPT !.pc = "free"])
  /\ Kernel /\ UNCHANGED icache

\* ip->type = 0 and iupdate(): ialloc() may take the inode from now on.
FreeOnDisk(p) ==
  /\ At(p, "free")
  /\ disk' = [disk EXCEPT ![k[p].drop] = FreeInode]
  /\ icache' = [icache EXCEPT ![k[p].drop].type = "free"]
  /\ Become(p, [k[p] EXCEPT !.pc = "freed"])
  /\ Kernel

\* ip->flags = 0, and the reference goes.  Somebody else may hold one by
\* now, who allocated the inode again.
Freed(p) ==
  LET i == k[p].drop IN
  /\ At(p, "freed")
  /\ icache' = [icache EXCEPT ![i] = IF @.ref = 1 THEN Uncached
                   ELSE [Uncached EXCEPT !.ref = icache[i].ref - 1]]
  /\ Become(p, IF k[p].back = "user" THEN User
               ELSE [k[p] EXCEPT !.pc = k[p].back, !.drop = Null])
  /\ Kernel /\ NoDisk

-----------------------------------------------------------------------------
(* Paths: namex().                                                         *)

dirlookup(d, n) == IF n = "." THEN d ELSE disk[d].ents[n]

\* A walk along a path starts at the root or in the current directory, and
\* holds a reference of its own to where it is.
Start(p, path) == IF path # <<>> /\ path[1] = "/" THEN Root ELSE cwd[p]
Walking(f, i, path) ==
  [f EXCEPT !.pc = "walk", !.ip = i,
            !.path = IF path # <<>> /\ path[1] = "/" THEN Tail(path) ELSE path]

\* Give up the walk, whose inode is unlocked by now.
Fail(f) == Drop([f EXCEPT !.ip = Null], f.ip, Failed(f.op))

\* The path is used up: namei() has its inode, nameiparent() fails.
WalkEnd(p) ==
  LET f == k[p] IN
  /\ At(p, "walk") /\ f.path = <<>>
  /\ Become(p, IF f.op \in ForParent THEN Fail(f) ELSE [f EXCEPT !.pc = "go"])
  /\ Kernel /\ NoDisk /\ UNCHANGED icache

\* nameiparent(): the last element is left, and this is its directory.
AtParent(f) == f.op \in ForParent /\ Len(f.path) = 1

WalkFails(p) ==
  LET f == k[p] IN
  /\ Locks(p, "walk")
  /\ \/ Locked(p)[f.ip].type # "dir"
     \/ ~AtParent(f) /\ dirlookup(f.ip, f.path[1]) = Null
  /\ icache' = Visited(p)
  /\ Become(p, Fail(f)) /\ Kernel /\ NoDisk

WalkStops(p) ==
  LET f == k[p] IN
  /\ Locks(p, "walk") /\ Locked(p)[f.ip].type = "dir" /\ AtParent(f)
  /\ icache' = Visited(p)
  /\ Become(p, [f EXCEPT !.pc = "go", !.ip = Null, !.dp = f.ip,
                         !.name = f.path[1], !.path = <<>>])
  /\ Kernel /\ NoDisk

\* Variant: the directory stays locked until the next inode is reached.
WalkOn_KeepLock(p) ==
  LET f == k[p] next == dirlookup(f.ip, f.path[1]) IN
  /\ Locks(p, "walk") /\ Locked(p)[f.ip].type = "dir"
  /\ ~AtParent(f) /\ next # Null
  /\ Get(p, Locked(p), next,
         Drop([f EXCEPT !.ip = next, !.name = f.path[1], !.path = Tail(@)],
              f.ip, "walk"))
  /\ NoDisk

\* One element: take a reference to the inode it names, unlock and drop the
\* directory it is in.
WalkOn(p) ==
  LET f == k[p] next == dirlookup(f.ip, f.path[1]) IN
  /\ Locks(p, "walk") /\ Locked(p)[f.ip].type = "dir"
  /\ ~AtParent(f) /\ next # Null
  /\ Get(p, Visited(p), next,
         Drop([f EXCEPT !.ip = next, !.name = f.path[1], !.path = Tail(@)],
              f.ip, "walk"))
  /\ NoDisk

-----------------------------------------------------------------------------
(* sysfile.c: open(), create().                                            *)

\* A call begins; its walk takes a reference.
Call(p, r) ==
  /\ At(p, "user") /\ calls < MAXCALLS
  /\ IF NoSlot(Start(p, r.path)) THEN Panic("iget: no inodes")
     ELSE /\ icache' = iget(icache, Start(p, r.path))
          /\ Become(p, Walking([User EXCEPT !.op = r.op, !.new = r.new],
                               Start(p, r.path), r.path))
          /\ calls' = calls + 1
          /\ UNCHANGED <<disk, ftable, procVars, panicked, crashes>>

\* Unlock i and drop it; f is the rest of the frame.
PutLocked(p, cache, f, i, l) ==
  /\ icache' = iunlock(cache, i)
  /\ Become(p, Drop(f, i, l)) /\ Kernel

OpenLock(p) ==
  LET f == k[p] IN
  /\ f.op \in {"open", "openw"} /\ Locks(p, "go")
  /\ IF Locked(p)[f.ip].type = "dir" /\ f.op = "openw"
     THEN PutLocked(p, Locked(p), [f EXCEPT !.ip = Null], f.ip, "user")
     ELSE /\ icache' = Locked(p)
          /\ Become(p, [f EXCEPT !.pc = "opened"]) /\ Kernel
  /\ NoDisk

FreeFiles == {f \in 1..NFILE : ftable[f].ref = 0}
FreeFds(p) == {d \in 1..NOFILE : ofile[p][d] = Null}
IsFirst(x, S) == x \in S /\ \A y \in S : x <= y

\* filealloc() and fdalloc(): both find something, and the file takes the
\* reference to the inode over.
OpenDone(p) ==
  LET i == k[p].ip IN
  /\ At(p, "opened")
  /\ \E f \in FreeFiles, d \in FreeFds(p) :
       /\ IsFirst(f, FreeFiles) /\ IsFirst(d, FreeFds(p))
       /\ ftable' = [ftable EXCEPT ![f] = [ref |-> 1, ip |-> i]]
       /\ ofile' = [ofile EXCEPT ![p][d] = f]
  /\ icache' = iunlock(icache, i)
  /\ Become(p, User)
  /\ UNCHANGED <<disk, live, cwd, panicked, calls, crashes>>

\* Variant: the inode is unlocked but not dropped.
OpenFails_KeepRef(p) ==
  /\ At(p, "opened") /\ (FreeFiles = {} \/ FreeFds(p) = {})
  /\ icache' = iunlock(icache, k[p].ip)
  /\ Become(p, User) /\ Kernel /\ NoDisk

OpenFails(p) ==
  /\ At(p, "opened") /\ (FreeFiles = {} \/ FreeFds(p) = {})
  /\ PutLocked(p, icache, [k[p] EXCEPT !.ip = Null], k[p].ip, "user")
  /\ NoDisk

\* create() finds the name in the directory.
CreateFinds(p) ==
  LET f == k[p] i == dirlookup(f.dp, f.name) IN
  /\ f.op \in Making /\ Locks(p, "go") /\ i # Null
  /\ Get(p, Visited(p), i,
         Drop([f EXCEPT !.ip = i, !.dp = Null], f.dp, "found"))
  /\ NoDisk

\* Only a file, asked for by open(), is an answer.
CreateFound(p) ==
  LET f == k[p] IN
  /\ Locks(p, "found")
  /\ IF f.op = "create" /\ Locked(p)[f.ip].type = "file"
     THEN /\ icache' = Locked(p)
          /\ Become(p, [f EXCEPT !.pc = "opened"]) /\ Kernel
     ELSE PutLocked(p, Locked(p), [f EXCEPT !.ip = Null], f.ip, "user")
  /\ NoDisk

TypeMade(op) == CASE op = "create" -> "file" [] op = "mkdir" -> "dir"
                  [] op = "mknod" -> "dev"
FreeInums == {i \in Inums : i # Root /\ disk[i].type = "free"}

\* ialloc() marks the first free inode on the disk.  The directory stays
\* locked until the new inode is in it.
CreateAlloc(p) ==
  LET f == k[p] IN
  /\ f.op \in Making /\ Locks(p, "go") /\ dirlookup(f.dp, f.name) = Null
  /\ \/ FreeInums = {} /\ Panic("ialloc: no inodes")
     \/ \E i \in FreeInums :
          /\ IsFirst(i, FreeInums)
          /\ Get(p, Locked(p), i, [f EXCEPT !.pc = "init", !.ip = i])
          /\ disk' = [disk EXCEPT ![i] =
                        [FreeInode EXCEPT !.type = TypeMade(f.op)]]

\* Variant: the link count of the new inode is not set.
CreateInit_NoCount(p) ==
  LET f == k[p] IN
  /\ Locks(p, "init")
  /\ Relink(Locked(p), f.ip, 0)
  /\ Become(p, [f EXCEPT !.pc = IF f.op = "mkdir" THEN "dots" ELSE "enter"])
  /\ Kernel

\* nlink = 1 and iupdate(), the new inode locked until create() returns.
CreateInit(p) ==
  LET f == k[p] IN
  /\ Locks(p, "init")
  /\ Relink(Locked(p), f.ip, 1)
  /\ Become(p, [f EXCEPT !.pc = IF f.op = "mkdir" THEN "dots" ELSE "enter"])
  /\ Kernel

\* mkdir: count the entry .. that the new directory is about to get.
CreateCount(p) ==
  LET d == k[p].dp IN
  /\ At(p, "dots")
  /\ Relink(icache, d, icache[d].nlink + 1)
  /\ Become(p, [k[p] EXCEPT !.pc = "dots2"])
  /\ Kernel

\* The entries . and ..: no path leads here yet, so one step.
CreateDots(p) ==
  /\ At(p, "dots2")
  /\ disk' = [disk EXCEPT ![k[p].ip].ents[".."] = k[p].dp]
  /\ Become(p, [k[p] EXCEPT !.pc = "enter"])
  /\ Kernel /\ UNCHANGED icache

\* dirlink() writes the entry; create() returns the inode locked.
CreateEnter(p) ==
  LET f == k[p] IN
  /\ At(p, "enter")
  /\ disk' = [disk EXCEPT ![f.dp].ents[f.name] = f.ip]
  /\ PutLocked(p, icache, [f EXCEPT !.dp = Null], f.dp,
               IF f.op = "create" THEN "opened" ELSE "made")

Made(p) ==
  /\ At(p, "made")
  /\ PutLocked(p, icache, [k[p] EXCEPT !.ip = Null], k[p].ip, "user")
  /\ NoDisk

-----------------------------------------------------------------------------
(* unlink(), link().                                                       *)

UnlinkFails(p) ==
  LET f == k[p] IN
  /\ f.op = "unlink" /\ Locks(p, "go")
  /\ f.name \in {".", ".."} \/ dirlookup(f.dp, f.name) = Null
  /\ PutLocked(p, Locked(p), [f EXCEPT !.dp = Null], f.dp, "user")
  /\ NoDisk

UnlinkFinds(p) ==
  LET f == k[p] i == dirlookup(f.dp, f.name) IN
  /\ f.op = "unlink" /\ Locks(p, "go")
  /\ f.name \notin {".", ".."} /\ i # Null
  /\ Get(p, Locked(p), i, [f EXCEPT !.pc = "unlink", !.ip = i])
  /\ NoDisk

isdirempty(d) == \A n \in Names : disk[d].ents[n] = Null

\* The directory is locked; so is the inode now.  Erase the entry, unless
\* it names a directory that is not empty.
UnlinkErase(p) ==
  LET f == k[p] ip == Locked(p)[f.ip] IN
  /\ Locks(p, "unlink")
  /\ CASE ip.nlink < 1 -> Panic("unlink: nlink < 1")
       [] ip.nlink >= 1 /\ ip.type = "dir" /\ ~isdirempty(f.ip) ->
            /\ PutLocked(p, Locked(p), [f EXCEPT !.ip = Null], f.ip, "kept")
            /\ NoDisk
       [] ip.nlink >= 1 /\ (ip.type = "dir" => isdirempty(f.ip)) ->
            /\ disk' = [disk EXCEPT ![f.dp].ents[f.name] = Null]
            /\ icache' = Locked(p)
            /\ Become(p, [f EXCEPT !.pc = "erased"]) /\ Kernel

\* The entry stays: the inode has been unlocked and dropped first, and the
\* directory is after it.
UnlinkGivesUp(p) ==
  /\ At(p, "kept")
  /\ PutLocked(p, icache, [k[p] EXCEPT !.dp = Null], k[p].dp, "user")
  /\ NoDisk

\* The directory loses the .. of a directory removed.
UnlinkCount(p) ==
  LET f == k[p] IN
  /\ At(p, "erased")
  /\ LET n == icache[f.dp].nlink - (IF icache[f.ip].type = "dir" THEN 1 ELSE 0)
     IN  /\ disk' = [disk EXCEPT ![f.dp].nlink = n]
         /\ PutLocked(p, [icache EXCEPT ![f.dp].nlink = n],
                      [f EXCEPT !.dp = Null], f.dp, "unlinked")

UnlinkDone(p) ==
  LET f == k[p] n == icache[f.ip].nlink - 1 IN
  /\ At(p, "unlinked")
  /\ disk' = [disk EXCEPT ![f.ip].nlink = n]
  /\ PutLocked(p, [icache EXCEPT ![f.ip].nlink = n],
               [f EXCEPT !.ip = Null], f.ip, "user")

LinkFails(p) ==
  LET f == k[p] IN
  /\ f.op = "link" /\ Locks(p, "go") /\ Locked(p)[f.ip].type = "dir"
  /\ PutLocked(p, Locked(p), [f EXCEPT !.ip = Null], f.ip, "user")
  /\ NoDisk

\* Variant: the link is counted once it has been made.
LinkCount_Later(p) ==
  LET f == k[p] IN
  /\ f.op = "link" /\ Locks(p, "go") /\ Locked(p)[f.ip].type # "dir"
  /\ Get(p, Visited(p), Start(p, f.new),
         Walking([f EXCEPT !.op = "link2", !.src = f.ip],
                 Start(p, f.new), f.new))
  /\ NoDisk

\* The link is counted, on the disk too, before it is made; then the walk to
\* the directory it will be in begins.
LinkCount(p) ==
  LET f == k[p] cache == Visited(p) n == cache[f.ip].nlink + 1 IN
  /\ f.op = "link" /\ Locks(p, "go") /\ cache[f.ip].type # "dir"
  /\ disk' = [disk EXCEPT ![f.ip].nlink = n]
  /\ Get(p, [cache EXCEPT ![f.ip].nlink = n], Start(p, f.new),
         Walking([f EXCEPT !.op = "link2", !.src = f.ip],
                 Start(p, f.new), f.new))

LinkEnter(p) ==
  LET f == k[p] IN
  /\ f.op = "link2" /\ Locks(p, "go") /\ dirlookup(f.dp, f.name) = Null
  /\ disk' = [disk EXCEPT ![f.dp].ents[f.name] = f.src]
  /\ PutLocked(p, Locked(p), [f EXCEPT !.dp = Null], f.dp, "rest")

\* link() returns, and drops the file.
Rest(p) ==
  /\ At(p, "rest")
  /\ Become(p, Drop([k[p] EXCEPT !.src = Null], k[p].src, "user"))
  /\ Kernel /\ NoDisk /\ UNCHANGED icache

\* dirlink() finds the name: it takes and drops a reference to the inode of
\* that name, with the directory locked.
LinkExists(p) ==
  LET f == k[p] i == dirlookup(f.dp, f.name) IN
  /\ f.op = "link2" /\ Locks(p, "go") /\ i # Null
  /\ Get(p, Locked(p), i, Drop(f, i, "exists"))
  /\ NoDisk

LinkGivesUp(p) ==
  LET f == k[p] IN
  /\ At(p, "exists")
  /\ PutLocked(p, icache, [f EXCEPT !.dp = Null], f.dp, "bad")
  /\ NoDisk

\* Take the count back.
LinkBad(p) ==
  LET f == k[p] cache == Visited(p) n == cache[f.src].nlink - 1 IN
  /\ Locks(p, "bad")
  /\ disk' = [disk EXCEPT ![f.src].nlink = n]
  /\ icache' = [cache EXCEPT ![f.src].nlink = n]
  /\ Become(p, Drop([f EXCEPT !.src = Null], f.src, "user"))
  /\ Kernel

-----------------------------------------------------------------------------
(* chdir(), exec(), descriptors, processes.                                *)

\* The new directory takes the place of the old one, which is dropped first.
Chdir(p) ==
  LET f == k[p] IN
  /\ f.op = "chdir" /\ Locks(p, "go") /\ NoDisk
  /\ IF Locked(p)[f.ip].type # "dir"
     THEN PutLocked(p, Locked(p), [f EXCEPT !.ip = Null], f.ip, "user")
     ELSE /\ icache' = Visited(p)
          /\ Become(p, Drop(f, cwd[p], "cd"))
          /\ cwd' = [cwd EXCEPT ![p] = Null]
          /\ UNCHANGED <<ftable, live, ofile, panicked, calls, crashes>>

ChdirDone(p) ==
  /\ At(p, "cd")
  /\ cwd' = [cwd EXCEPT ![p] = k[p].ip]
  /\ Become(p, User)
  /\ UNCHANGED <<disk, icache, ftable, live, ofile, panicked, calls, crashes>>

\* exec() reads the program with its inode locked, and drops it.
Exec(p) ==
  LET f == k[p] IN
  /\ f.op = "exec" /\ Locks(p, "go")
  /\ PutLocked(p, Locked(p), [f EXCEPT !.ip = Null], f.ip, "user")
  /\ NoDisk

Dup(p) ==
  /\ At(p, "user")
  /\ \E d, e \in 1..NOFILE :
       /\ ofile[p][d] # Null /\ IsFirst(e, FreeFds(p))
       /\ ofile' = [ofile EXCEPT ![p][e] = ofile[p][d]]
       /\ ftable' = [ftable EXCEPT ![ofile[p][d]].ref = @ + 1]
  /\ UNCHANGED <<disk, icache, live, cwd, k, panicked, calls, crashes>>

\* fileclose() of descriptor d: the last close drops the inode.
Close(p, d, l) ==
  LET f == ofile[p][d] IN
  /\ ofile' = [ofile EXCEPT ![p][d] = Null]
  /\ IF ftable[f].ref > 1
     THEN /\ ftable' = [ftable EXCEPT ![f].ref = @ - 1]
          /\ Become(p, IF l = "user" THEN User ELSE [User EXCEPT !.pc = l])
     ELSE /\ ftable' = [ftable EXCEPT ![f] = NoFile]
          /\ Become(p, Drop(User, ftable[f].ip, l))
  /\ UNCHANGED <<disk, icache, live, cwd, panicked, calls, crashes>>

SysClose(p) ==
  /\ At(p, "user")
  /\ \E d \in 1..NOFILE : ofile[p][d] # Null /\ Close(p, d, "user")

\* fork(): the child shares the open files and the directory.
Fork(p, q) ==
  /\ At(p, "user") /\ q \notin live
  /\ live' = live \cup {q}
  /\ cwd' = [cwd EXCEPT ![q] = cwd[p]]
  /\ ofile' = [ofile EXCEPT ![q] = ofile[p]]
  /\ ftable' = [f \in 1..NFILE |->
       [ftable[f] EXCEPT !.ref =
          @ + Cardinality({d \in 1..NOFILE : ofile[p][d] = f})]]
  /\ icache' = iget(icache, cwd[p])
  /\ UNCHANGED <<disk, k, panicked, calls, crashes>>

\* exit(), of any process but init: close one file after the other, ...
ExitCall(p) ==
  /\ At(p, "user") /\ p # First
  /\ Become(p, [User EXCEPT !.pc = "exit"])
  /\ Kernel /\ NoDisk /\ UNCHANGED icache

ExitClose(p) ==
  /\ At(p, "exit")
  /\ \E d \in 1..NOFILE :
       /\ IsFirst(d, {e \in 1..NOFILE : ofile[p][e] # Null})
       /\ Close(p, d, "exit")

\* ... drop the directory ...
ExitDrop(p) ==
  /\ At(p, "exit") /\ \A d \in 1..NOFILE : ofile[p][d] = Null
  /\ cwd' = [cwd EXCEPT ![p] = Null]
  /\ Become(p, Drop(User, cwd[p], "dead"))
  /\ UNCHANGED <<disk, icache, ftable, live, ofile, panicked, calls, crashes>>

\* ... and be gone.
ExitDone(p) ==
  /\ At(p, "dead")
  /\ live' = live \ {p}
  /\ Become(p, User)
  /\ UNCHANGED <<disk, icache, ftable, cwd, ofile, panicked, calls, crashes>>

\* The power fails; all there is afterwards is the disk.
Crash ==
  /\ crashes < MAXCRASH
  /\ crashes' = crashes + 1
  /\ live' = {First} /\ cwd' = InitAlone /\ icache' = Idle(InitAlone, disk)
  /\ ftable' = NoFiles /\ ofile' = NoDescriptors /\ k' = AllUser
  /\ panicked' = "no" /\ calls' = IF calls > 0 THEN calls - 1 ELSE 0
  /\ UNCHANGED disk

-----------------------------------------------------------------------------
Step(p) ==
  \/ \E r \in Requests : Call(p, r)
  \/ IlockPanic(p)
  \/ Put(p) \/ PutUnused(p) \/ Trunc(p) \/ FreeOnDisk(p) \/ Freed(p)
  \/ WalkEnd(p) \/ WalkFails(p) \/ WalkStops(p) \/ WalkOn(p)
  \/ OpenLock(p) \/ OpenDone(p) \/ OpenFails(p)
  \/ CreateFinds(p) \/ CreateFound(p) \/ CreateAlloc(p) \/ CreateInit(p)
  \/ CreateCount(p) \/ CreateDots(p) \/ CreateEnter(p) \/ Made(p)
  \/ UnlinkFails(p) \/ UnlinkFinds(p) \/ UnlinkErase(p) \/ UnlinkGivesUp(p)
  \/ UnlinkCount(p) \/ UnlinkDone(p)
  \/ LinkFails(p) \/ LinkCount(p) \/ LinkEnter(p) \/ Rest(p)
  \/ LinkExists(p) \/ LinkGivesUp(p) \/ LinkBad(p)
  \/ Chdir(p) \/ ChdirDone(p) \/ Exec(p) \/ Dup(p) \/ SysClose(p)
  \/ \E q \in Procs : Fork(p, q)
  \/ ExitCall(p) \/ ExitClose(p) \/ ExitDrop(p) \/ ExitDone(p)

\* A process looks up the parent of a directory that has been removed: it may
\* be gone as well, or be something else by now.
Gone(d) == d \in DirsOn(disk) /\ d # Root /\ NamedOn(disk, d) = {}
Strays(p) ==
  LET f == k[p] IN
  \/ /\ f.pc = "walk" /\ f.path # <<>> /\ ~AtParent(f)
     /\ f.path[1] = ".." /\ Gone(f.ip)
  \/ /\ f.pc = "go" /\ f.op \in Making \cup {"link2"}
     /\ f.name = ".." /\ Gone(f.dp)

Next ==
  \/ Crash /\ UNCHANGED strayed
  \/ \E p \in Procs : Step(p) /\ strayed' = (strayed \/ Strays(p))

Spec == Init /\ [][Next]_vars

-----------------------------------------------------------------------------
(* Every reference counted in icache and in ftable is a pointer somebody   *)
(* has, and is counted once: an open file, a current directory, a variable *)
(* of a call on its way.  (iget, idup, iput, fileclose and the error paths *)
(* of sysfile.c)                                                           *)
Opened(i) == {f \in 1..NFILE : ftable[f].ref > 0 /\ ftable[f].ip = i}
Inside(i) == {p \in live : cwd[p] = i}
Using(v, i) == {p \in live : k[p][v] = i}
References(i) ==
  Cardinality(Opened(i)) + Cardinality(Inside(i))
  + Cardinality(Using("ip", i)) + Cardinality(Using("dp", i))
  + Cardinality(Using("src", i)) + Cardinality(Using("drop", i))
RefsExact ==
  panicked = "no" =>
    /\ \A i \in Inums : icache[i].ref = References(i)
    /\ \A f \in 1..NFILE :
         ftable[f].ref = Cardinality({x \in live \X (1..NOFILE) :
                                        ofile[x[1]][x[2]] = f})

(* The properties that follow are those of a system in which nobody has    *)
(* looked up the parent of a removed directory.  Its entry .. stays, also  *)
(* when the parent is removed, freed and allocated again: create() and     *)
(* link() can then reach an inode before its first link is counted.        *)

(* Whenever the power fails, what a directory on the disk names is         *)
(* allocated, and counts at least the entries that name it and, if it is a *)
(* directory, the .. of its subdirectories: nothing will be freed that can *)
(* still be reached.  (the order of the writes in create, sys_link and     *)
(* sys_unlink)                                                             *)
Dirs == DirsOn(disk)
Links(i) == Cardinality(NamedOn(disk, i))
Subdirs(d) ==
  Cardinality({i \in Dirs : \E n \in Names : disk[d].ents[n] = i})
DiskSound ==
  ~strayed =>
    \A i \in Inums :
      /\ Links(i) > 0 => disk[i].type # "free"
      /\ disk[i].nlink >= Links(i) + (IF i \in Dirs THEN Subdirs(i) ELSE 0)
                                   + (IF i = Root THEN 1 ELSE 0)

(* An inode that is open or a current directory stays allocated, whatever  *)
(* is unlinked meanwhile, and what the cache says of it is what the disk   *)
(* says, except while iput() is done with freeing it.  (iput, ilock)       *)
InUse ==
  {ftable[f].ip : f \in {g \in 1..NFILE : ftable[g].ref > 0}}
  \cup {cwd[p] : p \in {q \in live : cwd[q] # Null}}
UsedStay ==
  ~strayed =>
    /\ \A i \in InUse : disk[i].type # "free"
    /\ panicked = "no" =>
         \A i \in Cached :
           icache[i].valid /\ (\A p \in live : At(p, "freed") => k[p].drop # i)
           => icache[i].type = disk[i].type /\ icache[i].nlink = disk[i].nlink

(* No processes wait for each other's inodes in a circle, or for their     *)
(* own.  (sys_unlink and create hold a directory and lock what is in it)   *)
Waiting == {p \in live : Wants(k[p]) # Null /\ ~Unlocked(Wants(k[p]))}
NoLockCycle ==
  ~strayed =>
    \A S \in SUBSET Waiting :
      S # {} => \E p \in S : icache[Wants(k[p])].busy \notin S

(* The kernel stops when the cache or the disk has no inode left, for no   *)
(* other reason.  (the panics of iget, ialloc, ilock, iput, sys_unlink)    *)
PanicsOnlyWhenFull ==
  ~strayed => panicked \in {"no", "iget: no inodes", "ialloc: no inodes"}

=============================================================================
