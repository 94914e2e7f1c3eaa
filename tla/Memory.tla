------------------------------- MODULE Memory -------------------------------
(***************************************************************************)
(* Physical pages and address spaces: kalloc.c and vm.c of "xv6 Memory     *)
(* sub-system", parts a (every other frame) and b (random allocation), and *)
(* fork(), exec(), exit(), wait() and sbrk() as far as they use memory.    *)
(* The two parts differ only in kalloc.c.                                  *)
(*                                                                         *)
(* A step ends with the kalloc() or kfree() of one page, which kmem.lock   *)
(* makes atomic; processes run on several CPUs.  Every call that needs     *)
(* more memory than there is takes its path of retreat.                    *)
(*                                                                         *)
(* Addresses count in units, PGSIZE to a page, and are below WORD, where   *)
(* they wrap.  The user part of an address space is in one page table: the *)
(* kernel's first mapping, at USERTOP, needs that table too, so that       *)
(* walkpgdir() always finds it (USERTOP is below 4 MB).                    *)
(***************************************************************************)
EXTENDS Integers, Sequences, FiniteSets

CONSTANTS
  Kernels,         \* "a", "b" or both
  Procs, First,    \* slots of ptable; the first process
  FRAMES,          \* number of page frames above each kernel
  TABLES,          \* page tables that the kernel's mappings take
  PGSIZE, USERTOP, WORD,
  Programs,        \* sizes of the programs there are
  Increments,      \* arguments of sbrk()
  Lengths,         \* arguments of mprotect(), in pages
  MAXCALLS         \* bound: calls made

KernelAssumption == Kernels \subseteq {"a", "b"}
ProcsAssumption == First \in Procs
SizesAssumption ==
  /\ FRAMES \in [Kernels -> Nat \ {0}] /\ {TABLES, PGSIZE} \subseteq Nat \ {0}
  /\ USERTOP \in Nat /\ USERTOP % PGSIZE = 0 /\ 2 * USERTOP <= WORD

None == 0
PageNumbers == 0..USERTOP \div PGSIZE - 1

VARIABLES
  kernel,                  \* the part that runs
  freelist, alloc_list,    \* kalloc.c
  mem,                     \* contents of the frames
  state, parent, sz, kstack,    \* of the processes
  vm,                      \* address spaces, current and being made
  lost,                    \* history: frames that a failed setupkvm() forgets
  k,                       \* the calls on their way
  panicked, calls

procVars == <<state, parent, sz, kstack>>
vars == <<kernel, freelist, alloc_list, mem, procVars, vm, lost, k,
          panicked, calls>>

-----------------------------------------------------------------------------
Elements(s) == {s[n] : n \in DOMAIN s}

\* kinit(): part a leaves every other frame out.
Order == IF kernel = "a" THEN [n \in 1..(FRAMES["a"] + 1) \div 2 |-> 2 * n - 1]
                         ELSE [n \in 1..FRAMES["b"] |-> n]
Frames == Elements(Order)

NotMapped == [frame |-> None, w |-> FALSE]
NoSpace == [pgdir |-> None, tables |-> {},
            pages |-> [n \in PageNumbers |-> NotMapped]]
Spaces == Procs \X {"current", "other"}
\* told: what the last call answered, if it was an mprotect() that went well.
NoAnswer == [first |-> 0, len |-> 0, w |-> FALSE]
User == [pc |-> "user", s |-> <<First, "current">>, q |-> First,
         a |-> 0, to |-> 0, from |-> 0, size |-> 0,
         back |-> "user", fail |-> "user", then |-> "user", told |-> NoAnswer]

\* userinit(): a process with a kernel stack and one page.
Init ==
  /\ kernel \in Kernels
  /\ LET boot == 3 + TABLES
         taken == SubSeq(Order, 1, boot) IN
     /\ alloc_list = taken /\ freelist = SubSeq(Order, boot + 1, Len(Order))
     /\ mem = [f \in Frames |-> IF f = taken[boot] THEN "text" ELSE "junk"]
     /\ kstack = [p \in Procs |-> IF p = First THEN taken[1] ELSE None]
     /\ vm = [s \in Spaces |-> IF s = <<First, "current">>
                THEN [pgdir |-> taken[2],
                      tables |-> Elements(SubSeq(taken, 3, boot - 1)),
                      pages |-> [NoSpace.pages EXCEPT ![0] =
                                   [frame |-> taken[boot], w |-> TRUE]]]
                ELSE NoSpace]
  /\ state = [p \in Procs |-> IF p = First THEN "running" ELSE "unused"]
  /\ parent = [p \in Procs |-> First]
  /\ sz = [p \in Procs |-> IF p = First THEN PGSIZE ELSE 0]
  /\ lost = {} /\ k = [p \in Procs |-> User] /\ panicked = "no" /\ calls = 0

At(p, l) == k[p].pc = l /\ panicked = "no" /\ state[p] = "running"
Goto(p, l) == k' = [k EXCEPT ![p].pc = l]
Become(p, f) == k' = [k EXCEPT ![p] = f]
Memories == <<freelist, alloc_list, mem>>

\* kalloc() returns f: the first free frame or, in part b, any.
Takes(f) ==
  /\ f \in Elements(freelist) /\ (kernel = "a" => f = Head(freelist))
  /\ freelist' = SelectSeq(freelist, LAMBDA g : g # f)
  /\ alloc_list' = Append(alloc_list, f)
NoMemory == freelist = <<>> /\ kernel = "a"

kfree(f) ==
  /\ freelist' = <<f>> \o freelist
  /\ alloc_list' = SelectSeq(alloc_list, LAMBDA g : g # f)
  /\ mem' = [mem EXCEPT ![f] = "junk"]

\* Labels at which the next thing a process does is kalloc().
Allocates(p) ==
  \/ k[p].pc \in {"stack", "pgdir", "tables"}
  \/ k[p].pc \in {"alloc", "copy"} /\ k[p].a < k[p].to

\* Part b: kalloc() divides by the number of free frames.
DivideByZero(p) ==
  /\ At(p, k[p].pc) /\ Allocates(p) /\ kernel = "b" /\ freelist = <<>>
  /\ panicked' = "trap"
  /\ UNCHANGED <<kernel, Memories, procVars, vm, lost, k, calls>>

-----------------------------------------------------------------------------
(* setupkvm(): a page directory and the kernel's page tables in space s.   *)

SetupPgdir(p) ==
  /\ At(p, "pgdir")
  /\ \/ \E f \in Frames :
          /\ Takes(f) /\ vm' = [vm EXCEPT ![k[p].s].pgdir = f]
          /\ Goto(p, "tables")
     \/ /\ NoMemory /\ Goto(p, k[p].fail)
        /\ UNCHANGED <<freelist, alloc_list, vm>>
  /\ UNCHANGED <<kernel, mem, procVars, lost, panicked, calls>>

\* When there is no frame left, setupkvm() returns without those it has got.
SetupTable(p) ==
  LET s == k[p].s IN
  /\ At(p, "tables")
  /\ \/ \E f \in Frames :
          /\ Takes(f) /\ vm' = [vm EXCEPT ![s].tables = @ \cup {f}]
          /\ Goto(p, IF Cardinality(vm[s].tables) + 1 = TABLES
                     THEN k[p].back ELSE "tables")
          /\ UNCHANGED lost
     \/ /\ NoMemory
        /\ lost' = lost \cup {vm[s].pgdir} \cup vm[s].tables
        /\ vm' = [vm EXCEPT ![s] = NoSpace]
        /\ Goto(p, k[p].fail) /\ UNCHANGED <<freelist, alloc_list>>
  /\ UNCHANGED <<kernel, mem, procVars, panicked, calls>>

-----------------------------------------------------------------------------
(* allocuvm(), deallocuvm(), freevm().                                     *)

PGROUNDUP(a) == ((a + PGSIZE - 1) \div PGSIZE) * PGSIZE
PageOf(a) == a \div PGSIZE

\* A frame f that allocates from oldsz to newsz, or fails, in space s.
Alloc(f, s, oldsz, newsz, back, fail) ==
  IF newsz > USERTOP THEN [f EXCEPT !.pc = fail]
  ELSE [f EXCEPT !.pc = "alloc", !.s = s, !.a = PGROUNDUP(oldsz), !.to = newsz,
                 !.from = oldsz, !.back = back, !.fail = fail]

\* A frame f that gives back the pages from newsz to oldsz.
Dealloc(f, s, oldsz, newsz, back) ==
  [f EXCEPT !.pc = "dealloc", !.s = s, !.a = PGROUNDUP(newsz), !.to = oldsz,
            !.back = back]
Freevm(f, s, back) ==
  [f EXCEPT !.pc = "dealloc", !.s = s, !.a = 0, !.to = USERTOP,
            !.back = "freevm", !.then = back]

\* A page for address a, cleared, writable.  vm.c panics ("remap") if there
\* is one already.
AllocPage(p) ==
  LET s == k[p].s n == PageOf(k[p].a) IN
  /\ At(p, "alloc") /\ k[p].a < k[p].to
  /\ \E f \in Frames :
       /\ Takes(f)
       /\ mem' = [mem EXCEPT ![f] = "zero"]
       /\ IF vm[s].pages[n].frame # None
          THEN panicked' = "remap" /\ UNCHANGED <<vm, k>>
          ELSE /\ vm' = [vm EXCEPT ![s].pages[n] = [frame |-> f, w |-> TRUE]]
               /\ k' = [k EXCEPT ![p].a = @ + PGSIZE]
               /\ UNCHANGED panicked
  /\ UNCHANGED <<kernel, procVars, lost, calls>>

\* Variant: the pages allocated so far are not given back.
AllocFails_Keep(p) ==
  /\ At(p, "alloc") /\ k[p].a < k[p].to /\ NoMemory
  /\ Goto(p, k[p].fail)
  /\ UNCHANGED <<kernel, Memories, procVars, vm, lost, panicked, calls>>

\* No memory: back to the old size.
AllocFails(p) ==
  LET f == k[p] IN
  /\ At(p, "alloc") /\ f.a < f.to /\ NoMemory
  /\ Become(p, Dealloc(f, f.s, f.to, f.from, f.fail))
  /\ UNCHANGED <<kernel, Memories, procVars, vm, lost, panicked, calls>>

AllocDone(p) ==
  /\ At(p, "alloc") /\ k[p].a >= k[p].to /\ Goto(p, k[p].back)
  /\ UNCHANGED <<kernel, Memories, procVars, vm, lost, panicked, calls>>

\* deallocuvm() passes over pages that are not there.
Present(p) ==
  {n \in PageNumbers : /\ n * PGSIZE >= k[p].a /\ n * PGSIZE < k[p].to
                       /\ vm[k[p].s].pages[n].frame # None}

DeallocPage(p) ==
  /\ At(p, "dealloc")
  /\ \E n \in Present(p) :
       /\ \A m \in Present(p) : n <= m
       /\ kfree(vm[k[p].s].pages[n].frame)
       /\ vm' = [vm EXCEPT ![k[p].s].pages[n] = NotMapped]
  /\ UNCHANGED <<kernel, procVars, lost, k, panicked, calls>>

DeallocDone(p) ==
  /\ At(p, "dealloc") /\ Present(p) = {} /\ Goto(p, k[p].back)
  /\ UNCHANGED <<kernel, Memories, procVars, vm, lost, panicked, calls>>

\* freevm() after its user pages: the page tables, then the directory.
FreeTable(p) ==
  LET s == k[p].s IN
  /\ At(p, "freevm")
  /\ \/ \E f \in vm[s].tables :
          /\ \A g \in vm[s].tables : f <= g
          /\ kfree(f) /\ vm' = [vm EXCEPT ![s].tables = @ \ {f}]
          /\ UNCHANGED k
     \/ /\ vm[s].tables = {}
        /\ kfree(vm[s].pgdir) /\ vm' = [vm EXCEPT ![s] = NoSpace]
        /\ Goto(p, k[p].then)
  /\ UNCHANGED <<kernel, procVars, lost, panicked, calls>>

-----------------------------------------------------------------------------
(* fork(): copyuvm().                                                      *)

\* A process in user space has some page to run in.
Runs(p) ==
  /\ At(p, "user")
  /\ \E n \in PageNumbers : vm[<<p, "current">>].pages[n].frame # None
Call(p, f) ==
  /\ Runs(p) /\ calls < MAXCALLS /\ calls' = calls + 1 /\ Become(p, f)
  /\ UNCHANGED panicked

Fork(p, q) ==
  /\ state[q] = "unused" /\ state' = [state EXCEPT ![q] = "embryo"]
  /\ Call(p, [User EXCEPT !.pc = "stack", !.q = q, !.s = <<q, "current">>])
  /\ UNCHANGED <<kernel, Memories, parent, sz, kstack, vm, lost>>

ForkStack(p) ==
  LET q == k[p].q IN
  /\ At(p, "stack")
  /\ \/ \E f \in Frames :
          /\ Takes(f) /\ kstack' = [kstack EXCEPT ![q] = f]
          /\ Become(p, [k[p] EXCEPT !.pc = "pgdir", !.back = "copy",
                                    !.fail = "unfork", !.to = sz[p]])
          /\ UNCHANGED state
     \/ /\ NoMemory /\ state' = [state EXCEPT ![q] = "unused"]
        /\ Become(p, User) /\ UNCHANGED <<freelist, alloc_list, kstack>>
  /\ UNCHANGED <<kernel, mem, parent, sz, vm, lost, panicked, calls>>

\* Variant: the child may write to all of its pages.
Protection_Lost(pte) == pte.frame # None
Protection(pte) == pte.w

CopyPage(p) ==
  LET n == PageOf(k[p].a) pte == vm[<<p, "current">>].pages[n] IN
  /\ At(p, "copy") /\ k[p].a < k[p].to
  /\ IF pte.frame = None
     THEN /\ panicked' = "copyuvm: page not present"
          /\ UNCHANGED <<Memories, vm, k>>
     ELSE /\ \E f \in Frames :
               /\ Takes(f) /\ mem' = [mem EXCEPT ![f] = mem[pte.frame]]
               /\ vm' = [vm EXCEPT ![k[p].s].pages[n] =
                           [frame |-> f, w |-> Protection(pte)]]
          /\ k' = [k EXCEPT ![p].a = @ + PGSIZE]
          /\ UNCHANGED panicked
  /\ UNCHANGED <<kernel, procVars, lost, calls>>

CopyFails(p) ==
  /\ At(p, "copy") /\ k[p].a < k[p].to /\ NoMemory
  /\ Become(p, Freevm(k[p], k[p].s, "unfork"))
  /\ UNCHANGED <<kernel, Memories, procVars, vm, lost, panicked, calls>>

ForkDone(p) ==
  LET q == k[p].q IN
  /\ At(p, "copy") /\ k[p].a >= k[p].to
  /\ state' = [state EXCEPT ![q] = "running"]
  /\ parent' = [parent EXCEPT ![q] = p] /\ sz' = [sz EXCEPT ![q] = sz[p]]
  /\ Become(p, User)
  /\ UNCHANGED <<kernel, Memories, kstack, vm, lost, panicked, calls>>

Unfork(p) ==
  LET q == k[p].q IN
  /\ At(p, "unfork") /\ kfree(kstack[q])
  /\ kstack' = [kstack EXCEPT ![q] = None]
  /\ state' = [state EXCEPT ![q] = "unused"]
  /\ Become(p, User)
  /\ UNCHANGED <<kernel, parent, sz, vm, lost, panicked, calls>>

-----------------------------------------------------------------------------
(* exec() of a program with one segment: a space of its own, its pages and *)
(* one for the stack; then the old space goes.                             *)

Exec(p, size) ==
  /\ Call(p, [User EXCEPT !.pc = "pgdir", !.s = <<p, "other">>, !.size = size,
                          !.back = "load", !.fail = "user"])
  /\ UNCHANGED <<kernel, Memories, procVars, vm, lost>>

ExecLoad(p) ==
  LET f == k[p] IN
  /\ At(p, "load") /\ Become(p, Alloc(f, f.s, 0, f.size, "loaded", "bad"))
  /\ UNCHANGED <<kernel, Memories, procVars, vm, lost, panicked, calls>>

\* What exec() writes to the pages of the space it makes.
Filled(s) ==
  LET S == {vm[s].pages[n].frame : n \in PageNumbers} IN
  [f \in Frames |-> IF f \in S THEN "text" ELSE mem[f]]

ExecStack(p) ==
  LET f == k[p] top == PGROUNDUP(f.size) IN
  /\ At(p, "loaded") /\ mem' = Filled(f.s)
  /\ Become(p, Alloc(f, f.s, top, top + PGSIZE, "commit", "bad"))
  /\ UNCHANGED <<kernel, freelist, alloc_list, procVars, vm, lost, panicked,
                 calls>>

ExecBad(p) ==
  /\ At(p, "bad") /\ Become(p, Freevm(k[p], k[p].s, "user"))
  /\ UNCHANGED <<kernel, Memories, procVars, vm, lost, panicked, calls>>

\* Variant: the old space is forgotten.
ExecCommit_KeepOld(p) ==
  LET new == <<p, "other">> old == <<p, "current">> IN
  /\ At(p, "commit") /\ mem' = Filled(new)
  /\ vm' = [vm EXCEPT ![old] = vm[new], ![new] = NoSpace]
  /\ sz' = [sz EXCEPT ![p] = k[p].to]
  /\ Become(p, User)
  /\ UNCHANGED <<kernel, freelist, alloc_list, state, parent, kstack, lost,
                 panicked, calls>>

ExecCommit(p) ==
  LET new == <<p, "other">> old == <<p, "current">> IN
  /\ At(p, "commit") /\ mem' = Filled(new)
  /\ vm' = [vm EXCEPT ![old] = vm[new], ![new] = vm[old]]
  /\ sz' = [sz EXCEPT ![p] = k[p].to]
  /\ Become(p, Freevm(k[p], new, "user"))
  /\ UNCHANGED <<kernel, freelist, alloc_list, state, parent, kstack, lost,
                 panicked, calls>>

-----------------------------------------------------------------------------
(* sbrk(), mprotect(), munprotect(), and the process itself.               *)

\* growproc().  A size of 0 is taken for a failure, when the pages have gone;
\* switchuvm() is skipped then, too, but the TLB is not modelled.
Sbrk(p, n) ==
  LET s == <<p, "current">> newsz == (sz[p] + n) % WORD IN
  /\ \/ /\ n > 0
        /\ Call(p, Alloc([User EXCEPT !.size = newsz], s, sz[p], newsz,
                         "sized", "user"))
     \/ /\ n < 0 /\ newsz < sz[p]
        /\ Call(p, Dealloc([User EXCEPT !.size = newsz], s, sz[p], newsz,
                           IF newsz = 0 THEN "user" ELSE "sized"))
  /\ UNCHANGED <<kernel, Memories, procVars, vm, lost>>

SbrkDone(p) ==
  /\ At(p, "sized") /\ sz' = [sz EXCEPT ![p] = k[p].size] /\ Become(p, User)
  /\ UNCHANGED <<kernel, Memories, state, parent, kstack, vm, lost,
                 panicked, calls>>

\* mprotect() and munprotect(): w is the bit to be.  The end may wrap: then
\* less than was asked for is done, or nothing, and the answer is 0 as well.
Protect(p, addr, len, w) ==
  LET s == <<p, "current">> end == (addr + len * PGSIZE) % WORD IN
  /\ addr < sz[p] /\ addr % PGSIZE = 0
  /\ end <= USERTOP /\ len > 0
  /\ vm' = [vm EXCEPT ![s].pages = [n \in PageNumbers |->
              IF n * PGSIZE >= addr /\ n * PGSIZE < end
              THEN [@[n] EXCEPT !.w = w] ELSE @[n]]]
  /\ Call(p, [User EXCEPT !.told = [first |-> PageOf(addr), len |-> len,
                                    w |-> w]])
  /\ UNCHANGED <<kernel, Memories, procVars, lost>>

\* The process writes to one of its pages; one that is protected it cannot.
Store(p, n) ==
  LET pte == vm[<<p, "current">>].pages[n] IN
  /\ Runs(p) /\ pte.frame # None /\ pte.w
  /\ mem' = [mem EXCEPT ![pte.frame] = "data"]
  /\ UNCHANGED <<kernel, freelist, alloc_list, procVars, vm, lost, k,
                 panicked, calls>>

\* read(), pipe() or fstat() write to one of its pages for it: the kernel does
\* not set CR0_WP, so that the protection does not stop it.
KernelStore(p, n) ==
  LET pte == vm[<<p, "current">>].pages[n] IN
  /\ pte.frame # None /\ Call(p, User)
  /\ mem' = [mem EXCEPT ![pte.frame] = "input"]
  /\ UNCHANGED <<kernel, freelist, alloc_list, procVars, vm, lost>>

\* exit(), called or because of a page fault.
Exit(p) ==
  /\ At(p, "user") /\ p # First /\ Become(p, User)
  /\ state' = [state EXCEPT ![p] = "zombie"]
  /\ parent' = [q \in Procs |-> IF parent[q] = p THEN First ELSE parent[q]]
  /\ UNCHANGED <<kernel, Memories, sz, kstack, vm, lost, panicked, calls>>

\* wait(): the kernel stack, then the space of the zombie.
Wait(p, q) ==
  /\ Runs(p) /\ state[q] = "zombie" /\ parent[q] = p
  /\ kfree(kstack[q]) /\ kstack' = [kstack EXCEPT ![q] = None]
  /\ Become(p, Freevm([User EXCEPT !.q = q], <<q, "current">>, "reap"))
  /\ UNCHANGED <<kernel, state, parent, sz, vm, lost, panicked, calls>>

Reap(p) ==
  LET q == k[p].q IN
  /\ At(p, "reap") /\ Become(p, User)
  /\ state' = [state EXCEPT ![q] = "unused"]
  /\ UNCHANGED <<kernel, Memories, parent, sz, kstack, vm, lost, panicked,
                 calls>>

-----------------------------------------------------------------------------
Step(p) ==
  \/ \E q \in Procs : Fork(p, q) \/ Wait(p, q)
  \/ \E size \in Programs : Exec(p, size)
  \/ \E n \in Increments : Sbrk(p, n)
  \/ \E n \in PageNumbers :
       \/ Store(p, n) \/ KernelStore(p, n)
       \/ \E len \in Lengths, w \in BOOLEAN : Protect(p, n * PGSIZE, len, w)
  \/ Exit(p) \/ Reap(p)
  \/ DivideByZero(p) \/ SetupPgdir(p) \/ SetupTable(p)
  \/ AllocPage(p) \/ AllocFails(p) \/ AllocDone(p)
  \/ DeallocPage(p) \/ DeallocDone(p) \/ FreeTable(p)
  \/ ForkStack(p) \/ CopyPage(p) \/ CopyFails(p) \/ ForkDone(p) \/ Unfork(p)
  \/ ExecLoad(p) \/ ExecStack(p) \/ ExecBad(p) \/ ExecCommit(p) \/ SbrkDone(p)

Next == \E p \in Procs : Step(p)

Spec == Init /\ [][Next]_vars

-----------------------------------------------------------------------------
(* Every frame is either free or used for one thing, whatever runs out of  *)
(* memory when: the kernel stack of one process, the directory, a table or *)
(* a page of one space (or it has been lost by setupkvm); and the list     *)
(* that dump_allocated() reports has the others, once.                     *)
(* (kalloc, kfree, and the error paths of fork, exec and allocuvm)         *)
Holders ==     \* pairs of a frame and what it is used for
  {<<kstack[p], p>> : p \in Procs}
  \cup {<<vm[s].pgdir, s>> : s \in Spaces}
  \cup {<<vm[x[1]].pages[x[2]].frame, x>> : x \in Spaces \X PageNumbers}
  \cup UNION {{<<f, <<s, "table">> >> : f \in vm[s].tables} : s \in Spaces}
  \cup {<<f, "lost">> : f \in lost}
FramesExact ==
  LET held == {h \in Holders : h[1] # None}
      used == {h[1] : h \in held} IN
  /\ Cardinality(held) = Cardinality(used)
  /\ Elements(alloc_list) = used /\ Len(alloc_list) = Cardinality(used)
  /\ Elements(freelist) = Frames \ used
  /\ Len(freelist) = Cardinality(Frames \ used)

(* A process in user space has exactly the pages that its size says, unless *)
(* it has none at all and will never run again; so that no copy of it meets *)
(* a page that is missing, nor an extension one that is there.              *)
(* (growproc, exec and the panics of copyuvm and mappages)                  *)
PagesMatchSize ==
  /\ panicked \in {"no", "trap"}
  /\ \A p \in Procs :
       LET M == {n \in PageNumbers :
                   vm[<<p, "current">>].pages[n].frame # None} IN
       state[p] = "running" /\ k[p].pc = "user" =>
         M = {} \/ M = {n \in PageNumbers : n * PGSIZE < sz[p]}

(* Processes see AddressSpaces.                                            *)
Abstract == INSTANCE AddressSpaces WITH
  Hole <- NotMapped, Data <- {"data"}, Input <- {"input"}, Zero <- "zero",
  Text <- "text", SPAN <- WORD \div PGSIZE,
  told <- [p \in Procs |->
             IF state[p] = "running" THEN k[p].told ELSE NoAnswer],
  image <- [p \in Procs |-> [n \in PageNumbers |->
              LET pte == vm[<<p, "current">>].pages[n] IN
              IF state[p] = "running" /\ pte.frame # None
              THEN [data |-> mem[pte.frame], w |-> pte.w] ELSE NotMapped]]
ImplementsSpaces == Abstract!Spec

=============================================================================
