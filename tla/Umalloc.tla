------------------------------ MODULE Umalloc ------------------------------
(***************************************************************************)
(* malloc() and free() of xv6's C library (user/umalloc.c): free blocks in *)
(* a ring sorted by address, which begins at an empty block, base.         *)
(*                                                                         *)
(* Memory counts in units of a header; a block has one for its own header. *)
(* base is below the heap.  Other callers of sbrk() may take memory, too.  *)
(* What happens once sbrk() has succeeded and not given the memory asked   *)
(* for is not modelled: see phantom.                                       *)
(***************************************************************************)
EXTENDS Integers, FiniteSets

CONSTANTS
  NU,            \* units that morecore() asks for at least, 4096 in the code
  HDR, WORD,     \* bytes in a unit, which divides where an unsigned int wraps
  Requests,      \* bytes asked of malloc()
  LIMIT,         \* units that sbrk() can give altogether
  Gaps           \* units that others take with sbrk()

Base == 0
NotYet == -1
Addresses == 1..LIMIT

VARIABLES
  freep,
  ptr, size,     \* headers of free blocks
  brk,           \* the first address above the heap
  allocated,     \* what was asked for: blocks that malloc() has returned
  sizes,         \* their sizes
  others,        \* units that somebody else has
  request,       \* bytes that malloc() is after, or NotYet
  phantom        \* sbrk() said yes and gave other than morecore() wanted

vars == <<freep, ptr, size, brk, allocated, sizes, others, request, phantom>>

Init ==
  /\ freep = NotYet /\ ptr = [a \in {Base} |-> Base]
  /\ size = [a \in {Base} |-> 0] /\ brk = 1
  /\ allocated = [a \in {} |-> 0] /\ sizes = [a \in {} |-> 0]
  /\ others = {} /\ request = NotYet /\ phantom = FALSE

\* Units for nbytes and the header; the sum may wrap.
Units(nbytes) == ((nbytes + HDR - 1) % WORD) \div HDR + 1

Free == DOMAIN ptr
Without(f, a) == [x \in DOMAIN f \ {a} |-> f[x]]
With(f, a, v) == [x \in DOMAIN f \cup {a} |-> IF x = a THEN v ELSE f[x]]

-----------------------------------------------------------------------------
(* free() of the block at bp, n units long.                                *)

\* The free block after which bp belongs.
Before(bp, p) ==
  \/ bp > p /\ bp < ptr[p]
  \/ p >= ptr[p] /\ (bp > p \/ bp < ptr[p])

\* Variant: the block is not joined with the one below it.
Joined_Above(bp, n, p) ==
  LET next == ptr[p] IN
  IF bp + n = next
  THEN /\ size' = Without(With(size, bp, n + size[next]), next)
       /\ ptr' = Without(With(With(ptr, bp, ptr[next]), p, bp), next)
  ELSE /\ size' = With(size, bp, n)
       /\ ptr' = With(With(ptr, bp, next), p, bp)

\* The ring with bp in it, joined with its neighbours if they touch.
Joined(bp, n, p) ==
  LET next == ptr[p]
      above == bp + n = next
      end == IF above THEN ptr[next] ELSE next
      len == n + IF above THEN size[next] ELSE 0
      size1 == IF above THEN Without(size, next) ELSE size
      ptr1 == IF above THEN Without(ptr, next) ELSE ptr IN
  IF p + size[p] = bp
  THEN size' = With(size1, p, size[p] + len) /\ ptr' = With(ptr1, p, end)
  ELSE /\ size' = With(size1, bp, len)
       /\ ptr' = With(With(ptr1, bp, end), p, bp)

free(bp, n) ==
  \E p \in Free : Before(bp, p) /\ Joined(bp, n, p) /\ freep' = p

FreeBlock(bp) ==
  /\ request = NotYet /\ free(bp, sizes[bp])
  /\ allocated' = Without(allocated, bp) /\ sizes' = Without(sizes, bp)
  /\ UNCHANGED <<brk, others, request, phantom>>

-----------------------------------------------------------------------------
(* malloc()                                                                *)

Malloc(nbytes) ==
  /\ request = NotYet /\ request' = nbytes
  /\ freep' = IF freep = NotYet THEN Base ELSE freep
  /\ UNCHANGED <<ptr, size, brk, allocated, sizes, others, phantom>>

\* The ring from the block after freep on; freep itself is last.
Ring[n \in Nat] == IF n = 0 THEN ptr[freep] ELSE ptr[Ring[n - 1]]
Nth(p) == CHOOSE n \in 0..LIMIT : Ring[n] = p /\ \A m \in 0..n - 1 : Ring[m] # p
Fits(p) == size[p] >= Units(request)

\* The tail of the first block that is large enough, or all of it.
MallocFits ==
  /\ request # NotYet
  /\ \E p \in Free :
       LET n == Units(request)
           prevp == IF Nth(p) = 0 THEN freep ELSE Ring[Nth(p) - 1]
           new == p + size[p] - n IN
       /\ Fits(p) /\ \A m \in 0..Nth(p) - 1 : ~Fits(Ring[m])
       /\ IF size[p] = n
          THEN /\ ptr' = Without([ptr EXCEPT ![prevp] = ptr[p]], p)
               /\ size' = Without(size, p)
          ELSE size' = [size EXCEPT ![p] = @ - n] /\ UNCHANGED ptr
       /\ freep' = prevp
       /\ allocated' = With(allocated, new, request)
       /\ sizes' = With(sizes, new, n)
  /\ request' = NotYet /\ UNCHANGED <<brk, others, phantom>>

\* nu * sizeof(Header), an unsigned int, as the int that sbrk() takes.
Bytes(n) ==
  LET product == (n * HDR) % WORD IN
  IF product < WORD \div 2 THEN product ELSE product - WORD

\* Where the heap may end once sbrk() has given or taken some units.  If it
\* takes more than the heap has, the program's own memory goes (and with it
\* the program), or, if that is not enough either, nothing: sz + n wraps.
NewBrk(units) ==
  IF units > 0 /\ brk + units - 1 > LIMIT THEN {}
  ELSE {brk + units} \cup (IF brk + units < 1 THEN {brk} ELSE {})

(***************************************************************************)
(* morecore(): the new memory is freed, and the search goes on from freep. *)
(* If sbrk() has succeeded without giving n units, the header of a block   *)
(* that is not there is written where the heap ended, or this is a fault.  *)
(***************************************************************************)
MallocMore ==
  LET n == IF Units(request) < NU THEN NU ELSE Units(request)
      ends == NewBrk(Bytes(n) \div HDR) IN
  /\ request # NotYet /\ \A p \in Free : ~Fits(p)
  /\ \/ /\ ends = {} /\ request' = NotYet
        /\ UNCHANGED <<freep, ptr, size, brk, phantom>>
     \/ /\ brk + n \in ends
        /\ free(brk, n) /\ brk' = brk + n
        /\ UNCHANGED <<request, phantom>>
     \/ /\ brk' \in ends \ {brk + n}
        /\ phantom' = TRUE
        /\ UNCHANGED <<freep, ptr, size, request>>
  /\ UNCHANGED <<allocated, sizes, others>>

\* The program calls sbrk() itself.
Sbrk(n) ==
  /\ request = NotYet /\ brk + n - 1 <= LIMIT
  /\ others' = others \cup brk..brk + n - 1 /\ brk' = brk + n
  /\ UNCHANGED <<freep, ptr, size, allocated, sizes, request, phantom>>

Next ==
  /\ ~phantom
  /\ \/ \E nbytes \in Requests : Malloc(nbytes)
     \/ MallocFits \/ MallocMore
     \/ \E bp \in DOMAIN sizes : FreeBlock(bp)
     \/ \E n \in Gaps : Sbrk(n)

Spec == Init /\ [][Next]_vars

-----------------------------------------------------------------------------
Extent(a, n) == a..a + n - 1
Owners(a) ==
  Cardinality({<<"free", p>> : p \in {q \in Free : a \in Extent(q, size[q])}}
              \cup {<<"used", p>> : p \in {q \in DOMAIN sizes :
                                             a \in Extent(q, sizes[q])}}
              \cup {<<"other", b>> : b \in others \cap {a}})
RingExact ==
  /\ \A p \in Free :
       ptr[p] = LET above == {q \in Free : q > p} IN
                IF above = {} THEN Base
                ELSE CHOOSE q \in above : \A r \in above : q <= r
  /\ \A a \in Addresses : Owners(a) = IF a < brk THEN 1 ELSE 0
  /\ \A p \in Free : p + size[p] \notin Free \/ size[p] = 0
  /\ \A b \in DOMAIN sizes :
       allocated[b] + HDR - 1 < WORD =>
         (sizes[b] - 1) * HDR >= allocated[b]

(* After any sequence of calls, the ring goes through all free blocks in   *)
(* the order of their addresses, once; each unit of the heap is in one     *)
(* free block, or one that is in use, or somebody else's; no two free      *)
(* blocks touch; and a block in use has room for what was asked for,       *)
(* unless the request is so large that the count of units wraps.  This is  *)
(* so until a request comes whose bytes, with the header, are negative or  *)
(* 0 as an int; a smaller one never makes sbrk() give what was not asked.  *)
(* (the search and the joins of free(), the split of malloc(), morecore()) *)
FreeListExact ==
  IF phantom THEN Units(request) * HDR >= WORD \div 2 ELSE RingExact

=============================================================================
