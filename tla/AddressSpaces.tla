--------------------------- MODULE AddressSpaces ---------------------------
(***************************************************************************)
(* What virtual memory promises to processes: each has pages of its own,   *)
(* which nobody else changes, which are zero when they are new, a copy of  *)
(* the parent's after fork(), the program's after exec(), and which the    *)
(* process cannot write to while they are protected, nor can its child.    *)
(* What a system call stores for a process (a line that is read, a file's  *)
(* status) goes to any page that it has, protected or not.                 *)
(*                                                                         *)
(* told is what the last call of a process answered, if that was 0 for a   *)
(* change of the protection: just the pages it asked for have changed,     *)
(* unless it asked for more than addresses can say.                        *)
(***************************************************************************)
EXTENDS Integers

CONSTANTS
  Procs, PageNumbers,
  SPAN,              \* number of pages that an address can tell apart
  Hole,              \* a page number that is not mapped
  Data, Input,       \* contents of a page: any, any the kernel has stored,
  Zero, Text         \*   of a new one, of a program

VARIABLES image, told
vars == <<image, told>>

Page(d, w) == [data |-> d, w |-> w]
Nothing == [n \in PageNumbers |-> Hole]
Mapped(p) == {n \in PageNumbers : image[p][n] # Hole}
NewPages(d, S) ==
  [n \in PageNumbers |-> IF n \in S THEN Page(d, TRUE) ELSE Hole]

NoAnswer == [first |-> 0, len |-> 0, w |-> FALSE]
Pages(answer) == answer.first..answer.first + answer.len - 1
Wraps(answer) == answer.first + answer.len >= SPAN

Init ==
  /\ \E p \in Procs :
       image = [q \in Procs |-> IF q = p THEN NewPages(Text, {0}) ELSE Nothing]
  /\ told = [p \in Procs |-> NoAnswer]

Fork(p, q) ==
  /\ Mapped(p) # {} /\ Mapped(q) = {}
  /\ image' = [image EXCEPT ![q] = image[p]]
Exec(p) == \E n \in PageNumbers :
  image' = [image EXCEPT ![p] = NewPages(Text, 0..n)]
Grow(p) == \E n \in PageNumbers \ Mapped(p) :
  image' = [image EXCEPT ![p][n] = Page(Zero, TRUE)]
Shrink(p) == \E n \in Mapped(p) : image' = [image EXCEPT ![p][n] = Hole]
Exit(p) == image' = [image EXCEPT ![p] = Nothing]
Call(p) == UNCHANGED image

Store(p) == \E n \in Mapped(p), d \in Data :
  image[p][n].w /\ image' = [image EXCEPT ![p][n].data = d]
Deliver(p) == \E n \in Mapped(p), d \in Input :
  image' = [image EXCEPT ![p][n].data = d]

\* The pages S of p, and no others, may be written to from now on, or not.
Changes(p, S, w) ==
  image' = [image EXCEPT ![p] = [n \in PageNumbers |->
              IF n \in S THEN [@[n] EXCEPT !.w = w] ELSE @[n]]]
Protect(p) ==
  LET answer == told'[p] IN
  /\ told' = [told EXCEPT ![p] = answer] /\ answer # NoAnswer
  /\ \E S \in SUBSET Mapped(p) :
       /\ Changes(p, S, answer.w)
       /\ S = Mapped(p) \cap Pages(answer) \/ Wraps(answer)

Next ==
  \E p \in Procs :
    \/ /\ told' = [told EXCEPT ![p] = NoAnswer]
       /\ \/ Call(p) \/ Deliver(p) \/ Grow(p) \/ Shrink(p) \/ Exec(p) \/ Exit(p)
          \/ \E q \in Procs : Fork(p, q)
    \/ Store(p) /\ UNCHANGED told
    \/ Protect(p)

Spec == Init /\ [][Next]_vars

=============================================================================
