------------------------------ MODULE PipeFifo ------------------------------
(***************************************************************************)
(* What a pipe promises: a bounded queue of bytes with two ends.  Bytes    *)
(* come out in the order they went in, none lost, doubled or made up, and  *)
(* nothing is written any more once the write end is closed.  Module Pipe  *)
(* implements this specification.                                          *)
(***************************************************************************)
EXTENDS Naturals, Sequences

CONSTANTS
  Bytes,              \* what may be written
  Capacity            \* how many bytes the pipe holds

VARIABLES
  queue,              \* the bytes written and not read yet
  got,                \* what the last read returned
  ends                \* the ends still open, a subset of {"r", "w"}

vars == <<queue, got, ends>>

Init == queue = <<>> /\ got = <<>> /\ ends = {"r", "w"}

\* Part of a write: k more bytes, whatever they are.
Put ==
  /\ "w" \in ends
  /\ \E k \in 1..Capacity - Len(queue) : \E s \in [1..k -> Bytes] :
       queue' = queue \o s
  /\ UNCHANGED <<got, ends>>

\* A read returns the oldest k bytes; none only from an empty queue that
\* nobody can write to any more, or on request.
Take(k) ==
  /\ "r" \in ends /\ k <= Len(queue)
  /\ got' = SubSeq(queue, 1, k)
  /\ queue' = SubSeq(queue, k + 1, Len(queue))
  /\ UNCHANGED ends

Close(e) ==
  /\ e \in ends
  /\ ends' = ends \ {e}
  /\ UNCHANGED <<queue, got>>

\* Bytes nobody will read are dropped with the pipe.
Drop ==
  /\ ends = {}
  /\ queue' = <<>>
  /\ UNCHANGED <<got, ends>>

Next ==
  \/ Put \/ Drop
  \/ \E k \in 0..Capacity : Take(k)
  \/ \E e \in {"r", "w"} : Close(e)

Spec == Init /\ [][Next]_vars
=============================================================================
