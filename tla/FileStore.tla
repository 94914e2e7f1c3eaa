----------------------------- MODULE FileStore -----------------------------
(***************************************************************************)
(* What the file system promises for the contents of files, whatever the   *)
(* disk is made of and whenever the power fails: a linked file is a        *)
(* sequence of data; a write replaces some of it, within one block, by the *)
(* data of the writer, or appends to it; unlinking it is the only way to   *)
(* lose it; and nothing done to a file changes another.                    *)
(***************************************************************************)
EXTENDS Integers, Sequences

CONSTANTS Files, Data, BSIZE, MAXSIZE

VARIABLE file
vars == <<file>>

Init == file = [i \in Files |-> <<>>]

Overwrite(i, from, to, v) ==
  /\ 1 <= from /\ from <= to /\ to <= Len(file[i])
  /\ to - from < BSIZE
  /\ file' = [file EXCEPT ![i] = [u \in 1..Len(file[i]) |->
                IF u \in from..to THEN v ELSE file[i][u]]]

Extend(i, n, v) ==
  /\ Len(file[i]) + n <= MAXSIZE
  /\ file' = [file EXCEPT ![i] = file[i] \o [u \in 1..n |-> v]]

Remove(i) == file' = [file EXCEPT ![i] = <<>>]

Next ==
  \E i \in Files :
    \/ Remove(i)
    \/ \E v \in Data :
         \/ \E n \in 1..MAXSIZE : Extend(i, n, v)
         \/ \E from, to \in 1..MAXSIZE : Overwrite(i, from, to, v)

Spec == Init /\ [][Next]_vars

=============================================================================
