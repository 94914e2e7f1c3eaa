------------------------------ MODULE Terminal ------------------------------
(***************************************************************************)
(* What the console promises to those who type and those who read: a line  *)
(* that can be edited until it is ended, and the lines that have been      *)
(* ended, which readers take from the front, each character once.          *)
(***************************************************************************)
EXTENDS Naturals, Sequences

CONSTANTS
  Readers, Chars,
  NL, EOF,            \* characters that end a line, and a read
  Capacity

VARIABLES
  lines, line,        \* ended and not read yet; being edited
  got                 \* got[p]: what p's read has taken so far

vars == <<lines, line, got>>

Init == lines = <<>> /\ line = <<>> /\ got = [p \in Readers |-> <<>>]

Type(c) ==
  /\ Len(lines) + Len(line) < Capacity
  /\ IF c \in {NL, EOF} \/ Len(lines) + Len(line) + 1 = Capacity
     THEN lines' = lines \o Append(line, c) /\ line' = <<>>
     ELSE line' = Append(line, c) /\ UNCHANGED lines
  /\ UNCHANGED got

Erase ==
  /\ line # <<>> /\ line' = SubSeq(line, 1, Len(line) - 1)
  /\ UNCHANGED <<lines, got>>
KillLine == line' = <<>> /\ UNCHANGED <<lines, got>>

Read(p) == got' = [got EXCEPT ![p] = <<>>] /\ UNCHANGED <<lines, line>>

\* A reader takes characters up to the end of the line.
Take(p) == \E k \in 1..Len(lines) :
  /\ \A i \in 1..k : lines[i] # EOF /\ (lines[i] = NL => i = k)
  /\ got' = [got EXCEPT ![p] = @ \o SubSeq(lines, 1, k)]
  /\ lines' = SubSeq(lines, k + 1, Len(lines))
  /\ UNCHANGED line

\* The end of the file is for a reader that has got nothing.
End(p) ==
  /\ lines # <<>> /\ Head(lines) = EOF /\ got[p] = <<>>
  /\ lines' = Tail(lines) /\ UNCHANGED <<line, got>>

Next ==
  \/ \E c \in Chars : Type(c)
  \/ Erase \/ KillLine
  \/ \E p \in Readers : Read(p) \/ Take(p) \/ End(p)

Spec == Init /\ [][Next]_vars
=============================================================================
