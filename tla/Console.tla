------------------------------ MODULE Console ------------------------------
(***************************************************************************)
(* The console's input (kernel/console.c): a ring that the interrupts of   *)
(* keyboard and serial line fill and edit, and that processes read.        *)
(*                                                                         *)
(* input.lock makes a step of what a handler does to one character, and of *)
(* what consoleread() takes; but not of its test of killed and its sleep(),*)
(* as kill() does not need that lock.  The three counters are unsigned and *)
(* wrap at WRAP.                                                           *)
(***************************************************************************)
EXTENDS Integers, Sequences, FiniteSets

CONSTANTS
  Procs,
  Keys,            \* what is typed: members of KeyNames
  INPUT_BUF,       \* size of the ring, 128 in the code
  WRAP,            \* where the counters wrap, 2^32
  Sizes            \* arguments of read()

RingAssumption ==
  /\ INPUT_BUF \in Nat \ {0} /\ WRAP % INPUT_BUF = 0 /\ WRAP > INPUT_BUF

KeyNames == {"x", "y", "CR", "NL", "^D", "^H", "^U"}

VARIABLES
  buf, r, w, e,       \* input; r, w, e are the indices
  pc,                 \* "user", "read", "rsleep", or "going" to sleep
  left, taken,        \* read(): bytes still wanted, any taken
  got,                \* history: what the last read() of a process has taken
  killed

inputVars == <<buf, r, w, e>>
readVars == <<left, taken, got>>
vars == <<inputVars, pc, readVars, killed>>

Init ==
  /\ buf = [i \in 0..INPUT_BUF - 1 |-> "junk"] /\ r = 0 /\ w = 0 /\ e = 0
  /\ pc = [p \in Procs |-> "user"]
  /\ left = [p \in Procs |-> 0] /\ taken = [p \in Procs |-> FALSE]
  /\ got = [p \in Procs |-> <<>>]
  /\ killed = [p \in Procs |-> FALSE]

Minus(a, b) == (a - b) % WRAP
Goto(p, l) == pc' = [pc EXCEPT ![p] = l]

\* input.lock is kept only by a process on its way into sleep().
Unlocked == \A p \in Procs : pc[p] # "going"

\* wakeup(&input.r)
Woken == [p \in Procs |-> IF pc[p] = "rsleep" THEN "read" ELSE pc[p]]

-----------------------------------------------------------------------------
(* consoleintr()                                                           *)

Typed(c) == IF c = "CR" THEN "NL" ELSE c

Ends(c) == c \in {"NL", "^D"} \/ Minus(e + 1, r) = INPUT_BUF

Key(c) ==
  /\ Unlocked /\ c \notin {"^H", "^U"} /\ Minus(e, r) < INPUT_BUF
  /\ buf' = [buf EXCEPT ![e % INPUT_BUF] = Typed(c)]
  /\ e' = (e + 1) % WRAP
  /\ IF Ends(Typed(c))
     THEN w' = e' /\ pc' = Woken ELSE UNCHANGED <<w, pc>>
  /\ UNCHANGED <<r, readVars, killed>>

\* Variant: what has been ended can be edited.
Backspace_Any ==
  /\ Unlocked /\ e # r /\ e' = Minus(e, 1)
  /\ UNCHANGED <<buf, r, w, pc, readVars, killed>>
Backspace ==
  /\ Unlocked /\ e # w /\ e' = Minus(e, 1)
  /\ UNCHANGED <<buf, r, w, pc, readVars, killed>>

\* Back to the last end of a line, or to what has been ended.
KillLine ==
  /\ Unlocked
  /\ \E k \in 0..Minus(e, w) :
       /\ e' = Minus(e, k)
       /\ \A i \in 1..k : buf[Minus(e, i) % INPUT_BUF] # "NL"
       /\ k = Minus(e, w) \/ buf[Minus(e, k + 1) % INPUT_BUF] = "NL"
  /\ UNCHANGED <<buf, r, w, pc, readVars, killed>>

-----------------------------------------------------------------------------
(* consoleread()                                                           *)

Read(p, n) ==
  /\ pc[p] = "user" /\ ~killed[p] /\ Goto(p, IF n > 0 THEN "read" ELSE "user")
  /\ left' = [left EXCEPT ![p] = n] /\ taken' = [taken EXCEPT ![p] = FALSE]
  /\ got' = [got EXCEPT ![p] = <<>>]
  /\ UNCHANGED <<inputVars, killed>>

\* What may be read, from r up to w.
Content == [i \in 1..Minus(w, r) |-> buf[(r + i - 1) % INPUT_BUF]]

\* Nothing to read: test killed, and only then go into sleep().
ReadWaits(p) ==
  /\ pc[p] = "read" /\ Unlocked /\ r = w
  /\ Goto(p, IF killed[p] THEN "user" ELSE "going")
  /\ UNCHANGED <<inputVars, readVars, killed>>

\* sleep() takes ptable.lock, releases input.lock and is asleep.
ReadSleeps(p) ==
  /\ pc[p] = "going" /\ Goto(p, "rsleep")
  /\ UNCHANGED <<inputVars, readVars, killed>>

\* Up to a newline, an end of file or n characters, or all there is.  The
\* end of file stays for the next read() if this one has got something.
ReadTakes(p) ==
  /\ pc[p] = "read" /\ Unlocked /\ r # w
  /\ \E m \in 1..Len(Content) :
       LET eof == Content[m] = "^D"
           k == IF eof THEN m - 1 ELSE m
           keep == eof /\ (taken[p] \/ k > 0) IN
       /\ \A i \in 1..m - 1 : Content[i] \notin {"NL", "^D"}
       /\ k <= left[p] /\ m - 1 < left[p]
       /\ \/ Content[m] \in {"NL", "^D"} \/ m \in {left[p], Len(Content)}
       /\ r' = (r + IF keep THEN k ELSE m) % WRAP
       /\ got' = [got EXCEPT ![p] = @ \o SubSeq(Content, 1, k)]
       /\ taken' = [taken EXCEPT ![p] = @ \/ k > 0]
       /\ left' = [left EXCEPT ![p] = @ - k]
       /\ Goto(p, IF eof \/ Content[m] = "NL" \/ k = left[p] THEN "user"
                  ELSE "read")
  /\ UNCHANGED <<buf, w, e, killed>>

-----------------------------------------------------------------------------
(* kill(), and the exit of who has been killed.                            *)

\* kill(): whoever sleeps goes on; whoever is about to sleep, does.
Kill(p) ==
  /\ ~killed[p] /\ killed' = [killed EXCEPT ![p] = TRUE]
  /\ Goto(p, IF pc[p] = "rsleep" THEN "read" ELSE pc[p])
  /\ UNCHANGED <<inputVars, readVars>>

\* A killed process exits, and another takes its place.
Exit(p) ==
  /\ pc[p] = "user" /\ killed[p] /\ killed' = [killed EXCEPT ![p] = FALSE]
  /\ UNCHANGED <<inputVars, pc, readVars>>

Next ==
  \/ \E c \in Keys : Key(c)
  \/ Backspace \/ KillLine
  \/ \E p \in Procs :
       \/ \E n \in Sizes : Read(p, n)
       \/ ReadWaits(p) \/ ReadSleeps(p) \/ ReadTakes(p)
       \/ Kill(p) \/ Exit(p)

Spec == Init /\ [][Next]_vars

-----------------------------------------------------------------------------
(* A reader sleeps, or is about to, only while nothing has been ended that *)
(* it could take, also when another one has put an end of file back.  (It  *)
(* may have been killed: between its test and its sleep(), it stays until  *)
(* the next end of a line.)                                                *)
(* (consoleread, consoleintr, kill)                                        *)
ReadersWait == \A p \in Procs : pc[p] \in {"going", "rsleep"} => r = w

(* Readers and typists see a Terminal.                                     *)
Abstract == INSTANCE Terminal WITH
  Readers <- Procs, Chars <- {Typed(c) : c \in Keys}, NL <- "NL",
  EOF <- "^D", Capacity <- INPUT_BUF,
  lines <- Content,
  line <- [i \in 1..Minus(e, w) |-> buf[(w + i - 1) % INPUT_BUF]]
ImplementsTerminal == Abstract!Spec

=============================================================================
