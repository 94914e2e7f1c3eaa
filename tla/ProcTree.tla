------------------------------ MODULE ProcTree ------------------------------
(***************************************************************************)
(* What the process table promises its users: a tree of processes rooted   *)
(* at init.  A live process may spawn a child into a free slot; it may die *)
(* (all but init), leaving its own children to init and itself as a zombie *)
(* until its parent collects it.  Nothing is said of locks, CPUs, sleeping *)
(* or scheduling: Proc implements this specification.                      *)
(***************************************************************************)
EXTENDS Naturals

CONSTANT NPROC                      \* number of slots of the process table

Slots == 1..NPROC
Init0 == 1                          \* the slot of initproc
Nobody == 0

VARIABLES
  life,                             \* life[s] \in {"free", "alive", "zombie"}
  elder                             \* elder[s]: the parent of s, or Nobody

vars == <<life, elder>>

Init ==
  /\ life = [s \in Slots |-> IF s = Init0 THEN "alive" ELSE "free"]
  /\ elder = [s \in Slots |-> Nobody]

\* fork(): a live process gets a child in a slot nobody uses.
Spawn(p, s) ==
  /\ life[p] = "alive" /\ life[s] = "free"
  /\ life' = [life EXCEPT ![s] = "alive"]
  /\ elder' = [elder EXCEPT ![s] = p]

\* exit(): the children of p now belong to init; p waits to be collected.
Die(p) ==
  /\ p # Init0 /\ life[p] = "alive"
  /\ life' = [life EXCEPT ![p] = "zombie"]
  /\ elder' = [s \in Slots |-> IF elder[s] = p THEN Init0 ELSE elder[s]]

\* wait(): a live parent collects one of its dead children.
Collect(p, z) ==
  /\ life[p] = "alive" /\ life[z] = "zombie" /\ elder[z] = p
  /\ life' = [life EXCEPT ![z] = "free"]
  /\ elder' = [elder EXCEPT ![z] = Nobody]

Next ==
  \/ \E p, s \in Slots : Spawn(p, s) \/ Collect(p, s)
  \/ \E p \in Slots : Die(p)

Spec == Init /\ [][Next]_vars
=============================================================================
