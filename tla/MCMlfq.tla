------------------------------- MODULE MCMlfq -------------------------------
(* Instances of Mlfq for TLC. *)
EXTENDS Mlfq, TLC

CONSTANT MAXPRIO   \* bound: from above this level TLC looks no further

Symmetry == Permutations(CPUS)

\* Three levels; both tables decrease towards the top, as in the code.
MCTimeSlice == 0 :> 2 @@ 1 :> 1 @@ 2 :> 1
MCSlices == 0 :> 3 @@ 1 :> 2 @@ 2 :> 2

\* No property speaks of what follows once a slot was overwritten; and a
\* process may raise itself for ever, to be dispatched at any level.
BeforeOverrun == ~overrun
Bounded == BeforeOverrun /\ \A s \in Slots : priority[s] <= MAXPRIO
=============================================================================
