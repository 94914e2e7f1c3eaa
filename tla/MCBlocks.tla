------------------------------ MODULE MCBlocks ------------------------------
(* An instance of Blocks for TLC. *)
EXTENDS Blocks

\* Each process writes data of its own.
Mark(p) == 100 + p
=============================================================================
