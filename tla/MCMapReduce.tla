---------------------------- MODULE MCMapReduce -----------------------------
(* An instance of MapReduce for TLC. *)
EXTENDS MapReduce

MCKeys == {"k", "l"}

\* Two short files.
MCShortFiles == <<<<"k", "l">>, <<"k">>>>
OneReducer == [k \in MCKeys |-> 0]
=============================================================================
