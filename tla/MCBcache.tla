------------------------------ MODULE MCBcache ------------------------------
(* Instances of Bcache for TLC. *)
EXTENDS Bcache, TLC

\* The second sector changes, which a process may lock before or after others.
Versions == 1 :> {"old"} @@ 2 :> {"old", "new"} @@ 3 :> {"old"}
=============================================================================
