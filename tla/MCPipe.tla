------------------------------- MODULE MCPipe -------------------------------
(* Instances of Pipe for TLC. *)
EXTENDS Pipe, TLC

\* More than a ring of two bytes has room for.
Strings == {<<"a", "b", "b">>}
=============================================================================
