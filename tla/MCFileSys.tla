----------------------------- MODULE MCFileSys -----------------------------
(* Instances of FileSys for TLC. *)
EXTENDS FileSys, TLC

\* A root with nothing in it; and one with a directory a, a file b in it.
Dir(n, e) == [type |-> "dir", nlink |-> n, ents |-> e @@ NoEntries]
File == [FreeInode EXCEPT !.type = "file", !.nlink = 1]
Empty ==
  [i \in Inums |-> IF i = Root THEN Dir(1, ".." :> Root) ELSE FreeInode]
Full ==
  [Empty EXCEPT ![1] = Dir(2, ".." :> 1 @@ "a" :> 2),
                ![2] = Dir(1, ".." :> 1 @@ "b" :> 3), ![3] = File]
Nested ==
  [Empty EXCEPT ![1] = Dir(2, ".." :> 1 @@ "a" :> 2),
                ![2] = Dir(2, ".." :> 1 @@ "b" :> 3),
                ![3] = Dir(1, ".." :> 2)]

Req(op, path) == [op |-> op, path |-> path, new |-> <<>>]
AllRequests ==
  {Req("open", <<"a">>), Req("open", <<"/", "a", "b">>),
   Req("create", <<"/", "a", "b">>), Req("mkdir", <<"a">>),
   Req("mkdir", <<"/", "a", "b">>), Req("mknod", <<"b">>),
   Req("unlink", <<"/", "a">>), Req("unlink", <<"/", "a", "b">>),
   Req("unlink", <<"..">>), Req("openw", <<"/">>),
   Req("chdir", <<"/", "a">>), Req("chdir", <<"b">>), Req("exec", <<"..", "b">>),
   [op |-> "link", path |-> <<"/", "a", "b">>, new |-> <<"/", "b">>],
   [op |-> "link", path |-> <<"b">>, new |-> <<"/", "a">>]}
\* Nested, with a process in /a/b, which has been removed.
Removed == [Nested EXCEPT ![2] = Dir(1, ".." :> 1), ![3] = Dir(0, ".." :> 2)]

CONSTANT Second
At1(d) == [disk |-> d, cwd |-> InitAlone, crashes |-> 0]
AllStarts ==
  {At1(Empty), At1(Full), At1(Nested),
   [disk |-> Removed, cwd |-> [InitAlone EXCEPT ![Second] = 3],
    crashes |-> MAXCRASH]}
=============================================================================
