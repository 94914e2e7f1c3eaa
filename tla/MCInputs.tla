------------------------------ MODULE MCInputs ------------------------------
(* Images and trees for Xfsck and Mkfs, scripts for Sh and files for       *)
(* MapReduce.                                                              *)
EXTENDS Integers, Sequences, TLC

(* Images: inodes 0 to 3, data in blocks 2 to 4.                           *)

Entry(name, inum) == [name |-> name, inum |-> inum]
Unused == [type |-> "free", nlink |-> 0, size |-> 0, direct |-> <<0>>,
         table |-> 0, indirect |-> <<0>>, entries |-> <<>>]
Dir(b, nlink, entries) ==
  [Unused EXCEPT !.type = "dir", !.nlink = nlink, !.direct = <<b>>,
               !.entries = entries]
File(nlink) == [Unused EXCEPT !.type = "file", !.nlink = nlink]

\* Names: the root has two entries, the others one and any parent.
Others(b, links, selves, ups) ==
  {Unused} \cup {File(m) : m \in 1..2}
  \cup {Dir(b, m, <<Entry(".", d), Entry("..", up), Entry("x", x)>>) :
          m \in links, d \in selves, up \in ups, x \in 0..3}
Roots ==
  {Dir(2, 1, <<Entry(".", 1), Entry("..", up), Entry("x", x),
               Entry("y", 2)>>) :
     up \in {1, 2}, x \in 0..3}
Trees ==
  {[inode |-> 0 :> Unused @@ 1 :> top @@ 2 :> a @@ 3 :> b,
    bitmap |-> ({2, a.direct[1], b.direct[1]} \ {0}),
    size |-> 5, nblocks |-> 3] :
   top \in Roots, a \in Others(3, {1}, 1..2, 0..3) \cup Others(3, {2}, {2}, 0..3),
   b \in Others(4, {1}, {3}, 1..2)}

\* Blocks: two files with one direct address and one in an indirect block.
Small == {[File(1) EXCEPT !.direct = <<a>>, !.size = z] :
            a \in {0, 3, 4}, z \in 0..2}
Large == {[f EXCEPT !.table = 4, !.indirect = <<x>>] :
            f \in Small, x \in {0, 3, 5}}
Layouts ==
  {[inode |-> 0 :> Unused @@ 2 :> a @@ 3 :> b @@
      1 :> Dir(2, 1, <<Entry(".", 1), Entry("..", 1),
                       Entry("x", 2), Entry("y", 3)>>),
    bitmap |-> m, size |-> z, nblocks |-> z - 2] :
   a \in Small \cup Large \cup {[File(1) EXCEPT !.type = "bad"]},
   b \in Small, m \in {{2, 3}, {2, 3, 4}, {2, 4, 5}}, z \in {4, 5, 6}}

\* Of mkfs: trees of up to two files and directories, as far as they fit.
Named(name, dir, what) == [name |-> name, dir |-> dir, what |-> what]
Things(name, below) ==
  {Named(name, FALSE, m) : m \in 0..2} \cup {Named(name, TRUE, t) : t \in below}
Flat == {<<>>} \cup {<<e>> : e \in Things("x", {<<>>})}
Given == Flat \cup {<<e>> : e \in Things("x", Flat)}
         \cup {<<e, f>> : e \in Things("x", {<<>>}), f \in Things("y", {<<>>})}
Tool == INSTANCE Mkfs WITH ninodes <- 4, nblocks <- 7, size <- 9
Made == {Tool!Image(t) : t \in Given}

Families == <<Trees, Layouts, Made>>

-----------------------------------------------------------------------------
(* Scripts: all lines of one or two tokens, those of three that may begin  *)
(* with a program, and longer ones; one wants more processes than there    *)
(* are, and goes on in the background.                                     *)

Tokens == {"echo", "cat", "<", ">", "|", "&", ";", "(", ")"}
Short ==
  UNION {{<<s>> : s \in [1..m -> Tokens]} : m \in 1..2}
  \cup {<<s>> : s \in {t \in [1..3 -> Tokens] : t[1] \in {"echo", "("}}}
Deep ==
  <<"(", "(", "(", "(", "echo", ";", "echo", ")", ";", "echo", ")", ";",
    "echo", ")", ";", "echo", ")", "&">>
Long ==
  {<<<<"echo", "|", "cat", ">", "f">>>>,
   <<<<"cat", "|", "cat", "|", "cat">>>>,
   <<<<"(", "echo", "&", ")", "|", "cat">>>>,
   <<<<"echo", ">>", "cat", ">", "g", "|", "cat">>>>,
   <<<<"(", "echo", "|", "cat", ")", ">", "f", ";", "echo">>>>,
   <<<<"(", "echo", ";", "cat", "<", "f", ")", "|", "cat", "&">>>>,
   <<<<"echo", "|", "cat", "&">>, <<"cat", ">", "f", ";", "echo">>>>,
   <<<<"echo", "&">>, Deep, <<"echo">>>>,
   <<<<"cd", "echo">>, <<"echo", "&">>, <<"echo", "|", "x">>>>,
   <<<<"x", ";", "echo", ">", "f">>, <<"cat", "<", "f">>>>}

TypedScripts == <<Short, Long>>

-----------------------------------------------------------------------------
\* Four files: one of three mappers gets two, and a key occurs in several.
TextFiles == <<<<"k", "l">>, <<"l">>, <<"k">>, <<"k">>>>
=============================================================================
