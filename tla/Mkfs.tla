-------------------------------- MODULE Mkfs --------------------------------
(***************************************************************************)
(* The builder of file system images, tools/mkfs.c: it goes through a tree *)
(* of directories once, and gives out inodes and blocks in that order.     *)
(*                                                                         *)
(* A tree is a sequence of entries: [name, dir, what], where "what" is the *)
(* tree below a directory, or the number of blocks of a file.  Images are  *)
(* as in Xfsck: a directory fits in its first block, a file has one direct *)
(* block and one in the indirect block.                                    *)
(***************************************************************************)
EXTENDS Integers, Sequences

CONSTANTS ninodes, nblocks, size

Root == 1
Free == [type |-> "free", nlink |-> 0, size |-> 0, direct |-> <<0>>,
         table |-> 0, indirect |-> <<0>>, entries |-> <<>>]

\* What is on the disk, and the next inode and block to give out.
Start == [inode |-> [i \in 0..ninodes - 1 |-> Free],
          freeinode |-> Root, freeblock |-> size - nblocks]

ialloc(s, type) ==
  [s EXCEPT !.inode[s.freeinode] = [Free EXCEPT !.type = type, !.nlink = 1],
            !.freeinode = @ + 1]

\* iappend() of an entry: a block for the first one.
Enter(s, i, name, inum) ==
  LET d == s.inode[i] new == d.direct[1] = 0 IN
  [s EXCEPT !.inode[i] =
              [d EXCEPT !.entries = Append(@, [name |-> name, inum |-> inum]),
                        !.direct = IF new THEN <<s.freeblock>> ELSE @,
                        !.size = 1],
            !.freeblock = IF new THEN @ + 1 ELSE @]

\* iappend() of a file's n blocks; the indirect block comes between.
Write(s, i, n) ==
  LET b == s.freeblock f == [s.inode[i] EXCEPT !.size = n] IN
  CASE n = 0 -> s
    [] n = 1 -> [s EXCEPT !.inode[i] = [f EXCEPT !.direct = <<b>>],
                          !.freeblock = b + 1]
    [] n = 2 -> [s EXCEPT !.inode[i] = [f EXCEPT !.direct = <<b>>,
                            !.table = b + 1, !.indirect = <<b + 2>>],
                          !.freeblock = b + 3]

\* add_dir(): the two first entries, and then what is in the tree, an inode
\* and its contents before the entry that names it.
RECURSIVE Fill(_, _, _)
Add(s, i, parent, tree) ==
  Fill(Enter(Enter(s, i, ".", i), i, "..", parent), i, tree)
Fill(s, i, tree) ==
  IF tree = <<>> THEN s
  ELSE LET e == Head(tree)
           child == s.freeinode
           made == ialloc(s, IF e.dir THEN "dir" ELSE "file")
           filled == IF e.dir THEN Add(made, child, i, e.what)
                              ELSE Write(made, child, e.what) IN
       Fill(Enter(filled, i, e.name, child), i, Tail(tree))

\* main(): all the blocks up to the last one given out are marked.
Image(tree) ==
  LET s == Add(ialloc(Start, "dir"), Root, Root, tree) IN
  [inode |-> s.inode, bitmap |-> 0..s.freeblock - 1,
   size |-> size, nblocks |-> nblocks]
=============================================================================
