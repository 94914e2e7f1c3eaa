------------------------------- MODULE Xfsck -------------------------------
(***************************************************************************)
(* The checker of file system images, "File System Checker/xfsck.c": one   *)
(* pass over the inode table (addresses, then the entries of directories), *)
(* one over the link counts, and the comparison of the counts at the end.  *)
(* The first complaint ends the program.                                   *)
(*                                                                         *)
(* A step deals with one inode, one address or one entry, and a walk to    *)
(* the root goes up one directory at a time.  Directories have no indirect *)
(* block here: for one that has, xfsck uses a pointer before it sets it.   *)
(* The counters of references come from malloc() and are never cleared:    *)
(* they are 0 as long as they are the first memory that malloc() gets.     *)
(***************************************************************************)
EXTENDS Integers, Sequences, FiniteSets

CONSTANTS
  Images,      \* the images looked at: a sequence of sets
  NINODES,     \* inodes are 0..NINODES-1; 0 is not used, 1 is the root
  MINSIZE      \* blocks that an image must have at least

Inums == 0..NINODES - 1
Root == 1

VARIABLES
  image,                   \* [inode, bitmap, size, nblocks]
  pc, i, j,                \* where the program is: inode, address or entry
  at,                      \* inode that a walk to the root has reached
  directAddrArray, indirectAddrArray,    \* the addresses seen
  used_datablock, count_db_inode,
  file_block_arr, dir_block_arr, dirPointedInodes,    \* references seen
  curAndpre_dir, badsize, exit_code,
  verdict

blockVars == <<directAddrArray, indirectAddrArray, used_datablock,
               count_db_inode, badsize>>
refVars == <<file_block_arr, dir_block_arr, dirPointedInodes, exit_code>>
vars == <<image, pc, i, j, at, blockVars, refVars, curAndpre_dir, verdict>>

Init ==
  /\ \E n \in DOMAIN Images : image \in Images[n]
  /\ pc = "inode" /\ i = 0 /\ j = 1 /\ at = 0
  /\ directAddrArray = {} /\ indirectAddrArray = {}
  /\ used_datablock = 0 /\ count_db_inode = 0 /\ badsize = FALSE
  /\ file_block_arr = [n \in Inums |-> 0]
  /\ dir_block_arr = [n \in Inums |-> 0]
  /\ dirPointedInodes = [n \in Inums |-> 0]
  /\ curAndpre_dir = 0 /\ exit_code = 0 /\ verdict = "none"

Ino == image.inode[i]
Exit(v) == pc' = "done" /\ verdict' = v
Go(l) == pc' = l /\ UNCHANGED verdict

-----------------------------------------------------------------------------
(* The pass over the inode table: addresses.                               *)

Inode ==
  /\ pc = "inode"
  /\ IF i = NINODES
     THEN Go("links") /\ i' = 0 /\ UNCHANGED <<j, used_datablock>>
     ELSE CASE Ino.type \notin {"free", "file", "dir", "dev"} ->
                 Exit("bad inode") /\ UNCHANGED <<i, j, used_datablock>>
            [] Ino.type = "free" ->
                 i' = i + 1 /\ UNCHANGED <<pc, verdict, j, used_datablock>>
            [] OTHER ->
                 Go("address") /\ j' = 1 /\ used_datablock' = 0 /\ UNCHANGED i
  /\ UNCHANGED <<image, at, directAddrArray, indirectAddrArray, count_db_inode,
                 badsize, refVars, curAndpre_dir>>

\* Addresses of an inode in the order they are looked at: direct ones, the
\* indirect block, and what is in it (block 0 has zeros).
Addrs(n) ==
  n.direct \o <<n.table>> \o IF n.table = 0 THEN <<>> ELSE n.indirect
Bad(a) == a < image.size - image.nblocks \/ a > image.size - 1

\* The indirect block itself is counted, but neither its range nor its bit
\* is looked at.
Address ==
  LET a == Addrs(Ino)[j]
      direct == j <= Len(Ino.direct)
      table == j = Len(Ino.direct) + 1
      seen == IF direct THEN directAddrArray ELSE indirectAddrArray
      wrong == IF ~table /\ Bad(a) THEN "bad address"
               ELSE IF ~table /\ a \notin image.bitmap THEN "marked free"
               ELSE IF a \in seen THEN "used more than once" ELSE "nothing" IN
  /\ pc = "address" /\ j <= Len(Addrs(Ino))
  /\ IF a = 0 \/ wrong = "nothing"
     THEN j' = j + 1 /\ UNCHANGED <<pc, verdict>>
     ELSE Exit(wrong) /\ UNCHANGED j
  /\ IF a # 0 /\ wrong = "nothing"
     THEN /\ used_datablock' = used_datablock + (IF table THEN 0 ELSE 1)
          /\ count_db_inode' = count_db_inode + 1
          /\ directAddrArray' = directAddrArray \cup IF direct THEN {a} ELSE {}
          /\ indirectAddrArray' =
               indirectAddrArray \cup IF direct THEN {} ELSE {a}
     ELSE UNCHANGED <<directAddrArray, indirectAddrArray, used_datablock,
                      count_db_inode>>
  /\ UNCHANGED <<image, i, at, badsize, refVars, curAndpre_dir>>

\* Sizes count in blocks, rounded up.
Sized ==
  /\ pc = "address" /\ j > Len(Addrs(Ino))
  /\ badsize' = (\/ badsize
                 \/ /\ Ino.type = "file" /\ Ino.size # 0
                    /\ Ino.size # used_datablock)
  /\ IF Ino.type = "dir"
     THEN Go("entry") /\ j' = 1 /\ curAndpre_dir' = 0 /\ UNCHANGED i
     ELSE Go("inode") /\ i' = i + 1 /\ UNCHANGED <<j, curAndpre_dir>>
  /\ UNCHANGED <<image, at, directAddrArray, indirectAddrArray, used_datablock,
                 count_db_inode, refVars>>

-----------------------------------------------------------------------------
(* The pass over the inode table: entries of a directory.                  *)

Type(n) == image.inode[n].type
Dots == {".", ".."}
Cur == Ino.entries[j]

\* The entry names a directory that is not this one's parent.
Entry ==
  LET e == Cur named == e.name \notin Dots IN
  /\ pc = "entry" /\ j <= Len(Ino.entries)
  /\ ~(e.name = ".." /\ e.inum # 0 /\ Type(e.inum) = "dir")
  /\ IF e.inum # 0 /\ Type(e.inum) = "dir" /\ e.name = "." /\ e.inum # i
     THEN Exit("not properly formatted")
     ELSE IF e.inum # 0 /\ Type(e.inum) = "dir" /\ named
               /\ dir_block_arr[e.inum] >= 1
     THEN Exit("appears more than once")
     ELSE IF e.inum # 0 /\ Type(e.inum) = "free"
     THEN Exit("marked free")
     ELSE Go("counted")
  /\ UNCHANGED <<image, i, j, at, blockVars, refVars, curAndpre_dir>>

\* "..": a walk to the root, unless the root is the parent.
Up ==
  LET e == Cur IN
  /\ pc = "entry" /\ j <= Len(Ino.entries)
  /\ e.name = ".." /\ e.inum # 0 /\ Type(e.inum) = "dir"
  /\ Go(IF e.inum = Root THEN "parent" ELSE "walk") /\ at' = e.inum
  /\ UNCHANGED <<image, i, j, blockVars, refVars, curAndpre_dir>>

\* Entries that a walk can read in an inode.
EntriesOf(n) ==
  LET S == image.inode[n].entries IN {S[m] : m \in DOMAIN S}
Above(n) == {e.inum : e \in {d \in EntriesOf(n) : d.name = ".."}}

\* Only the inode that the walk began at is marked as visited, so that a
\* ring elsewhere, or an inode without "..", keeps the walk going for ever.
Walk ==
  /\ pc = "walk"
  /\ \/ \E up \in Above(at) :
          \/ up = Root /\ Go("parent") /\ UNCHANGED at
          \/ up # Root /\ up = i /\ Exit("inaccessible") /\ UNCHANGED at
          \/ up \notin {Root, i} /\ at' = up /\ UNCHANGED <<pc, verdict>>
     \/ Above(at) = {} /\ UNCHANGED <<at, pc, verdict>>
  /\ UNCHANGED <<image, i, j, blockVars, refVars, curAndpre_dir>>

\* The parent must have an entry, of any name, for this directory.
Parent ==
  /\ pc = "parent"
  /\ IF \E e \in EntriesOf(Cur.inum) : e.inum = i
     THEN Go("counted") ELSE Exit("parent mismatch")
  /\ UNCHANGED <<image, i, j, at, blockVars, refVars, curAndpre_dir>>

\* Variant: "." and ".." count as references.
Count_Dots ==
  LET e == Cur n == e.inum IN
  /\ pc = "counted" /\ Go("entry") /\ j' = j + 1
  /\ dirPointedInodes' = [dirPointedInodes EXCEPT ![n] = @ + 1]
  /\ file_block_arr' = [file_block_arr EXCEPT ![n] =
                          IF Type(n) = "file" THEN @ + 1 ELSE @]
  /\ UNCHANGED dir_block_arr
  /\ curAndpre_dir' = curAndpre_dir + IF e.name \in Dots THEN 1 ELSE 0
  /\ exit_code' = IF e.name = "." /\ n # i THEN 1 ELSE exit_code
  /\ UNCHANGED <<image, i, at, blockVars>>

Count ==
  LET e == Cur
      n == e.inum
      Plus(f, yes) == IF n # 0 /\ yes THEN [f EXCEPT ![n] = @ + 1] ELSE f
      named == e.name \notin Dots IN
  /\ pc = "counted" /\ Go("entry") /\ j' = j + 1
  /\ file_block_arr' = Plus(file_block_arr, Type(n) = "file")
  /\ dir_block_arr' = Plus(dir_block_arr, Type(n) = "dir" /\ named)
  /\ dirPointedInodes' = Plus(dirPointedInodes, named)
  /\ curAndpre_dir' = curAndpre_dir + IF named THEN 0 ELSE 1
  /\ exit_code' = IF e.name = "." /\ n # i THEN 1 ELSE exit_code
  /\ UNCHANGED <<image, i, at, blockVars>>

Formatted ==
  /\ pc = "entry" /\ j > Len(Ino.entries)
  /\ IF curAndpre_dir # 2 THEN Exit("not properly formatted") /\ UNCHANGED i
     ELSE Go("inode") /\ i' = i + 1
  /\ UNCHANGED <<image, j, at, blockVars, refVars, curAndpre_dir>>

-----------------------------------------------------------------------------
(* The pass over the link counts, and the end.                             *)

Links ==
  /\ pc = "links" /\ i < NINODES
  /\ IF i \notin {0, Root} /\ dirPointedInodes[i] < 1 /\ Ino.type # "free"
     THEN Exit("not found in a directory") /\ UNCHANGED i
     ELSE IF Ino.type = "file" /\ file_block_arr[i] # Ino.nlink
     THEN Exit("bad reference count") /\ UNCHANGED i
     ELSE IF Ino.type = "dir" /\ Ino.nlink # 1
     THEN Exit("appears more than once") /\ UNCHANGED i
     ELSE i' = i + 1 /\ UNCHANGED <<pc, verdict>>
  /\ UNCHANGED <<image, j, at, blockVars, refVars, curAndpre_dir>>

DataBlocks == image.size - image.nblocks..image.size - 1

Finish ==
  /\ pc = "links" /\ i = NINODES
  /\ Exit(IF image.size < MINSIZE THEN "superblock is corrupted"
          ELSE IF count_db_inode < Cardinality(image.bitmap \cap DataBlocks)
          THEN "marks block in use"
          ELSE IF badsize THEN "incorrect file size"
          ELSE IF exit_code = 1 THEN "not properly formatted"
          ELSE "clean")
  /\ UNCHANGED <<image, i, j, at, blockVars, refVars, curAndpre_dir>>

Next ==
  \/ Inode \/ Address \/ Sized
  \/ Entry \/ Up \/ Walk \/ Parent \/ Count \/ Formatted
  \/ Links \/ Finish

Spec == Init /\ [][Next]_vars /\ WF_vars(Next)

-----------------------------------------------------------------------------
(* What an image is, without regard to the way xfsck goes through it.      *)

Used(s) == {n \in Inums : image.inode[n].type \in s}
Dirs == Used({"dir"})
AllUsed == Used({"file", "dir", "dev"})

\* Places of entries that name inode n, "." and ".." apart.
Names(n) ==
  {x \in Dirs \X (1..4) :
     LET E == image.inode[x[1]].entries IN
     x[2] \in DOMAIN E /\ E[x[2]].inum = n /\ E[x[2]].name \notin Dots}
Below(S) == {n \in Inums : \E x \in Names(n) : x[1] \in S}
Reached[m \in Nat] ==
  IF m = 0 THEN {Root} ELSE Reached[m - 1] \cup Below(Reached[m - 1])
Connected == AllUsed \subseteq Reached[NINODES]

\* ".." of every directory is a directory, of the root itself.
ParentsAreDirs ==
  \A d \in Dirs :
    /\ Above(d) \subseteq IF d = Root THEN {Root} ELSE Dirs
    /\ Above(d) # {}

\* Places of addresses: of data, and of indirect blocks.
Places(f(_)) == UNION {{<<n, m>> : m \in DOMAIN f(n)} : n \in AllUsed}
Direct(n) == SelectSeq(image.inode[n].direct, LAMBDA a : a # 0)
Indirect(n) ==
  SelectSeq(Tail(Addrs([image.inode[n] EXCEPT !.direct = <<>>])),
            LAMBDA a : a # 0)
Tables == {n \in AllUsed : image.inode[n].table # 0}
Blocks(f(_)) == {f(x[1])[x[2]] : x \in Places(f)}
TableBlocks == {image.inode[n].table : n \in Tables}
Once(f(_)) == Cardinality(Blocks(f)) = Cardinality(Places(f))
Apart ==
  /\ Blocks(Direct) \cap (Blocks(Indirect) \cup TableBlocks) = {}
  /\ TableBlocks \subseteq image.bitmap \cap DataBlocks
BlocksOnce ==
  /\ Once(Direct) /\ Once(Indirect) /\ Blocks(Indirect) \cap TableBlocks = {}
  /\ Cardinality(TableBlocks) = Cardinality(Tables)
BlocksExact ==
  image.bitmap \cap DataBlocks =
    Blocks(Direct) \cup Blocks(Indirect) \cup TableBlocks

SizesRight ==
  \A n \in Used({"file"}) :
    image.inode[n].size \in {0, Len(Direct(n)) + Len(Indirect(n))}

(* An image that xfsck calls clean has no address used twice among the     *)
(* direct ones nor among the others, none outside of the data or marked    *)
(* free; its bitmap is exact, if no block is both direct and indirect and  *)
(* the indirect blocks are marked; files have as many links as entries,    *)
(* and directories one; and everything can be reached by name from the     *)
(* root, if the ".." of directories are directories and the root's is the  *)
(* root.  xfsck misses what the two "if" leave out.                        *)
(* (the passes of main(), and their counts)                                *)
CleanIsSound ==
  verdict = "clean" =>
    /\ BlocksOnce /\ (Apart => BlocksExact) /\ SizesRight
    /\ Blocks(Direct) \cup Blocks(Indirect)
         \subseteq image.bitmap \cap DataBlocks
    /\ \A n \in Dirs \ {Root} : Cardinality(Names(n)) = 1
    /\ ParentsAreDirs =>
         /\ Connected
         /\ \A n \in Used({"file"}) :
              image.inode[n].nlink = Cardinality(Names(n))

(* xfsck complains about no image that has nothing wrong in it.            *)
(* (every exit(1) of main())                                               *)
Consistent ==
  /\ Used({"bad"}) = {} /\ image.size >= MINSIZE
  /\ BlocksOnce /\ Apart /\ BlocksExact /\ SizesRight
  /\ Connected /\ ParentsAreDirs /\ Root \in Dirs
  /\ \A d \in Dirs :
       LET E == image.inode[d].entries IN
       /\ \E e \in EntriesOf(d) : e = [name |-> ".", inum |-> d]
       /\ Cardinality({m \in DOMAIN E : E[m].name \in Dots}) = 2
       /\ \A e \in EntriesOf(d) : e.inum # 0 => e.inum \in AllUsed
       /\ image.inode[d].nlink = 1
       /\ IF d = Root THEN Names(d) = {}
          ELSE /\ Cardinality(Names(d)) = 1
               /\ Above(d) = {x[1] : x \in Names(d)}
  /\ \A n \in Used({"file"}) :
       image.inode[n].nlink = Cardinality(Names(n))
ConsistentIsClean == pc = "done" /\ Consistent => verdict = "clean"

(* xfsck ends, or walks for ever: only from a directory whose ".." leads   *)
(* neither to the root nor back to it, but into a ring elsewhere or to an  *)
(* inode without "..", and if nothing before it was wrong.                 *)
(* (while (find_root == 0))                                                *)
Ancestors[m \in Nat, d \in Inums] ==
  IF m = 0 THEN Above(d)
  ELSE LET B == Ancestors[m - 1, d] \ {Root, d} IN
       Ancestors[m - 1, d] \cup UNION {Above(n) : n \in B}
Endless == pc = "walk" /\ Ancestors[NINODES, i] \cap {Root, i} = {}
Ends == <>(pc = "done" \/ Endless)

=============================================================================
