--------------------------- MODULE FileDisk_proofs ---------------------------
(***************************************************************************)
(* Proofs about FileSys: the disk is a tree of directories with counts     *)
(* that are high enough, and what is used is allocated.                    *)
(***************************************************************************)
EXTENDS FileLocks_proofs, WellFoundedInduction

-----------------------------------------------------------------------------
(* The inductive invariant: pointers.                                      *)

\* Inode i is allocated, and nobody frees it.
Alive(i) ==
  /\ disk[i].type # "free"
  /\ \A p \in Procs : k[p].pc \in {"trunc", "free"} => k[p].drop # i

\* The process of frame f may use i.
Uses(f, i) ==
  f.ip = i \/ f.dp = i \/ f.src = i \/ (f.drop = i /\ f.pc = "put")

Filed(i) == \E g \in 1..NFILE : ftable[g].ref > 0 /\ ftable[g].ip = i

AliveOK ==
  /\ \A i \in Inums : Filed(i) => Alive(i)
  /\ \A p \in Procs :
       /\ cwd[p] # Null => Alive(cwd[p])
       /\ \A i \in Inums : Uses(k[p], i) => Alive(i)
       /\ k[p].dp # Null => disk[k[p].dp].type = "dir"
       /\ k[p].src # Null => disk[k[p].src].type # "dir"

\* Nobody else has the inode that the call of p has allocated.
New(p) ==
  LET i == k[p].ip IN
  /\ disk[i].nlink = 0 /\ k[p].dp # i /\ ~Filed(i)
  /\ \A q \in Procs : cwd[q] # i /\ (q # p => ~Uses(k[q], i))

\* It is empty, and is what it will be.
InMaking == {"init", "dots", "dots2", "enter"}
Blank(p) ==
  LET f == k[p] IN
  /\ disk[f.ip].type = TypeMade(f.op) /\ f.name \in Names
  /\ \A n \in Names : disk[f.ip].ents[n] = Null
  /\ f.pc # "init" => disk[f.ip].nlink = 1
  /\ f.pc \in {"dots", "dots2"} => f.op = "mkdir"
  /\ f.pc = "enter" /\ f.op = "mkdir" => disk[f.ip].ents[".."] = f.dp

\* The entry that unlink() will erase is still there.
Found(p) ==
  k[p].name \in Names /\ disk[k[p].dp].ents[k[p].name] = k[p].ip

CallOK(p) ==
  /\ k[p].pc = "init" => New(p)
  /\ k[p].pc \in InMaking => Blank(p)
  /\ k[p].pc = "unlink" => Found(p)
  /\ k[p].pc \in Dropping => k[p].back \notin InMaking \cup {"unlink"}

-----------------------------------------------------------------------------
(* The inductive invariant: the disk.                                      *)

\* What the process of frame f has counted on disk d, by the variable that
\* points to it, and no entry stands for yet, or any more.
Owes(d, f, v) ==
  \/ v = "ip" /\ Place(f) \in {"dots", "dots2", "enter", "erased", "unlinked"}
  \/ v = "dp" /\ f.op = "mkdir" /\ Place(f) \in {"dots2", "enter"}
  \/ v = "dp" /\ Place(f) = "erased" /\ d[f.ip].type = "dir"
  \/ v = "src" /\ Place(f) \in {"walk", "go", "exists", "bad"}
Owed == Procs \X {"ip", "dp", "src"}
Owing(d, frames, i) ==
  {x \in Owed : Owes(d, frames[x[1]], x[2]) /\ frames[x[1]][x[2]] = i}

\* The count of inode i that is due on disk d.
Due(d, i) ==
  Cardinality(NamedOn(d, i)) + Cardinality(BelowOn(d, i)) + Is(i, Root)

CountsOK ==
  \A i \in Inums :
    disk[i].nlink >= Due(disk, i) + Cardinality(Owing(disk, k, i))
FreeOK == \A i \in Inums : disk[i].type = "free" => disk[i].nlink = 0

\* The entry .. of a directory is the one that names it, and there is an end
\* to going down.
TreeOK ==
  /\ disk[Root].type = "dir" /\ disk[Root].ents[".."] = Root
  /\ \A x \in DirsOn(disk) : \A n \in BelowOn(disk, x) :
       disk[disk[x].ents[n]].ents[".."] = x
Deepens(d, depth) ==
  \A x \in DirsOn(d) : \A n \in BelowOn(d, x) :
    depth[d[x].ents[n]] > depth[x]
DepthOK == \E B \in Nat : \E depth \in [Inums -> 0..B] : Deepens(disk, depth)

\* The kernel stops for want of inodes only.
PanicOK == panicked \in {"no", "iget: no inodes", "ialloc: no inodes"}

DiskOK ==
  /\ CountsOK /\ FreeOK /\ TreeOK /\ DepthOK /\ AliveOK /\ PanicOK
  /\ \A p \in Procs : CallOK(p)
DiskInv == LocksInv /\ (~strayed => DiskOK)

-----------------------------------------------------------------------------
(* Counts.                                                                 *)

\* What is counted is finite.
LEMMA CountsFinite ==
  ASSUME NEW d, NEW i
  PROVE  /\ IsFiniteSet(NamedOn(d, i)) /\ Cardinality(NamedOn(d, i)) \in Nat
         /\ IsFiniteSet(BelowOn(d, i)) /\ Cardinality(BelowOn(d, i)) \in Nat
         /\ Due(d, i) \in Nat
<1>1. IsFiniteSet(DirsOn(d))
  <2>1. IsFiniteSet(Inums)
    BY NumberAssumption, FS_Interval DEF Inums
  <2> QED BY <2>1, FS_Subset DEF DirsOn
<1>2. IsFiniteSet(DirsOn(d) \X Names)
  BY <1>1, NameAssumption, FS_Product
<1>3. IsFiniteSet(NamedOn(d, i)) /\ IsFiniteSet(BelowOn(d, i))
  BY <1>2, NameAssumption, FS_Subset DEF NamedOn, BelowOn
<1>4. Cardinality(NamedOn(d, i)) \in Nat /\ Cardinality(BelowOn(d, i)) \in Nat
  BY <1>3, FS_CardinalityType
<1> QED BY <1>3, <1>4 DEF Due, Is

\* And what is owed.
LEMMA OwingFinite ==
  ASSUME NEW d, NEW frames, NEW i
  PROVE  /\ IsFiniteSet(Owing(d, frames, i))
         /\ Cardinality(Owing(d, frames, i)) \in Nat
<1>1. IsFiniteSet({"ip", "dp", "src"})
  <2>1. IsFiniteSet({"ip"})
    BY FS_Singleton
  <2>2. IsFiniteSet({"ip"} \cup {"dp"})
    BY <2>1, FS_AddElement
  <2>3. IsFiniteSet(({"ip"} \cup {"dp"}) \cup {"src"})
    BY <2>2, FS_AddElement
  <2>4. {"ip", "dp", "src"} = ({"ip"} \cup {"dp"}) \cup {"src"}
    OBVIOUS
  <2> QED BY <2>3, <2>4, Zenon
<1>2. IsFiniteSet(Owed)
  BY <1>1, ProcAssumption, FS_Product DEF Owed
<1>3. IsFiniteSet(Owing(d, frames, i))
  BY <1>2, FS_Subset DEF Owing
<1> QED BY <1>3, FS_CardinalityType

\* What an entry names, or a call owes, has a link.
LEMMA NamedLinked ==
  ASSUME LocksInv, CountsOK, NEW i \in Inums
  PROVE  /\ disk[i].nlink \in Nat
         /\ NamedOn(disk, i) # {} => disk[i].nlink >= 1
         /\ BelowOn(disk, i) # {} => disk[i].nlink >= 1
         /\ i = Root => disk[i].nlink >= 1
         /\ \A x \in DirsOn(disk), n \in Names :
              disk[x].ents[n] = i => disk[i].nlink >= 1
         /\ \A x \in Owing(disk, k, i) : disk[i].nlink >= 1
         /\ \A x \in Owing(disk, k, i) : disk[i].nlink = 1 =>
              NamedOn(disk, i) = {} /\ i # Root
<1> DEFINE a == Cardinality(NamedOn(disk, i))
           b == Cardinality(BelowOn(disk, i))
           c == Cardinality(Owing(disk, k, i))
           m == disk[i].nlink
<1>1. a \in Nat /\ b \in Nat /\ c \in Nat /\ m \in Int
  BY CountsFinite, OwingFinite DEF LocksInv, RefsInv, TypeOK, Inode
<1>2. m >= a + b + Is(i, Root) + c
  BY DEF CountsOK, Due
<1>3. /\ NamedOn(disk, i) # {} => a >= 1
      /\ BelowOn(disk, i) # {} => b >= 1
      /\ Owing(disk, k, i) # {} => c >= 1
  BY CountsFinite, OwingFinite, CountMember
<1>4. \A x \in DirsOn(disk), n \in Names :
        disk[x].ents[n] = i => NamedOn(disk, i) # {}
  <2> TAKE x \in DirsOn(disk), n \in Names
  <2> HAVE disk[x].ents[n] = i
  <2>1. <<x, n>> \in NamedOn(disk, i)
    BY DEF NamedOn
  <2> QED BY <2>1
<1>5. Is(i, Root) \in Nat /\ (i = Root => Is(i, Root) = 1)
  BY DEF Is
<1> HIDE DEF a, b, c, m
<1>6. /\ m \in Nat /\ (a >= 1 => m >= 1) /\ (c >= 1 => m >= 1)
      /\ b >= 1 => m >= 1
      /\ i = Root => m >= 1
      /\ c >= 1 /\ m = 1 => ~(a >= 1) /\ i # Root
  BY <1>1, <1>2, <1>5
<1> QED BY <1>3, <1>4, <1>6 DEF m

\* What a call of p owes inode i.
Debt(d, f, i) ==
  (IF Owes(d, f, "ip") /\ f.ip = i THEN 1 ELSE 0)
  + (IF Owes(d, f, "dp") /\ f.dp = i THEN 1 ELSE 0)
  + (IF Owes(d, f, "src") /\ f.src = i THEN 1 ELSE 0)

\* What is owed by others than p, and by p.
LEMMA DebtSplit ==
  ASSUME NEW p \in Procs, NEW d, NEW frames, NEW i
  PROVE  LET S == {x \in Owing(d, frames, i) : x[1] # p} IN
         /\ Cardinality(S) \in Nat /\ Debt(d, frames[p], i) \in Nat
         /\ Cardinality(Owing(d, frames, i)) =
              Cardinality(S) + Debt(d, frames[p], i)
<1> DEFINE W == Owing(d, frames, i)
           S == {x \in W : x[1] # p}
           S1 == {x \in W : x[1] # p \/ x[2] = "ip"}
           S2 == {x \in W : x[1] # p \/ x[2] \in {"ip", "dp"}}
<1>1. IsFiniteSet(W) /\ W \subseteq Owed
  <2>1. IsFiniteSet(W)
    BY OwingFinite
  <2> QED BY <2>1 DEF Owing
<1>2. IsFiniteSet(S) /\ IsFiniteSet(S1) /\ IsFiniteSet(S2)
  BY <1>1, FS_Subset
<1>3. \A x \in Owed :
        /\ x = <<x[1], x[2]>> /\ x[1] \in Procs /\ x[2] \in {"ip", "dp", "src"}
  BY DEF Owed
<1>4. /\ S \ {<<p, "ip">>} = S1 \ {<<p, "ip">>}
      /\ S1 \ {<<p, "dp">>} = S2 \ {<<p, "dp">>}
      /\ S2 \ {<<p, "src">>} = W \ {<<p, "src">>}
  <2> HIDE DEF W
  <2>1. \A x \in W : x = <<x[1], x[2]>> /\ x[2] \in {"ip", "dp", "src"}
    BY <1>1, <1>3
  <2> QED BY <2>1
<1>5. /\ <<p, "ip">> \notin S /\ <<p, "dp">> \notin S1
      /\ <<p, "src">> \notin S2
  OBVIOUS
<1>6. /\ In(<<p, "ip">>, S1) = IF Owes(d, frames[p], "ip") /\ frames[p].ip = i
                               THEN 1 ELSE 0
      /\ In(<<p, "dp">>, S2) = IF Owes(d, frames[p], "dp") /\ frames[p].dp = i
                               THEN 1 ELSE 0
      /\ In(<<p, "src">>, W) =
           IF Owes(d, frames[p], "src") /\ frames[p].src = i THEN 1 ELSE 0
  <2> HIDE DEF Owes
  <2>1. \A v \in {"ip", "dp", "src"} :
          <<p, v>> \in W <=> Owes(d, frames[p], v) /\ frames[p][v] = i
    BY DEF Owing, Owed
  <2>2. /\ <<p, "ip">> \in S1 <=> <<p, "ip">> \in W
        /\ <<p, "dp">> \in S2 <=> <<p, "dp">> \in W
    OBVIOUS
  <2> HIDE DEF S1, S2, W
  <2> QED BY <2>1, <2>2 DEF In
<1> HIDE DEF S, S1, S2, W
<1>7. /\ Cardinality(S) \in Nat
      /\ Cardinality(S1) = Cardinality(S) + In(<<p, "ip">>, S1)
      /\ Cardinality(S1) \in Nat
  BY <1>2, <1>4, <1>5, CountOne DEF In
<1>8. /\ Cardinality(S2) = Cardinality(S1) + In(<<p, "dp">>, S2)
      /\ Cardinality(S2) \in Nat
  BY <1>2, <1>4, <1>5, CountOne DEF In
<1>9. Cardinality(W) = Cardinality(S2) + In(<<p, "src">>, W)
  BY <1>2, <1>4, <1>5, CountOne DEF In
<1> QED BY <1>6, <1>7, <1>8, <1>9 DEF Debt, S, W

\* The step of p that leaves the others' frames and what they owe alone.
Aside(p) ==
  \A q \in Procs \ {p} :
    /\ k'[q] = k[q]
    /\ \A v \in {"ip", "dp", "src"} :
         Owes(disk', k[q], v) <=> Owes(disk, k[q], v)

\* Such a step changes what p owes only.
LEMMA DebtChange ==
  ASSUME NEW p \in Procs, NEW i, Aside(p)
  PROVE  LET c0 == Cardinality(Owing(disk, k, i))
             c1 == Cardinality(Owing(disk', k', i))
             d0 == Debt(disk, k[p], i)
             d1 == Debt(disk', k'[p], i)
         IN  /\ c0 \in Nat /\ c1 \in Nat /\ d0 \in Nat /\ d1 \in Nat
             /\ c1 - c0 = d1 - d0 /\ c0 >= d0
<1> DEFINE S0 == {x \in Owing(disk, k, i) : x[1] # p}
           S1 == {x \in Owing(disk', k', i) : x[1] # p}
<1>1. S0 = S1
  <2>1. \A x \in Owed : x[1] \in Procs /\ x[2] \in {"ip", "dp", "src"}
    BY DEF Owed
  <2> HIDE DEF Owes
  <2>2. \A x \in Owed : x[1] # p =>
          (x \in Owing(disk, k, i) <=> x \in Owing(disk', k', i))
    BY <2>1 DEF Owing, Aside
  <2>3. Owing(disk, k, i) \subseteq Owed /\ Owing(disk', k', i) \subseteq Owed
    BY DEF Owing
  <2> QED BY <2>2, <2>3
<1>2. /\ Cardinality(S0) \in Nat /\ Debt(disk, k[p], i) \in Nat
      /\ Cardinality(Owing(disk, k, i)) =
           Cardinality(S0) + Debt(disk, k[p], i)
  BY DebtSplit
<1>3. /\ Cardinality(S1) \in Nat /\ Debt(disk', k'[p], i) \in Nat
      /\ Cardinality(Owing(disk', k', i)) =
           Cardinality(S1) + Debt(disk', k'[p], i)
  BY DebtSplit
<1> HIDE DEF S0, S1
<1> QED BY <1>1, <1>2, <1>3

\* The counts stay high enough if they rise as much as what is due does.
Covers(p, i) ==
  disk'[i].nlink - disk[i].nlink >=
    (Due(disk', i) - Due(disk, i))
      + (Debt(disk', k'[p], i) - Debt(disk, k[p], i))
LEMMA CoversCounts ==
  ASSUME NEW p \in Procs, TypeOK, TypeOK', CountsOK, Aside(p),
         \A i \in Inums : Covers(p, i)
  PROVE  CountsOK'
<1> SUFFICES ASSUME NEW i \in Inums
             PROVE  disk'[i].nlink >=
                      Due(disk', i) + Cardinality(Owing(disk', k', i))
  BY DEF CountsOK
<1> DEFINE c0 == Cardinality(Owing(disk, k, i))
           c1 == Cardinality(Owing(disk', k', i))
           d0 == Debt(disk, k[p], i)
           d1 == Debt(disk', k'[p], i)
           e0 == Due(disk, i)
           e1 == Due(disk', i)
           n0 == disk[i].nlink
           n1 == disk'[i].nlink
<1>1. c0 \in Nat /\ c1 \in Nat /\ d0 \in Nat /\ d1 \in Nat /\ c1 - c0 = d1 - d0
  BY DebtChange
<1>2. e0 \in Nat /\ e1 \in Nat /\ n0 \in Int /\ n1 \in Int
  BY CountsFinite DEF TypeOK, Inode
<1>3. n0 >= e0 + c0 /\ n1 - n0 >= (e1 - e0) + (d1 - d0)
  BY DEF CountsOK, Covers
<1> HIDE DEF c0, c1, d0, d1, e0, e1, n0, n1
<1>4. n1 >= e1 + c1
  BY <1>1, <1>2, <1>3
<1> QED BY <1>4 DEF n1, e1, c1

-----------------------------------------------------------------------------
(* Who may use what.                                                       *)

\* An inode with a link is not being freed.
LEMMA LinkedAlive ==
  ASSUME LocksInv, FreeOK, panicked = "no", NEW i \in Inums,
         disk[i].nlink >= 1
  PROVE  Alive(i)
<1>1. disk[i].type # "free"
  BY DEF FreeOK
<1>2. ASSUME NEW q \in Procs, k[q].pc \in {"trunc", "free"}, k[q].drop = i
      PROVE  FALSE
  <2>1. Holds(k[q], i) /\ icache[i].nlink = 0
    BY <1>2 DEF Holds, Freeing, LocksInv, FreeingOK
  <2>2. Fits(icache, disk, i)
    BY <1>2, <2>1, HeldFits
  <2> QED BY <2>1, <2>2 DEF Fits
<1> QED BY <1>1, <1>2 DEF Alive

\* What a step of p may reach.
Known(p, i) ==
  Uses(k[p], i) \/ cwd[p] = i \/ Filed(i) \/ disk[i].nlink >= 1

\* It is there.
LEMMA KnownAlive ==
  ASSUME NEW p \in Procs, LocksInv, FreeOK, AliveOK, panicked = "no",
         NEW i \in Inums, Known(p, i)
  PROVE  Alive(i)
<1>1. CASE disk[i].nlink >= 1
  BY <1>1, LinkedAlive
<1>2. CASE cwd[p] = i
  BY <1>2 DEF AliveOK, Inums, Null
<1>3. CASE Uses(k[p], i) \/ Filed(i)
  BY <1>3 DEF AliveOK
<1> QED BY <1>1, <1>2, <1>3 DEF Known

\* An inode that is free on the disk is not being freed.
LEMMA FreeIdle ==
  ASSUME LocksInv, panicked = "no", NEW i \in Inums, disk[i].type = "free",
         NEW q \in Procs, k[q].pc \in {"trunc", "free"}
  PROVE  k[q].drop # i
<1> SUFFICES ASSUME k[q].drop = i PROVE FALSE
  OBVIOUS
<1>1. Holds(k[q], i)
  BY DEF Holds, Freeing
<1>2. Fits(icache, disk, i)
  BY <1>1, HeldFits
<1> QED BY <1>2 DEF Fits

-----------------------------------------------------------------------------
(* What a step of p may do.                                                *)

Reaches(p, i) ==
  Known(p, i) \/ (disk[i].type = "free" /\ disk'[i].type # "free")

\* It goes on with what it may reach, and frees what it was freeing.
Usual(p) ==
  /\ panicked = "no" /\ \A q \in Procs \ {p} : k'[q] = k[q]
  /\ \A i \in Inums : Alive(i) => disk'[i].type = disk[i].type
  /\ k'[p].pc \in {"trunc", "free"} =>
       k[p].pc \in {"trunc", "free"} /\ k'[p].drop = k[p].drop
  /\ \A i \in Inums : Uses(k'[p], i) => Reaches(p, i)
  /\ k'[p].dp # Null => disk'[k'[p].dp].type = "dir"
  /\ k'[p].src # Null => disk'[k'[p].src].type # "dir"
  /\ \A q \in Procs : cwd'[q] \in {Null, cwd[q]} \/ Known(p, cwd'[q])
  /\ \A i \in Inums : Filed(i)' => Filed(i) \/ Known(p, i)

\* It writes to no inode that another call has locked, or allocated, unless
\* the other has freed it.
Spared(p) ==
  \A i \in Inums :
    \/ disk'[i] = disk[i]
    \/ \A q \in Procs \ {p} :
         /\ Holds(k[q], i) => k[q].pc = "freed" /\ k[q].drop = i
         /\ k[q].pc = "init" => k[q].ip # i

\* Such a step uses nothing that is, or becomes, free.
LEMMA UsualAlive ==
  ASSUME NEW p \in Procs, LocksInv, LocksInv', FreeOK, AliveOK, Usual(p)
  PROVE  AliveOK'
<1>1. panicked = "no" /\ TypeOK /\ TypeOK'
  BY DEF Usual, LocksInv, RefsInv
<1>2. ASSUME NEW i \in Inums, Alive(i) PROVE Alive(i)'
  <2>1. disk'[i].type # "free"
    BY <1>2 DEF Usual, Alive
  <2>2. \A q \in Procs : k'[q].pc \in {"trunc", "free"} => k'[q].drop # i
    BY <1>2 DEF Usual, Alive
  <2> QED BY <2>1, <2>2 DEF Alive
<1>3. ASSUME NEW i \in Inums, Reaches(p, i) PROVE Alive(i)'
  <2>1. CASE Known(p, i)
    BY <1>1, <1>2, <2>1, KnownAlive
  <2>2. CASE disk[i].type = "free" /\ disk'[i].type # "free"
    <3>1. \A q \in Procs : k[q].pc \in {"trunc", "free"} => k[q].drop # i
      BY <1>1, <2>2, FreeIdle
    <3>2. \A q \in Procs : k'[q].pc \in {"trunc", "free"} => k'[q].drop # i
      BY <3>1 DEF Usual
    <3> QED BY <2>2, <3>2 DEF Alive
  <2> QED BY <1>3, <2>1, <2>2 DEF Reaches
<1>4. ASSUME NEW i \in Inums, Filed(i)' PROVE Alive(i)'
  BY <1>1, <1>2, <1>4, KnownAlive DEF Usual, AliveOK
<1>5. ASSUME NEW q \in Procs, cwd'[q] # Null PROVE Alive(cwd[q])'
  <2>1. cwd'[q] \in Inums
    BY <1>1, <1>5 DEF TypeOK, Pointers
  <2>2. Alive(cwd'[q])
    BY <1>1, <1>5, <2>1, KnownAlive DEF Usual, AliveOK
  <2>3. ASSUME NEW i \in Inums, cwd'[q] = i PROVE Alive(i)'
    BY <1>2, <2>2, <2>3
  <2>4. \A i \in Inums : Alive(i)' <=>
          /\ disk'[i].type # "free"
          /\ \A r \in Procs : k'[r].pc \in {"trunc", "free"} => k'[r].drop # i
    BY DEF Alive
  <2> QED BY <2>1, <2>3, <2>4 DEF Alive
<1>6. ASSUME NEW q \in Procs, NEW i \in Inums, Uses(k'[q], i) PROVE Alive(i)'
  <2>1. CASE q = p
    BY <1>3, <1>6, <2>1 DEF Usual
  <2>2. CASE q # p
    <3>1. Uses(k[q], i)
      BY <1>6, <2>2 DEF Usual
    <3> QED BY <1>2, <3>1 DEF AliveOK
  <2> QED BY <2>1, <2>2
<1>7. ASSUME NEW q \in Procs
      PROVE  /\ k'[q].dp # Null => disk'[k'[q].dp].type = "dir"
             /\ k'[q].src # Null => disk'[k'[q].src].type # "dir"
  <2>1. CASE q = p
    BY <2>1 DEF Usual
  <2>2. CASE q # p
    <3>1. k'[q] = k[q] /\ k[q] \in Frame
      BY <1>1, <2>2 DEF Usual, TypeOK
    <3>2. /\ k[q].dp # Null => k[q].dp \in Inums /\ Uses(k[q], k[q].dp)
          /\ k[q].src # Null => k[q].src \in Inums /\ Uses(k[q], k[q].src)
      BY <3>1 DEF Frame, Pointers, Uses
    <3>3. /\ k[q].dp # Null => Alive(k[q].dp) /\ disk[k[q].dp].type = "dir"
          /\ k[q].src # Null =>
               Alive(k[q].src) /\ disk[k[q].src].type # "dir"
      BY <3>2 DEF AliveOK
    <3> QED BY <3>1, <3>2, <3>3 DEF Usual
  <2> QED BY <2>1, <2>2
<1>8. \A q \in Procs, i \in Inums : Uses(k[q], i)' <=> Uses(k'[q], i)
  BY DEF Uses
<1> QED BY <1>4, <1>5, <1>6, <1>7, <1>8 DEF AliveOK

\* The frames of a call that has locked, or allocated, what it points to.
LEMMA CallPoints ==
  ASSUME NEW q \in Procs, LocksInv
  PROVE  /\ k[q] \in Frame
         /\ k[q].pc \in InMaking => k[q].ip \in Inums
         /\ k[q].pc \in InMaking \ {"init"} => Holds(k[q], k[q].ip)
         /\ k[q].pc = "unlink" =>
              k[q].dp \in Inums /\ Holds(k[q], k[q].dp)
         /\ Place(k[q]) = "erased" => k[q].ip \in Inums
         /\ Place(k[q]) = "erased" => Holds(k[q], k[q].ip)
<1>1. k[q] \in Frame /\ FrameOK(k[q])
  BY DEF LocksInv, RefsInv, TypeOK, FramesOK
<1>2. k[q].pc \in InMaking \cup {"unlink"} => Place(k[q]) = k[q].pc
  BY DEF InMaking, Place, Dropping
<1> QED BY <1>1, <1>2
        DEF FrameOK, Frame, Pointers, HasIp, HasDp, InMaking, Holds, HoldsIp,
            HoldsDp

\* So the other calls are as they were.
LEMMA SparedOthers ==
  ASSUME NEW p \in Procs, LocksInv, LocksInv', AliveOK, Usual(p), Spared(p),
         \A q \in Procs : CallOK(q)
  PROVE  Aside(p) /\ \A q \in Procs \ {p} : CallOK(q)'
<1>1. ASSUME NEW q \in Procs \ {p}
      PROVE  /\ k'[q] = k[q]
             /\ k[q].pc \in InMaking => disk'[k[q].ip] = disk[k[q].ip]
             /\ k[q].pc = "unlink" => disk'[k[q].dp] = disk[k[q].dp]
             /\ Place(k[q]) = "erased" => disk'[k[q].ip] = disk[k[q].ip]
  <2>1. k[q].pc \in InMaking \cup {"unlink"} => k[q].pc # "freed"
    BY DEF InMaking
  <2>2. Place(k[q]) = "erased" /\ k[q].pc = "freed" => k[q].drop # k[q].ip
    BY DEF LocksInv, LocksOK, Apart, Freeing
  <2> QED BY <2>1, <2>2, CallPoints DEF Usual, Spared
<1>2. Aside(p)
  BY <1>1 DEF Aside, Owes
<1>3. ASSUME NEW q \in Procs \ {p} PROVE CallOK(q)'
  <2>1. CallOK(q) /\ k'[q] = k[q] /\ k[q] \in Frame
    BY <1>1, CallPoints
  <2>2. k[q].pc \in InMaking => Blank(q)'
    <3> SUFFICES ASSUME k[q].pc \in InMaking PROVE Blank(q)'
      OBVIOUS
    <3>1. Blank(q) /\ disk'[k[q].ip] = disk[k[q].ip] /\ k'[q] = k[q]
      BY <1>1, <2>1 DEF CallOK
    <3> QED BY <3>1 DEF Blank
  <2>3. k[q].pc = "unlink" => Found(q)'
    BY <1>1, <2>1 DEF CallOK, Found
  <2>4. k[q].pc = "init" => New(q)'
    <3> SUFFICES ASSUME k[q].pc = "init" PROVE New(q)'
      OBVIOUS
    <3> DEFINE i == k[q].ip
    <3>1. /\ New(q) /\ k[q].pc \in InMaking /\ i \in Inums
          /\ disk'[i] = disk[i]
      BY <1>1, <2>1, CallPoints DEF CallOK, InMaking
    <3>2. Alive(i)
      BY <3>1 DEF AliveOK, Uses
    <3>3. ~Known(p, i) /\ ~Reaches(p, i)
      BY <3>1, <3>2 DEF New, Known, Reaches, Alive
    <3>4. ~Filed(i)'
      BY <3>1, <3>3 DEF Usual, New
    <3>5. \A r \in Procs : cwd'[r] # i
      BY <3>1, <3>3 DEF Usual, New, Inums, Null
    <3>6. \A r \in Procs : r # q => ~Uses(k'[r], i)
      BY <3>1, <3>3, <2>1 DEF Usual, New
    <3>7. k'[q].ip = i /\ k'[q].dp # i /\ disk'[i].nlink = 0
      BY <2>1, <3>1 DEF New
    <3>8. /\ New(q)' <=>
               /\ disk'[k'[q].ip].nlink = 0 /\ k'[q].dp # k'[q].ip
               /\ ~Filed(k[q].ip)'
               /\ \A r \in Procs :
                    /\ cwd'[r] # k'[q].ip
                    /\ r # q => ~Uses(k'[r], k'[q].ip)
      BY DEF New, Uses
    <3>9. Filed(k[q].ip)' <=> Filed(i)'
      BY <2>1 DEF Filed
    <3> QED BY <3>4, <3>5, <3>6, <3>7, <3>8, <3>9
  <2> QED BY <2>1, <2>2, <2>3, <2>4 DEF CallOK
<1> QED BY <1>2, <1>3

-----------------------------------------------------------------------------
(* What a step of p does to the disk.                                      *)

\* The directories stay as they are.
SameShape ==
  \A i \in Inums :
    disk'[i].type = disk[i].type /\ disk'[i].ents = disk[i].ents

\* So what is due does, and the tree.
LEMMA ShapeKept ==
  ASSUME SameShape
  PROVE  /\ \A i : Due(disk', i) = Due(disk, i)
         /\ TreeOK => TreeOK'
         /\ DepthOK => DepthOK'
<1>1. DirsOn(disk') = DirsOn(disk) /\ DirsOn(disk) \subseteq Inums
  BY DEF SameShape, DirsOn
<1>2. \A i : NamedOn(disk', i) = NamedOn(disk, i)
  <2> TAKE i
  <2>1. \A x \in DirsOn(disk) \X Names : disk'[x[1]].ents = disk[x[1]].ents
    BY <1>1 DEF SameShape
  <2> QED BY <1>1, <2>1 DEF NamedOn
<1>3. \A i : BelowOn(disk', i) = BelowOn(disk, i)
  BY <1>1 DEF SameShape, BelowOn
<1>4. Root \in Inums
  BY NumberAssumption DEF Root, Inums
<1>5. TreeOK => TreeOK'
  <2> SUFFICES ASSUME TreeOK PROVE TreeOK'
    OBVIOUS
  <2>1. disk'[Root].type = "dir" /\ disk'[Root].ents[".."] = Root
    BY <1>4 DEF SameShape, TreeOK
  <2>2. ASSUME NEW x \in DirsOn(disk), NEW n \in BelowOn(disk, x)
        PROVE  disk'[disk'[x].ents[n]].ents[".."] = x
    <3>1. disk[disk[x].ents[n]].ents[".."] = x
      BY <2>2 DEF TreeOK
    <3>2. disk[x].ents[n] \in Inums /\ disk'[x].ents = disk[x].ents
      BY <1>1 DEF SameShape, BelowOn
    <3> QED BY <3>1, <3>2 DEF SameShape
  <2> QED BY <1>1, <1>3, <2>1, <2>2 DEF TreeOK
<1>6. DepthOK => DepthOK'
  <2>1. ASSUME NEW depth, Deepens(disk, depth) PROVE Deepens(disk', depth)
    <3>1. \A x \in DirsOn(disk) : disk'[x].ents = disk[x].ents
      BY <1>1 DEF SameShape
    <3> QED BY <1>1, <1>3, <2>1, <3>1 DEF Deepens
  <2> QED BY <2>1 DEF DepthOK
<1> QED BY <1>2, <1>3, <1>5, <1>6 DEF Due

\* A step that keeps everything in order.
LEMMA OrderlyStep ==
  ASSUME NEW p \in Procs, LocksInv, LocksInv', DiskOK, Usual(p), Spared(p),
         \A i \in Inums : Covers(p, i),
         FreeOK', TreeOK', DepthOK', PanicOK',
         CallOK(p)'
  PROVE  DiskOK'
<1>1. \A q \in Procs : CallOK(q)
  BY DEF DiskOK, Usual
<1>2. Aside(p) /\ \A q \in Procs \ {p} : CallOK(q)'
  BY <1>1, SparedOthers DEF DiskOK
<1>3. CountsOK'
  BY <1>2, CoversCounts DEF DiskOK, LocksInv, RefsInv
<1>4. AliveOK'
  BY UsualAlive DEF DiskOK
<1>5. (\A q \in Procs : CallOK(q))'
  BY <1>2
<1> QED BY <1>3, <1>4, <1>5 DEF DiskOK

\* What p owes, it has owed before.
Frugal(p) ==
  \A v \in {"ip", "dp", "src"} :
    Owes(disk', k'[p], v) /\ k'[p][v] # Null =>
      Owes(disk, k[p], v) /\ k'[p][v] = k[p][v]

\* A step that does not write to the disk.
LEMMA StillStep ==
  ASSUME NEW p \in Procs, LocksInv, LocksInv', DiskOK, NoDisk, Usual(p),
         Frugal(p), PanicOK', CallOK(p)'
  PROVE  DiskOK'
<1>1. SameShape /\ Spared(p)
  BY DEF NoDisk, SameShape, Spared
<1>2. ASSUME NEW i \in Inums PROVE Covers(p, i)
  <2> DEFINE d0 == Debt(disk, k[p], i)
             d1 == Debt(disk', k'[p], i)
             e == Due(disk, i)
             n == disk[i].nlink
  <2>1. /\ Owes(disk', k'[p], "ip") /\ k'[p].ip = i =>
             Owes(disk, k[p], "ip") /\ k[p].ip = i
        /\ Owes(disk', k'[p], "dp") /\ k'[p].dp = i =>
             Owes(disk, k[p], "dp") /\ k[p].dp = i
        /\ Owes(disk', k'[p], "src") /\ k'[p].src = i =>
             Owes(disk, k[p], "src") /\ k[p].src = i
    <3> HIDE DEF Owes
    <3> QED BY DEF Frugal, Inums, Null
  <2>2. d0 \in Nat /\ d1 \in Nat /\ d1 <= d0
    <3> HIDE DEF Owes
    <3> QED BY <2>1 DEF Debt
  <2>3. e \in Nat /\ n \in Int /\ Due(disk', i) = e /\ disk'[i].nlink = n
    BY <1>1, CountsFinite, ShapeKept
       DEF LocksInv, RefsInv, TypeOK, Inode, NoDisk
  <2> HIDE DEF d0, d1, e, n
  <2>4. n - n >= (e - e) + (d1 - d0)
    BY <2>2, <2>3
  <2> QED BY <2>3, <2>4 DEF Covers, d0, d1, e, n
<1>3. FreeOK' /\ TreeOK' /\ DepthOK'
  BY <1>1, ShapeKept DEF DiskOK, FreeOK, NoDisk
<1> QED BY <1>1, <1>2, <1>3, OrderlyStep

\* Directories and open files come from what p knows.
KnownFiles(p) ==
  /\ \A q \in Procs : cwd'[q] \in {Null, cwd[q]} \/ Known(p, cwd'[q])
  /\ \A i \in Inums : Filed(i)' => Filed(i) \/ Known(p, i)

\* What a change of frames and of the disk means for what is used.
LEMMA FrameUsual ==
  ASSUME NEW p \in Procs, NEW f, LocksInv, AliveOK, panicked = "no",
         Become(p, f), KnownFiles(p),
         \A i \in Inums : Alive(i) => disk'[i].type = disk[i].type,
         f.pc \notin {"trunc", "free"},
         \A i \in Inums : Uses(f, i) => Reaches(p, i),
         f.dp \in {Null, k[p].dp} \/ disk'[f.dp].type = "dir",
         f.src \in {Null, k[p].src} \/ disk'[f.src].type # "dir"
  PROVE  Usual(p)
<1>1. k'[p] = f /\ \A q \in Procs \ {p} : k'[q] = k[q]
  BY DEF Become, LocksInv, RefsInv, TypeOK
<1>2. k[p] \in Frame
  BY DEF LocksInv, RefsInv, TypeOK
<1>3. /\ k[p].dp # Null => k[p].dp \in Inums /\ Uses(k[p], k[p].dp)
      /\ k[p].src # Null => k[p].src \in Inums /\ Uses(k[p], k[p].src)
  BY <1>2 DEF Frame, Pointers, Uses
<1>4. /\ k[p].dp # Null => disk'[k[p].dp].type = "dir"
      /\ k[p].src # Null => disk'[k[p].src].type # "dir"
  BY <1>3 DEF AliveOK
<1> QED BY <1>1, <1>4 DEF Usual, KnownFiles

\* A process goes on with a frame that uses what it knows.
Goes(p, f) ==
  /\ f.pc \notin {"trunc", "free"} \cup InMaking \cup {"unlink"}
  /\ f.pc \in Dropping => f.back \notin InMaking \cup {"unlink"}
  /\ \A i \in Inums : Uses(f, i) => Known(p, i)
  /\ f.dp \in {Null, k[p].dp} \/ disk[f.dp].type = "dir"
  /\ f.src \in {Null, k[p].src} \/ disk[f.src].type # "dir"
  /\ \A v \in {"ip", "dp", "src"} :
       Owes(disk, f, v) /\ f[v] # Null => Owes(disk, k[p], v) /\ f[v] = k[p][v]

\* That is all, and the disk stays as it is.
LEMMA GoesFiles ==
  ASSUME NEW p \in Procs, NEW f, LocksInv, LocksInv', DiskOK,
         panicked = "no", UNCHANGED <<disk, panicked>>, KnownFiles(p),
         Become(p, f), Goes(p, f)
  PROVE  DiskOK'
<1>1. k'[p] = f
  BY DEF Become, LocksInv, RefsInv, TypeOK
<1>2. Usual(p)
  BY FrameUsual DEF Goes, DiskOK, Reaches
<1>3. Frugal(p)
  BY <1>1 DEF Goes, Frugal
<1>4. CallOK(p)'
  BY <1>1 DEF Goes, CallOK, InMaking
<1>5. PanicOK'
  BY DEF PanicOK, DiskOK
<1> QED BY <1>2, <1>3, <1>4, <1>5, StillStep DEF NoDisk

\* They are the same.
LEMMA SameFiles ==
  ASSUME NEW p, UNCHANGED <<cwd, ftable>> PROVE KnownFiles(p)
BY DEF KnownFiles, Filed

\* And nothing else changes.
LEMMA GoesStill ==
  ASSUME NEW p \in Procs, NEW f, LocksInv, LocksInv', DiskOK,
         panicked = "no", UNCHANGED <<disk, cwd, ftable, panicked>>,
         Become(p, f), Goes(p, f)
  PROVE  DiskOK'
BY SameFiles, GoesFiles

\* The kernel stops, and the disk stays as it is.
LEMMA StopUsual ==
  ASSUME NEW p \in Procs, LocksInv, LocksInv', AliveOK, panicked = "no",
         NEW m, Stop(m),
         \A i \in Inums : Alive(i) => disk'[i].type = disk[i].type
  PROVE  Usual(p)
<1>1. Become(p, k[p]) /\ UNCHANGED <<cwd, ftable>>
  BY DEF Become, Stop, procVars, LocksInv, RefsInv, TypeOK
<1>2. CASE k[p].pc \notin {"trunc", "free"}
  BY <1>1, <1>2, SameFiles, FrameUsual DEF Reaches, Known
<1>3. CASE k[p].pc \in {"trunc", "free"}
  <2>1. k[p] \in Frame
    BY DEF LocksInv, RefsInv, TypeOK
  <2>2. /\ k[p].dp # Null => k[p].dp \in Inums /\ Uses(k[p], k[p].dp)
        /\ k[p].src # Null => k[p].src \in Inums /\ Uses(k[p], k[p].src)
    BY <2>1 DEF Frame, Pointers, Uses
  <2>3. /\ k[p].dp # Null => disk'[k[p].dp].type = "dir"
        /\ k[p].src # Null => disk'[k[p].src].type # "dir"
    BY <2>2 DEF AliveOK
  <2>4. k' = k /\ cwd' = cwd /\ \A i \in Inums : Filed(i)' => Filed(i)
    BY DEF Stop, procVars, Filed
  <2> QED BY <2>3, <2>4 DEF Usual, Reaches, Known
<1> QED BY <1>2, <1>3

\* It stops for want of inodes.
LEMMA StopStill ==
  ASSUME NEW p \in Procs, NEW m, LocksInv, LocksInv', DiskOK,
         panicked = "no", NoDisk, Stop(m),
         m \in {"iget: no inodes", "ialloc: no inodes"}
  PROVE  DiskOK'
<1>1. Usual(p)
  BY StopUsual DEF DiskOK, NoDisk
<1>2. Frugal(p)
  BY DEF Frugal, Stop, NoDisk
<1>3. PanicOK'
  BY DEF PanicOK, Stop
<1>4. CallOK(p)'
  <2>1. UNCHANGED <<disk, ftable, cwd, k>>
    BY DEF Stop, NoDisk, procVars
  <2>2. CallOK(p)
    BY DEF DiskOK
  <2> QED BY <2>1, <2>2 DEF CallOK, New, Blank, Found, Filed, Uses
<1> QED BY <1>1, <1>2, <1>3, <1>4, StillStep

-----------------------------------------------------------------------------
(* Steps that do not write to the disk.                                    *)

\* What a directory names has a link; .. is a directory that names it, or
\* the root.
LEMMA LookupKnown ==
  ASSUME LocksInv, DiskOK, NEW d \in Inums, NEW n \in Elements,
         disk[d].type = "dir", n = ".." => ~Gone(d)
  PROVE  /\ dirlookup(d, n) # Null =>
              /\ dirlookup(d, n) \in Inums
              /\ dirlookup(d, n) = d \/ disk[dirlookup(d, n)].nlink >= 1
              /\ n \in Names => disk[dirlookup(d, n)].nlink >= 1
         /\ dirlookup(d, n) = Null => n \in Names
<1> DEFINE i == dirlookup(d, n)
<1>1. i \in Pointers /\ TypeOK /\ d \in DirsOn(disk) /\ d # Null
  BY LookupType DEF LocksInv, RefsInv, DirsOn, Inums, Null
<1>2. CASE n = "."
  <2>1. i = d /\ n \notin Names
    BY <1>2, NameAssumption DEF dirlookup
  <2> QED BY <1>1, <2>1
<1>3. CASE n \in Names
  <2>1. i = disk[d].ents[n]
    BY <1>3, NameAssumption DEF dirlookup
  <2>2. i # Null => i \in Inums
    BY <1>1 DEF Pointers
  <2>3. i # Null => disk[i].nlink >= 1
    BY <1>1, <1>3, <2>1, <2>2, NamedLinked DEF DiskOK
  <2> QED BY <1>3, <2>2, <2>3
<1>4. CASE n = ".."
  <2>1. i = disk[d].ents[".."] /\ n \notin Names /\ ~Gone(d)
    BY <1>4, NameAssumption DEF dirlookup
  <2>2. CASE d = Root
    <3>1. i = Root
      BY <2>1, <2>2 DEF DiskOK, TreeOK
    <3> QED BY <1>1, <2>1, <2>2, <3>1
  <2>3. CASE d # Root
    <3>1. PICK y \in NamedOn(disk, d) : TRUE
      BY <1>1, <2>1, <2>3 DEF Gone
    <3> DEFINE x == y[1]
               m == y[2]
    <3>2. x \in DirsOn(disk) /\ m \in Names /\ disk[x].ents[m] = d
      BY <3>1 DEF NamedOn
    <3> HIDE DEF x, m
    <3>3. x \in Inums /\ m \in BelowOn(disk, x)
      BY <1>1, <3>2 DEF BelowOn, DirsOn
    <3>4. i = x
      BY <2>1, <3>2, <3>3 DEF DiskOK, TreeOK
    <3>5. disk[x].nlink >= 1
      BY <3>3, NamedLinked DEF DiskOK
    <3> QED BY <2>1, <3>3, <3>4, <3>5 DEF Inums, Null
  <2> QED BY <2>2, <2>3
<1> QED BY <1>2, <1>3, <1>4 DEF Elements, Entries

\* What a step of p, which has not strayed, starts from.
Ready(p) == LocksInv /\ LocksInv' /\ DiskOK /\ ~Strays(p)

\* Where a call owes something.
Debtors == {"dots", "dots2", "enter", "erased", "unlinked"}
Linkers == {"walk", "go", "exists", "bad"}

\* A frame that owes nothing new.
LEMMA OwesNothing ==
  ASSUME NEW d, NEW f, NEW g, Place(f) \notin Debtors,
         f.src = Null \/ Place(f) \notin Linkers
           \/ (Place(g) \in Linkers /\ f.src = g.src)
  PROVE  \A v \in {"ip", "dp", "src"} :
           Owes(d, f, v) /\ f[v] # Null => Owes(d, g, v) /\ f[v] = g[v]
<1>1. ~Owes(d, f, "ip") /\ ~Owes(d, f, "dp")
  BY DEF Owes, Debtors
<1>2. Owes(d, f, "src") <=> Place(f) \in Linkers
  BY DEF Owes, Linkers
<1>3. Owes(d, g, "src") <=> Place(g) \in Linkers
  BY DEF Owes, Linkers
<1> HIDE DEF Owes
<1> QED BY <1>1, <1>2, <1>3

\* A frame whose pointers p knows.
LEMMA GoesKnown ==
  ASSUME NEW p \in Procs, NEW f,
         f.pc \notin {"trunc", "free"} \cup InMaking \cup {"unlink"},
         f.pc \in Dropping => f.back \notin InMaking \cup {"unlink"},
         f.ip \in Inums => Known(p, f.ip),
         f.dp \in {Null, k[p].dp} \/
           (Known(p, f.dp) /\ disk[f.dp].type = "dir"),
         f.src \in {Null, k[p].src} \/
           (Known(p, f.src) /\ disk[f.src].type # "dir"),
         f.drop \in Inums => Known(p, f.drop),
         Place(f) \notin Debtors,
         f.src = Null \/ Place(f) \notin Linkers
           \/ (Place(k[p]) \in Linkers /\ f.src = k[p].src)
  PROVE  Goes(p, f)
<1>1. \A v \in {"ip", "dp", "src"} :
        Owes(disk, f, v) /\ f[v] # Null =>
          Owes(disk, k[p], v) /\ f[v] = k[p][v]
  BY OwesNothing
<1>2. ASSUME NEW i \in Inums, Uses(f, i) PROVE Known(p, i)
  <2>1. i # Null
    BY DEF Inums, Null
  <2>2. CASE f.ip = i
    BY <2>2
  <2>3. CASE f.dp = i
    BY <2>1, <2>3 DEF Known, Uses
  <2>4. CASE f.src = i
    BY <2>1, <2>4 DEF Known, Uses
  <2>5. CASE f.drop = i
    BY <2>5
  <2> QED BY <1>2, <2>2, <2>3, <2>4, <2>5 DEF Uses
<1> QED BY <1>1, <1>2 DEF Goes

\* p knows what it has.
LEMMA OwnKnown ==
  ASSUME NEW p \in Procs
  PROVE  /\ Known(p, k[p].ip) /\ Known(p, k[p].dp) /\ Known(p, k[p].src)
         /\ Known(p, cwd[p])
         /\ k[p].pc = "put" => Known(p, k[p].drop)
BY DEF Known, Uses

\* The path is used up.
LEMMA WalkEndDisk ==
  ASSUME NEW p \in Procs, Ready(p), WalkEnd(p) PROVE DiskOK'
<1> DEFINE f == IF k[p].op \in ForParent THEN Fail(k[p])
                ELSE [k[p] EXCEPT !.pc = "go"]
<1>1. /\ k[p] \in Frame /\ k[p].pc = "walk" /\ panicked = "no"
      /\ Become(p, f) /\ UNCHANGED <<disk, cwd, ftable, panicked>>
      /\ FrameOK(k[p])
  BY DEF WalkEnd, At, Kernel, NoDisk, procVars, Ready, LocksInv, RefsInv,
         TypeOK, FramesOK
<1>2. Place(k[p]) = "walk" /\ (k[p].src # Null => k[p].op = "link2")
  BY <1>1 DEF FrameOK, HasSrc, Place, Dropping
<1>3. /\ f.pc \in {"put", "go"} /\ f.ip \in {Null, k[p].ip} /\ f.dp = k[p].dp
      /\ f.src = k[p].src /\ f.drop \in {k[p].drop, k[p].ip}
      /\ f.pc = "put" => f.back \in {"user", "bad"}
      /\ Place(f) \in {"user", "bad", "go"}
      /\ f.drop = k[p].drop => k[p].drop = Null \/ k[p].ip = k[p].drop
  BY <1>1 DEF Fail, Failed, Drop, Frame, Place, Dropping, FrameOK
<1> HIDE DEF f
<1>4. Goes(p, f)
  BY <1>1, <1>2, <1>3, GoesKnown, OwnKnown
     DEF InMaking, Dropping, Debtors, Linkers, Inums, Null
<1> QED BY <1>1, <1>4, GoesStill DEF Ready

\* What a step from label l starts from.
LEMMA ReadyAt ==
  ASSUME NEW p \in Procs, NEW l, Ready(p), At(p, l)
  PROVE  /\ p \in live /\ k[p] \in Frame /\ FrameOK(k[p]) /\ k[p].pc = l
         /\ panicked = "no" /\ TypeOK
         /\ l \notin Dropping => Place(k[p]) = l
BY DEF Ready, At, LocksInv, RefsInv, TypeOK, FramesOK, Place

\* And with a lock.
LEMMA ReadyLocks ==
  ASSUME NEW p \in Procs, NEW l, Ready(p), Locks(p, l)
  PROVE  At(p, l) /\ Wants(k[p]) \in Inums
         /\ Locked(p)[Wants(k[p])].type = disk[Wants(k[p])].type
         /\ Locked(p)[Wants(k[p])].nlink = disk[Wants(k[p])].nlink
         /\ Visited(p)[Wants(k[p])].type = disk[Wants(k[p])].type
         /\ Visited(p)[Wants(k[p])].nlink = disk[Wants(k[p])].nlink
<1>1. At(p, l)
  BY DEF Locks
<1>2. /\ Wants(k[p]) \in Inums /\ Fits(Locked(p), disk, Wants(k[p]))
      /\ Fits(Visited(p), disk, Wants(k[p]))
  BY LockedSlots DEF Ready
<1> QED BY <1>1, <1>2 DEF Fits

\* The path leads nowhere.
LEMMA WalkFailsDisk ==
  ASSUME NEW p \in Procs, Ready(p), WalkFails(p) PROVE DiskOK'
<1> DEFINE f == Fail(k[p])
<1>1. /\ At(p, "walk") /\ Become(p, f)
      /\ UNCHANGED <<disk, cwd, ftable, panicked>>
  BY DEF WalkFails, Locks, Kernel, NoDisk, procVars
<1>2. /\ k[p] \in Frame /\ k[p].pc = "walk" /\ panicked = "no"
      /\ FrameOK(k[p]) /\ Place(k[p]) = "walk"
  BY <1>1, ReadyAt DEF Dropping
<1>3. /\ f.pc = "put" /\ f.ip = Null /\ f.dp = k[p].dp
      /\ f.src = k[p].src /\ f.drop = k[p].ip
      /\ f.back \in {"user", "bad"} /\ Place(f) = f.back
  BY <1>2 DEF Fail, Failed, Drop, Frame, Place, Dropping
<1> HIDE DEF f
<1>4. Goes(p, f)
  BY <1>2, <1>3, GoesKnown, OwnKnown
     DEF InMaking, Dropping, Debtors, Linkers, Inums, Null
<1> QED BY <1>1, <1>2, <1>4, GoesStill DEF Ready

\* nameiparent() has found a directory.
LEMMA WalkStopsDisk ==
  ASSUME NEW p \in Procs, Ready(p), WalkStops(p) PROVE DiskOK'
<1> DEFINE f == [k[p] EXCEPT !.pc = "go", !.ip = Null, !.dp = k[p].ip,
                             !.name = k[p].path[1], !.path = <<>>]
<1>1. /\ At(p, "walk") /\ Become(p, f) /\ Locks(p, "walk")
      /\ UNCHANGED <<disk, cwd, ftable, panicked>>
  BY DEF WalkStops, Locks, Kernel, NoDisk, procVars
<1>2. /\ k[p] \in Frame /\ k[p].pc = "walk" /\ panicked = "no"
      /\ FrameOK(k[p]) /\ Place(k[p]) = "walk"
  BY <1>1, ReadyAt DEF Dropping
<1>3. Wants(k[p]) = k[p].ip
  BY <1>1, WalkLocks DEF Ready, LocksInv
<1>4. disk[k[p].ip].type = "dir"
  BY <1>1, <1>3, ReadyLocks DEF WalkStops
<1>5. /\ f.pc = "go" /\ f.ip = Null /\ f.dp = k[p].ip
      /\ f.src = k[p].src /\ f.drop = Null /\ Place(f) = "go"
  BY <1>2 DEF Frame, Place, Dropping, FrameOK
<1> HIDE DEF f
<1>6. Goes(p, f)
  BY <1>2, <1>4, <1>5, GoesKnown, OwnKnown
     DEF InMaking, Dropping, Debtors, Linkers, Inums, Null
<1> QED BY <1>1, <1>2, <1>6, GoesStill DEF Ready

\* A reference is taken, or the kernel stops.
LEMMA GetStill ==
  ASSUME NEW p \in Procs, NEW f, NEW c, NEW i, Ready(p), panicked = "no",
         NoDisk, Get(p, c, i, f), Goes(p, f)
  PROVE  DiskOK'
<1>1. CASE NoSlot(i)
  BY <1>1, StopStill DEF Get, Ready
<1>2. CASE ~NoSlot(i)
  BY <1>2, GoesStill DEF Get, Ready, NoDisk, Kernel, procVars
<1> QED BY <1>1, <1>2

\* One element of a path.
LEMMA WalkOnDisk ==
  ASSUME NEW p \in Procs, Ready(p), WalkOn(p) PROVE DiskOK'
<1> DEFINE next == dirlookup(k[p].ip, k[p].path[1])
           f == Drop([k[p] EXCEPT !.ip = next, !.name = k[p].path[1],
                                  !.path = Tail(@)], k[p].ip, "walk")
<1>1. /\ At(p, "walk") /\ Locks(p, "walk") /\ NoDisk
      /\ Get(p, Visited(p), next, f) /\ next # Null /\ ~AtParent(k[p])
  BY DEF WalkOn, Locks
<1>2. /\ k[p] \in Frame /\ k[p].pc = "walk" /\ panicked = "no"
      /\ FrameOK(k[p]) /\ Place(k[p]) = "walk"
  BY <1>1, ReadyAt DEF Dropping
<1>3. /\ Wants(k[p]) = k[p].ip /\ k[p].path # <<>>
      /\ k[p].path[1] \in Elements
  BY <1>1, WalkLocks DEF Ready, LocksInv
<1>4. disk[k[p].ip].type = "dir" /\ k[p].ip \in Inums
  BY <1>1, <1>3, ReadyLocks DEF WalkOn
<1>5. k[p].path[1] = ".." => ~Gone(k[p].ip)
  BY <1>1, <1>2, <1>3 DEF Ready, Strays
<1>6. Known(p, next)
  BY <1>1, <1>3, <1>4, <1>5, LookupKnown, OwnKnown DEF Ready, Known
<1>7. /\ f.pc = "put" /\ f.ip = next /\ f.dp = k[p].dp
      /\ f.src = k[p].src /\ f.drop = k[p].ip
      /\ f.back = "walk" /\ Place(f) = "walk"
  BY <1>2 DEF Drop, Frame, Place, Dropping
<1> HIDE DEF f, next
<1>8. Goes(p, f)
  BY <1>2, <1>6, <1>7, GoesKnown, OwnKnown
     DEF InMaking, Dropping, Debtors, Linkers, Inums, Null
<1> QED BY <1>1, <1>2, <1>8, GetStill

\* A call begins.
LEMMA CallDisk ==
  ASSUME NEW p \in Procs, NEW r \in Requests, Ready(p), Call(p, r)
  PROVE  DiskOK'
<1> DEFINE i == Start(p, r.path)
           f == Walking([User EXCEPT !.op = r.op, !.new = r.new], i, r.path)
<1>1. At(p, "user")
  BY DEF Call
<1>2. k[p] \in Frame /\ panicked = "no" /\ TypeOK
  BY <1>1, ReadyAt
<1>3. CASE NoSlot(i)
  BY <1>2, <1>3, StopStill DEF Call, Panic, NoDisk, Ready
<1>4. CASE ~NoSlot(i)
  <2>1. Become(p, f) /\ UNCHANGED <<disk, cwd, ftable, panicked>>
    BY <1>4 DEF Call, procVars
  <2>2. Known(p, i)
    <3>1. Root \in Inums
      BY NumberAssumption DEF Root, Inums
    <3>2. disk[Root].nlink >= 1
      BY <3>1, NamedLinked DEF Ready, DiskOK
    <3> QED BY <3>2 DEF Known, Start
  <2>3. /\ f.pc = "walk" /\ f.ip = i /\ f.dp = Null /\ f.src = Null
        /\ f.drop = Null /\ Place(f) = "walk"
    BY DEF Walking, User, Place, Dropping
  <2> HIDE DEF f, i
  <2>4. Goes(p, f)
    BY <2>2, <2>3, GoesKnown
       DEF InMaking, Dropping, Debtors, Linkers, Inums, Null
  <2> QED BY <1>2, <2>1, <2>4, GoesStill DEF Ready
<1> QED BY <1>3, <1>4

\* open() looks at its inode.
LEMMA OpenLockDisk ==
  ASSUME NEW p \in Procs, Ready(p), OpenLock(p) PROVE DiskOK'
<1> DEFINE f == IF Locked(p)[k[p].ip].type = "dir" /\ k[p].op = "openw"
                THEN Drop([k[p] EXCEPT !.ip = Null], k[p].ip, "user")
                ELSE [k[p] EXCEPT !.pc = "opened"]
<1>1. /\ At(p, "go") /\ Become(p, f)
      /\ UNCHANGED <<disk, cwd, ftable, panicked>>
      /\ k[p].op \in {"open", "openw"}
  BY DEF OpenLock, PutLocked, Locks, Kernel, NoDisk, procVars
<1>2. /\ k[p] \in Frame /\ k[p].pc = "go" /\ panicked = "no"
      /\ FrameOK(k[p]) /\ Place(k[p]) = "go" /\ k[p].src = Null
  BY <1>1, ReadyAt DEF Dropping, FrameOK, HasSrc
<1>3. /\ f.pc \in {"put", "opened"} /\ f.ip \in {Null, k[p].ip}
      /\ f.dp = k[p].dp /\ f.src = Null /\ f.drop \in {Null, k[p].ip}
      /\ f.pc = "put" => f.back = "user"
      /\ Place(f) \in {"user", "opened"}
  BY <1>2 DEF Drop, Frame, Place, Dropping, FrameOK
<1> HIDE DEF f
<1>4. Goes(p, f)
  BY <1>2, <1>3, GoesKnown, OwnKnown
     DEF InMaking, Dropping, Debtors, Linkers, Inums, Null
<1> QED BY <1>1, <1>2, <1>4, GoesStill DEF Ready

\* A call drops its ip, and is done with it.
LEMMA DropIpDisk ==
  ASSUME NEW p \in Procs, NEW l \in {"user", "kept"}, Ready(p),
         p \in live, panicked = "no", k[p].pc \notin Dropping,
         Become(p, Drop([k[p] EXCEPT !.ip = Null], k[p].ip, l)),
         UNCHANGED <<disk, cwd, ftable, panicked>>
  PROVE  DiskOK'
<1> DEFINE f == Drop([k[p] EXCEPT !.ip = Null], k[p].ip, l)
<1>1. k[p] \in Frame
  BY DEF Ready, LocksInv, RefsInv, TypeOK
<1>2. /\ f.pc = "put" /\ f.ip = Null /\ f.dp = k[p].dp /\ f.src = k[p].src
      /\ f.drop = k[p].ip /\ f.back = l /\ Place(f) = l
  BY <1>1 DEF Drop, Frame, Place, Dropping
<1> HIDE DEF f
<1>3. Goes(p, f)
  BY <1>2, GoesKnown, OwnKnown
     DEF InMaking, Dropping, Debtors, Linkers, Inums, Null
<1> QED BY <1>3, GoesStill DEF f, Ready

\* A call drops its dp, and owes nothing.
LEMMA DropDpDisk ==
  ASSUME NEW p \in Procs, NEW l \in {"user", "bad"}, Ready(p),
         p \in live, panicked = "no", k[p].pc \in {"go", "exists", "kept"},
         l = "bad" => k[p].pc = "exists",
         Become(p, Drop([k[p] EXCEPT !.dp = Null], k[p].dp, l)),
         UNCHANGED <<disk, cwd, ftable, panicked>>
  PROVE  DiskOK'
<1> DEFINE f == Drop([k[p] EXCEPT !.dp = Null], k[p].dp, l)
<1>1. k[p] \in Frame /\ Place(k[p]) = k[p].pc
  BY DEF Ready, LocksInv, RefsInv, TypeOK, Place, Dropping
<1>2. /\ f.pc = "put" /\ f.ip = k[p].ip /\ f.dp = Null /\ f.src = k[p].src
      /\ f.drop = k[p].dp /\ f.back = l /\ Place(f) = l
  BY <1>1 DEF Drop, Frame, Place, Dropping
<1> HIDE DEF f
<1>3. Goes(p, f)
  BY <1>1, <1>2, GoesKnown, OwnKnown
     DEF InMaking, Dropping, Debtors, Linkers, Inums, Null
<1> QED BY <1>3, GoesStill DEF f, Ready

\* The file takes the inode over.
LEMMA OpenDoneDisk ==
  ASSUME NEW p \in Procs, Ready(p), OpenDone(p) PROVE DiskOK'
<1>1. /\ At(p, "opened") /\ Become(p, User)
      /\ UNCHANGED <<disk, cwd, panicked>>
  BY DEF OpenDone
<1>2. panicked = "no" /\ TypeOK
  BY <1>1, ReadyAt
<1>3. PICK g \in FreeFiles :
        ftable' = [ftable EXCEPT ![g] = [ref |-> 1, ip |-> k[p].ip]]
  BY DEF OpenDone
<1>4. ASSUME NEW i \in Inums, Filed(i)' PROVE Filed(i) \/ Known(p, i)
  <2>1. PICK h \in 1..NFILE : ftable'[h].ref > 0 /\ ftable'[h].ip = i
    BY <1>4 DEF Filed
  <2>2. CASE h = g
    <3>1. i = k[p].ip
      BY <1>2, <1>3, <2>1, <2>2 DEF TypeOK, FreeFiles
    <3> QED BY <3>1, OwnKnown
  <2>3. CASE h # g
    <3>1. ftable'[h] = ftable[h]
      BY <1>2, <1>3, <2>1, <2>3 DEF TypeOK, FreeFiles
    <3> QED BY <2>1, <3>1 DEF Filed
  <2> QED BY <2>2, <2>3
<1>5. KnownFiles(p)
  BY <1>1, <1>4 DEF KnownFiles
<1>6. Goes(p, User)
  BY GoesKnown DEF User, Place, Dropping, InMaking, Debtors, Linkers, Inums,
                   Null
<1> QED BY <1>1, <1>2, <1>5, <1>6, GoesFiles DEF Ready

\* Steps that unlock what they drop.
LEMMA DropsDisk ==
  ASSUME NEW p \in Procs, Ready(p),
         OpenFails(p) \/ Made(p) \/ Exec(p) \/ LinkFails(p) \/ UnlinkFails(p)
           \/ LinkGivesUp(p) \/ UnlinkGivesUp(p)
  PROVE  DiskOK'
<1>1. CASE OpenFails(p) \/ Made(p) \/ Exec(p) \/ LinkFails(p)
  <2>1. /\ At(p, k[p].pc) /\ k[p].pc \in {"opened", "made", "go"}
        /\ Become(p, Drop([k[p] EXCEPT !.ip = Null], k[p].ip, "user"))
        /\ UNCHANGED <<disk, cwd, ftable, panicked>>
    BY <1>1 DEF OpenFails, Made, Exec, LinkFails, Locks, At, PutLocked,
                Kernel, NoDisk, procVars
  <2> QED BY <2>1, ReadyAt, DropIpDisk DEF Dropping
<1>2. CASE UnlinkFails(p)
  <2>1. /\ At(p, "go") /\ UNCHANGED <<disk, cwd, ftable, panicked>>
        /\ Become(p, Drop([k[p] EXCEPT !.dp = Null], k[p].dp, "user"))
    BY <1>2 DEF UnlinkFails, Locks, PutLocked, Kernel, NoDisk, procVars
  <2> QED BY <2>1, ReadyAt, DropDpDisk
<1>3. CASE LinkGivesUp(p)
  <2>1. /\ At(p, "exists") /\ UNCHANGED <<disk, cwd, ftable, panicked>>
        /\ Become(p, Drop([k[p] EXCEPT !.dp = Null], k[p].dp, "bad"))
    BY <1>3 DEF LinkGivesUp, PutLocked, Kernel, NoDisk, procVars
  <2> QED BY <2>1, ReadyAt, DropDpDisk
<1>4. CASE UnlinkGivesUp(p)
  <2>1. /\ At(p, "kept") /\ UNCHANGED <<disk, cwd, ftable, panicked>>
        /\ Become(p, Drop([k[p] EXCEPT !.dp = Null], k[p].dp, "user"))
    BY <1>4 DEF UnlinkGivesUp, PutLocked, Kernel, NoDisk, procVars
  <2> QED BY <2>1, ReadyAt, DropDpDisk
<1> QED BY <1>1, <1>2, <1>3, <1>4

\* The name that a call looks up in the directory it has locked.
LEMMA GoLooksUp ==
  ASSUME NEW p \in Procs, Ready(p), Locks(p, "go"), k[p].op \in ForParent,
         k[p].op = "unlink" => k[p].name \in Names
  PROVE  LET i == dirlookup(k[p].dp, k[p].name) IN
         /\ k[p].dp \in Inums /\ Wants(k[p]) = k[p].dp
         /\ i # Null => i \in Inums /\ Known(p, i)
         /\ i # Null /\ k[p].name \in Names => disk[i].nlink >= 1
         /\ i = Null => k[p].name \in Names
         /\ disk[k[p].dp].type = "dir"
<1>1. Wants(k[p]) = k[p].dp /\ k[p].dp \in Inums /\ p \in live
  BY GoLocks DEF Ready, LocksInv
<1>2. k[p] \in Frame /\ k[p].pc = "go" /\ k[p].dp # Null
  BY <1>1 DEF Ready, LocksInv, RefsInv, TypeOK, Locks, At, Inums, Null
<1>3. disk[k[p].dp].type = "dir"
  BY <1>2 DEF Ready, DiskOK, AliveOK
<1>4. k[p].name = ".." => ~Gone(k[p].dp)
  <2>1. k[p].name = ".." => k[p].op \in Making \cup {"link2"}
    BY NameAssumption DEF ForParent
  <2> QED BY <1>2, <2>1 DEF Ready, Strays
<1>5. k[p].name \in Elements
  BY <1>2 DEF Frame
<1> QED BY <1>1, <1>3, <1>4, <1>5, LookupKnown, OwnKnown DEF Ready, Known

\* create() finds the name.
LEMMA CreateFindsDisk ==
  ASSUME NEW p \in Procs, Ready(p), CreateFinds(p) PROVE DiskOK'
<1> DEFINE i == dirlookup(k[p].dp, k[p].name)
           f == Drop([k[p] EXCEPT !.ip = i, !.dp = Null], k[p].dp, "found")
<1>1. /\ At(p, "go") /\ Locks(p, "go") /\ NoDisk /\ k[p].op \in Making
      /\ Get(p, Visited(p), i, f) /\ i # Null
  BY DEF CreateFinds, Locks
<1>2. /\ k[p] \in Frame /\ k[p].pc = "go" /\ panicked = "no"
      /\ FrameOK(k[p]) /\ Place(k[p]) = "go"
  BY <1>1, ReadyAt DEF Dropping
<1>3. k[p].op \in ForParent /\ k[p].op # "unlink" /\ k[p].src = Null
  BY <1>1, <1>2 DEF ForParent, Making, FrameOK, HasSrc
<1>4. Known(p, i)
  BY <1>1, <1>3, GoLooksUp
<1>5. /\ f.pc = "put" /\ f.ip = i /\ f.dp = Null /\ f.src = Null
      /\ f.drop = k[p].dp /\ f.back = "found" /\ Place(f) = "found"
  BY <1>2, <1>3 DEF Drop, Frame, Place, Dropping
<1> HIDE DEF f, i
<1>6. Goes(p, f)
  BY <1>4, <1>5, GoesKnown, OwnKnown
     DEF InMaking, Dropping, Debtors, Linkers, Inums, Null
<1> QED BY <1>1, <1>2, <1>6, GetStill

\* And looks at what it names.
LEMMA CreateFoundDisk ==
  ASSUME NEW p \in Procs, Ready(p), CreateFound(p) PROVE DiskOK'
<1> DEFINE f == [k[p] EXCEPT !.pc = "opened"]
<1>1. /\ At(p, "found") /\ UNCHANGED <<disk, cwd, ftable, panicked>>
      /\ Become(p, f) \/ Become(p, Drop([k[p] EXCEPT !.ip = Null], k[p].ip,
                                        "user"))
  BY DEF CreateFound, PutLocked, Locks, Kernel, NoDisk, procVars
<1>2. /\ k[p] \in Frame /\ k[p].pc = "found" /\ panicked = "no"
      /\ p \in live /\ FrameOK(k[p]) /\ Place(k[p]) = "found"
  BY <1>1, ReadyAt DEF Dropping
<1>3. CASE Become(p, Drop([k[p] EXCEPT !.ip = Null], k[p].ip, "user"))
  BY <1>1, <1>2, <1>3, DropIpDisk DEF Dropping
<1>4. CASE Become(p, f)
  <2>1. /\ f.pc = "opened" /\ f.ip = k[p].ip /\ f.dp = k[p].dp
        /\ f.src = k[p].src /\ f.drop = Null /\ Place(f) = "opened"
    BY <1>2 DEF Frame, Place, Dropping, FrameOK
  <2> HIDE DEF f
  <2>2. Goes(p, f)
    BY <2>1, GoesKnown, OwnKnown
       DEF InMaking, Dropping, Debtors, Linkers, Inums, Null
  <2> QED BY <1>1, <1>2, <1>4, <2>2, GoesStill DEF Ready
<1> QED BY <1>1, <1>3, <1>4

\* link() finds the name.
LEMMA LinkExistsDisk ==
  ASSUME NEW p \in Procs, Ready(p), LinkExists(p) PROVE DiskOK'
<1> DEFINE i == dirlookup(k[p].dp, k[p].name)
           f == Drop(k[p], i, "exists")
<1>1. /\ At(p, "go") /\ Locks(p, "go") /\ NoDisk /\ k[p].op = "link2"
      /\ Get(p, Locked(p), i, f) /\ i # Null
  BY DEF LinkExists, Locks
<1>2. /\ k[p] \in Frame /\ k[p].pc = "go" /\ panicked = "no"
      /\ FrameOK(k[p]) /\ Place(k[p]) = "go"
  BY <1>1, ReadyAt DEF Dropping
<1>3. Known(p, i)
  BY <1>1, GoLooksUp DEF ForParent
<1>4. /\ f.pc = "put" /\ f.ip = k[p].ip /\ f.dp = k[p].dp
      /\ f.src = k[p].src /\ f.drop = i /\ f.back = "exists"
      /\ Place(f) = "exists"
  BY <1>2 DEF Drop, Frame, Place, Dropping
<1> HIDE DEF f, i
<1>5. Goes(p, f)
  BY <1>2, <1>3, <1>4, GoesKnown, OwnKnown
     DEF InMaking, Dropping, Debtors, Linkers, Inums, Null
<1> QED BY <1>1, <1>2, <1>5, GetStill

\* One more reference to drop.
LEMMA RestDisk ==
  ASSUME NEW p \in Procs, Ready(p), Rest(p) PROVE DiskOK'
<1> DEFINE i == k[p].src
           f == Drop([k[p] EXCEPT !.src = Null], i, "user")
<1>1. /\ At(p, "rest") /\ UNCHANGED <<disk, cwd, ftable, panicked>>
      /\ Become(p, f)
  BY DEF Rest, Kernel, NoDisk, procVars
<1>2. k[p] \in Frame /\ panicked = "no"
  BY <1>1, ReadyAt
<1>3. /\ f.pc = "put" /\ f.ip = k[p].ip /\ f.dp = k[p].dp /\ f.src = Null
      /\ f.drop = i /\ f.back = "user" /\ Place(f) = "user"
  BY <1>2 DEF Drop, Frame, Place, Dropping
<1>4. Known(p, i)
  BY OwnKnown
<1> HIDE DEF f, i
<1>5. Goes(p, f)
  BY <1>3, <1>4, GoesKnown, OwnKnown
     DEF InMaking, Dropping, Debtors, Linkers, Inums, Null
<1> QED BY <1>1, <1>2, <1>5, GoesStill DEF Ready

\* unlink() finds the entry that it will erase.
LEMMA UnlinkFindsDisk ==
  ASSUME NEW p \in Procs, Ready(p), UnlinkFinds(p) PROVE DiskOK'
<1> DEFINE i == dirlookup(k[p].dp, k[p].name)
           f == [k[p] EXCEPT !.pc = "unlink", !.ip = i]
<1>1. /\ At(p, "go") /\ Locks(p, "go") /\ NoDisk /\ k[p].op = "unlink"
      /\ Get(p, Locked(p), i, f) /\ i # Null /\ k[p].name \notin {".", ".."}
  BY DEF UnlinkFinds, Locks
<1>2. /\ k[p] \in Frame /\ k[p].pc = "go" /\ panicked = "no"
      /\ FrameOK(k[p]) /\ Place(k[p]) = "go"
  BY <1>1, ReadyAt DEF Dropping
<1>3. k[p].name \in Names
  BY <1>1, <1>2 DEF Frame, Elements, Entries
<1>4. Known(p, i)
  BY <1>1, <1>3, GoLooksUp DEF ForParent
<1>5. i = disk[k[p].dp].ents[k[p].name]
  BY <1>3, NameAssumption DEF dirlookup
<1>6. /\ f.pc = "unlink" /\ f.ip = i /\ f.dp = k[p].dp
      /\ f.src = k[p].src /\ f.drop = k[p].drop /\ f.name = k[p].name
      /\ Place(f) = "unlink"
  BY <1>2 DEF Frame, Place, Dropping
<1> HIDE DEF f, i
<1>7. CASE NoSlot(i)
  BY <1>1, <1>2, <1>7, StopStill DEF Get, Ready
<1>8. CASE ~NoSlot(i)
  <2>1. /\ Become(p, f) /\ UNCHANGED <<disk, cwd, ftable, panicked>>
    BY <1>1, <1>8 DEF Get, Kernel, NoDisk, procVars
  <2>2. k'[p] = f
    BY <2>1 DEF Become, Ready, LocksInv, RefsInv, TypeOK
  <2>3. Usual(p)
    <3>1. \A j \in Inums : Uses(f, j) => Reaches(p, j)
      BY <1>4, <1>6 DEF Uses, Reaches, Known
    <3> QED BY <1>2, <1>6, <2>1, <3>1, SameFiles, FrameUsual DEF Ready, DiskOK
  <2>4. Frugal(p)
    <3>1. disk' = disk
      BY <2>1
    <3>2. \A v \in {"ip", "dp", "src"} :
            Owes(disk, f, v) /\ f[v] # Null =>
              Owes(disk, k[p], v) /\ f[v] = k[p][v]
      BY <1>6, OwesNothing DEF Debtors, Linkers
    <3> HIDE DEF Owes
    <3> QED BY <2>2, <3>1, <3>2 DEF Frugal
  <2>5. CallOK(p)'
    BY <1>3, <1>5, <1>6, <2>1, <2>2
       DEF CallOK, Found, InMaking, Dropping
  <2>6. PanicOK'
    BY <2>1 DEF PanicOK, Ready, DiskOK
  <2> QED BY <1>1, <2>3, <2>4, <2>5, <2>6, StillStep DEF Ready
<1> QED BY <1>7, <1>8

\* chdir() looks at its directory.
LEMMA ChdirDisk ==
  ASSUME NEW p \in Procs, Ready(p), Chdir(p) PROVE DiskOK'
<1> DEFINE f == Drop(k[p], cwd[p], "cd")
<1>1. /\ At(p, "go") /\ k[p].op = "chdir"
      /\ UNCHANGED <<disk, ftable, panicked>>
  BY DEF Chdir, PutLocked, Locks, Kernel, NoDisk, procVars
<1>2. /\ k[p] \in Frame /\ k[p].pc = "go" /\ panicked = "no" /\ TypeOK
      /\ p \in live /\ FrameOK(k[p]) /\ Place(k[p]) = "go"
  BY <1>1, ReadyAt DEF Dropping
<1>3. CASE Become(p, Drop([k[p] EXCEPT !.ip = Null], k[p].ip, "user"))
           /\ cwd' = cwd
  BY <1>1, <1>2, <1>3, DropIpDisk DEF Dropping
<1>4. CASE Become(p, f) /\ cwd' = [cwd EXCEPT ![p] = Null]
  <2>1. /\ f.pc = "put" /\ f.ip = k[p].ip /\ f.dp = k[p].dp
        /\ f.src = k[p].src /\ f.drop = cwd[p] /\ f.back = "cd"
        /\ Place(f) = "cd"
    BY <1>2 DEF Drop, Frame, Place, Dropping
  <2> HIDE DEF f
  <2>2. Goes(p, f)
    BY <2>1, GoesKnown, OwnKnown
       DEF InMaking, Dropping, Debtors, Linkers, Inums, Null
  <2>3. KnownFiles(p)
    BY <1>1, <1>2, <1>4 DEF KnownFiles, Filed, TypeOK
  <2> QED BY <1>1, <1>2, <1>4, <2>2, <2>3, GoesFiles DEF Ready
<1>5. \/ Become(p, Drop([k[p] EXCEPT !.ip = Null], k[p].ip, "user"))
           /\ cwd' = cwd
      \/ Become(p, f) /\ cwd' = [cwd EXCEPT ![p] = Null]
  BY DEF Chdir, PutLocked, Kernel, procVars
<1> QED BY <1>3, <1>4, <1>5

\* A frame of a process in user space, or on its way out.
LEMMA UserGoes ==
  ASSUME NEW p \in Procs, NEW l \in {"user", "exit", "dead"}
  PROVE  /\ Goes(p, [User EXCEPT !.pc = l])
         /\ \A i : Known(p, i) => Goes(p, Drop(User, i, l))
<1>1. Goes(p, [User EXCEPT !.pc = l])
  BY GoesKnown DEF User, Place, Dropping, InMaking, Debtors, Linkers, Inums,
                   Null
<1>2. ASSUME NEW i, Known(p, i) PROVE Goes(p, Drop(User, i, l))
  <2> DEFINE f == Drop(User, i, l)
  <2>1. /\ f.pc = "put" /\ f.ip = Null /\ f.dp = Null /\ f.src = Null
        /\ f.drop = i /\ f.back = l /\ Place(f) = l
    BY DEF Drop, User, Place, Dropping
  <2> HIDE DEF f
  <2>2. Goes(p, f)
    BY <1>2, <2>1, GoesKnown
       DEF InMaking, Dropping, Debtors, Linkers, Inums, Null
  <2> QED BY <2>2 DEF f
<1> QED BY <1>1, <1>2

\* The new directory takes the place of the old one.
LEMMA ChdirDoneDisk ==
  ASSUME NEW p \in Procs, Ready(p), ChdirDone(p) PROVE DiskOK'
<1>1. /\ At(p, "cd") /\ Become(p, User) /\ UNCHANGED <<disk, ftable, panicked>>
      /\ cwd' = [cwd EXCEPT ![p] = k[p].ip]
  BY DEF ChdirDone
<1>2. panicked = "no" /\ TypeOK
  BY <1>1, ReadyAt
<1>3. KnownFiles(p)
  BY <1>1, <1>2, OwnKnown DEF KnownFiles, Filed, TypeOK
<1>4. Goes(p, User)
  BY GoesKnown DEF User, Place, Dropping, InMaking, Debtors, Linkers, Inums,
                   Null
<1> QED BY <1>1, <1>2, <1>3, <1>4, GoesFiles DEF Ready

\* The open files have the inodes they had.
LEMMA FiledKept ==
  ASSUME FilesOK, FilesOK',
         \A g \in 1..NFILE : ftable'[g].ip \in {Null, ftable[g].ip}
  PROVE  \A i \in Inums : Filed(i)' => Filed(i)
<1> SUFFICES ASSUME NEW i \in Inums, Filed(i)' PROVE Filed(i)
  OBVIOUS
<1>1. PICK g \in 1..NFILE : ftable'[g].ref > 0 /\ ftable'[g].ip = i
  BY DEF Filed
<1>2. ftable[g].ip = i /\ ftable[g].ref > 0
  BY <1>1 DEF FilesOK, Inums, Null
<1> QED BY <1>2 DEF Filed

\* dup() and fork() share them.
LEMMA ShareDisk ==
  ASSUME NEW p \in Procs, Ready(p), Dup(p) \/ \E q \in Procs : Fork(p, q)
  PROVE  DiskOK'
<1>1. At(p, "user") /\ UNCHANGED <<disk, k, panicked>>
  BY DEF Dup, Fork
<1>2. /\ k[p] \in Frame /\ k[p].pc = "user" /\ panicked = "no" /\ TypeOK
      /\ FrameOK(k[p]) /\ Place(k[p]) = "user"
  BY <1>1, ReadyAt DEF Dropping
<1>3. \A g \in 1..NFILE : ftable'[g].ip = ftable[g].ip
  <2> TAKE g \in 1..NFILE
  <2>1. ftable[g] \in [ref : Int, ip : Pointers]
    BY <1>2 DEF TypeOK
  <2>2. CASE Dup(p)
    BY <1>2, <2>1, <2>2 DEF Dup, TypeOK
  <2>3. CASE \E q \in Procs : Fork(p, q)
    BY <2>1, <2>3 DEF Fork
  <2> QED BY <2>2, <2>3
<1>4. \A i \in Inums : Filed(i)' => Filed(i)
  BY <1>3, FiledKept DEF Ready, LocksInv, RefsInv
<1>5. \A q \in Procs : cwd'[q] \in {cwd[q], cwd[p]}
  BY <1>2 DEF Dup, Fork, TypeOK
<1>6. KnownFiles(p)
  BY <1>4, <1>5, OwnKnown DEF KnownFiles
<1>7. Become(p, k[p])
  BY <1>1, <1>2 DEF Become, TypeOK
<1>8. Goes(p, k[p])
  BY <1>2, GoesKnown, OwnKnown
     DEF InMaking, Dropping, Debtors, Linkers, Inums, Null, FrameOK
<1> QED BY <1>1, <1>2, <1>6, <1>7, <1>8, GoesFiles DEF Ready

\* A file is closed.
LEMMA CloseDisk ==
  ASSUME NEW p \in Procs, Ready(p), SysClose(p) \/ ExitClose(p)
  PROVE  DiskOK'
<1>1. PICK d \in 1..NOFILE, l \in {"user", "exit"} :
        Close(p, d, l) /\ At(p, l) /\ ofile[p][d] # Null
  BY DEF SysClose, ExitClose, IsFirst
<1> DEFINE g == ofile[p][d]
<1>2. panicked = "no" /\ TypeOK /\ UNCHANGED <<disk, cwd, panicked>>
  BY <1>1, ReadyAt DEF Close
<1>3. g \in 1..NFILE /\ ftable[g] \in [ref : Int, ip : Pointers]
  <2>1. g \in 0..NFILE /\ g # 0
    BY <1>1, <1>2 DEF TypeOK, Null
  <2>2. g \in 1..NFILE
    BY <2>1, NumberAssumption
  <2> QED BY <1>2, <2>2 DEF TypeOK
<1>4. \A h \in 1..NFILE : ftable'[h].ip \in {Null, ftable[h].ip}
  <2> TAKE h \in 1..NFILE
  <2>1. ftable[h] \in [ref : Int, ip : Pointers]
    BY <1>2 DEF TypeOK
  <2>2. \/ ftable' = [ftable EXCEPT ![g].ref = @ - 1]
        \/ ftable' = [ftable EXCEPT ![g] = NoFile]
    BY <1>1 DEF Close
  <2> HIDE DEF g
  <2>3. CASE h # g
    <3>1. ftable'[h] = ftable[h]
      BY <1>2, <2>2, <2>3 DEF TypeOK
    <3> QED BY <3>1
  <2>4. CASE h = g
    <3>1. \/ ftable'[g] = [ftable[g] EXCEPT !.ref = ftable[g].ref - 1]
          \/ ftable'[g] = NoFile
      BY <1>2, <1>3, <2>2 DEF TypeOK
    <3> QED BY <1>3, <2>4, <3>1 DEF NoFile
  <2> QED BY <2>3, <2>4
<1>5. KnownFiles(p)
  BY <1>2, <1>4, FiledKept DEF Ready, LocksInv, RefsInv, KnownFiles
<1>6. CASE ftable[g].ref > 1
  <2>1. Become(p, [User EXCEPT !.pc = l])
    <3>1. User = [User EXCEPT !.pc = "user"]
      BY DEF User
    <3> QED BY <1>1, <1>6, <3>1 DEF Close
  <2> QED BY <1>2, <1>5, <2>1, UserGoes, GoesFiles DEF Ready
<1>7. CASE ~(ftable[g].ref > 1)
  <2>1. Become(p, Drop(User, ftable[g].ip, l))
    BY <1>1, <1>7 DEF Close
  <2>2. Known(p, ftable[g].ip)
    <3>1. ftable[g].ref > 0
      <4>1. ftable[g].ref = Cardinality(Descriptors(g))
        BY <1>3 DEF Ready, LocksInv, RefsInv, FileRefs
      <4>2. p \in live
        BY <1>1 DEF At
      <4>3. <<p, d>> \in Descriptors(g)
        BY <4>2 DEF Descriptors
      <4>4. IsFiniteSet(Descriptors(g))
        <5>1. IsFiniteSet(live) /\ IsFiniteSet(1..NOFILE)
          BY <1>2, ProcAssumption, NumberAssumption, FS_Subset, FS_Interval
             DEF TypeOK
        <5>2. IsFiniteSet(live \X (1..NOFILE))
          BY <5>1, FS_Product
        <5> QED BY <5>2, FS_Subset DEF Descriptors
      <4>5. Cardinality(Descriptors(g)) >= 1
        BY <4>3, <4>4, CountMember
      <4> QED BY <1>3, <4>1, <4>5
    <3> QED BY <1>3, <3>1 DEF Known, Filed
  <2> QED BY <1>2, <1>5, <2>1, <2>2, UserGoes, GoesFiles DEF Ready
<1> QED BY <1>6, <1>7

\* A process ends.
LEMMA ExitDisk ==
  ASSUME NEW p \in Procs, Ready(p), ExitCall(p) \/ ExitDrop(p) \/ ExitDone(p)
  PROVE  DiskOK'
<1>1. At(p, k[p].pc) /\ UNCHANGED <<disk, ftable, panicked>>
  BY DEF ExitCall, ExitDrop, ExitDone, At, Kernel, NoDisk, procVars
<1>2. panicked = "no" /\ TypeOK
  BY <1>1, ReadyAt
<1>3. KnownFiles(p)
  BY <1>1, <1>2 DEF KnownFiles, Filed, TypeOK, ExitCall, ExitDrop, ExitDone,
                    Kernel, procVars
<1>4. User = [User EXCEPT !.pc = "user"]
  BY DEF User
<1>5. \/ Become(p, [User EXCEPT !.pc = "exit"])
      \/ Become(p, [User EXCEPT !.pc = "user"])
      \/ Become(p, Drop(User, cwd[p], "dead"))
  BY <1>4 DEF ExitCall, ExitDrop, ExitDone
<1>6. PICK f : Become(p, f) /\ Goes(p, f)
  BY <1>5, UserGoes, OwnKnown
<1> QED BY <1>1, <1>2, <1>3, <1>6, GoesFiles DEF Ready

\* iput() is done.
LEMMA PutDisk ==
  ASSUME NEW p \in Procs, Ready(p), Put(p) \/ Freed(p) PROVE DiskOK'
<1> DEFINE f == IF k[p].back = "user" THEN User
                ELSE [k[p] EXCEPT !.pc = k[p].back, !.drop = Null]
<1>1. /\ At(p, k[p].pc) /\ k[p].pc \in {"put", "freed"} /\ Become(p, f)
      /\ UNCHANGED <<disk, cwd, ftable, panicked>>
  BY DEF Put, Freed, Release, At, Kernel, NoDisk, procVars
<1>2. k[p] \in Frame /\ panicked = "no"
  BY <1>1, ReadyAt
<1>3. k[p].back \notin InMaking \cup {"unlink"} /\ k[p].back \in Places
  BY <1>1, <1>2 DEF Ready, DiskOK, CallOK, Dropping, Frame
<1>4. Goes(p, f)
  <2>1. CASE k[p].back = "user"
    <3>1. User = [User EXCEPT !.pc = "user"] /\ f = User
      BY <2>1 DEF User
    <3> QED BY <3>1, UserGoes
  <2>2. CASE k[p].back # "user"
    <3>1. /\ f.pc = k[p].back /\ f.ip = k[p].ip /\ f.dp = k[p].dp
          /\ f.src = k[p].src /\ f.drop = Null /\ f.op = k[p].op
          /\ Place(f) = Place(k[p]) /\ f.pc \notin Dropping
      BY <1>1, <1>2, <1>3, <2>2 DEF Frame, Places, Place, Dropping
    <3> HIDE DEF f
    <3>2. \A v \in {"ip", "dp", "src"} :
            Owes(disk, f, v) /\ f[v] # Null =>
              Owes(disk, k[p], v) /\ f[v] = k[p][v]
      BY <3>1 DEF Owes
    <3>3. \A i \in Inums : Uses(f, i) => Known(p, i)
      BY <3>1 DEF Uses, Known, Inums, Null
    <3> QED BY <1>3, <3>1, <3>2, <3>3 DEF Goes, Dropping
  <2> QED BY <2>1, <2>2
<1> HIDE DEF f
<1> QED BY <1>1, <1>2, <1>4, GoesStill DEF Ready

\* A wanted inode is not free: ilock() does not stop the kernel.
LEMMA IlockHolds ==
  ASSUME NEW p \in Procs, Ready(p), IlockPanic(p) PROVE FALSE
<1> DEFINE w == Wants(k[p])
<1>1. At(p, k[p].pc) /\ w # Null /\ NoType(w)
  BY DEF IlockPanic
<1>2. k[p] \in Frame
  BY <1>1, ReadyAt
<1>3. w \in Inums /\ Uses(k[p], w)
  BY <1>1, <1>2 DEF Wants, Uses, Frame, Pointers
<1>4. Alive(w)
  BY <1>3 DEF Ready, DiskOK, AliveOK
<1> QED BY <1>1, <1>4 DEF Alive, NoType

\* iput() locks the inode that it will free: nobody uses it.
LEMMA PutUnusedDisk ==
  ASSUME NEW p \in Procs, Ready(p), PutUnused(p) PROVE DiskOK'
<1> DEFINE i == k[p].drop
           f == [k[p] EXCEPT !.pc = "trunc"]
<1>1. At(p, "put") /\ Unused(i)
  BY DEF PutUnused
<1>2. /\ k[p] \in Frame /\ panicked = "no" /\ p \in live /\ TypeOK
      /\ k[p].pc = "put" /\ FrameOK(k[p])
  BY <1>1, ReadyAt
<1>3. i \in Inums /\ icache[i].ref = 1
  BY <1>1, <1>2, DropRefs DEF Dropping, Ready, LocksInv, Unused
<1>4. k[p].ip # i /\ k[p].dp # i /\ icache[i].busy = Nobody
  BY <1>2, <1>3, SoleLock DEF Ready, Freeing
<1>5. Become(p, f) /\ UNCHANGED <<disk, cwd, ftable, panicked>>
  BY <1>4 DEF PutUnused, Unlocked, NoDisk, Kernel, procVars
<1>6. /\ Opened(i) = {} /\ Inside(i) = {} /\ Using("drop", i) = {p}
      /\ Using("ip", i) = {} /\ Using("dp", i) = {} /\ Using("src", i) = {}
  BY <1>2, <1>3, SoleRef DEF Ready, LocksInv
<1>7. ~Filed(i)
  BY <1>6 DEF Filed, Opened
<1>8. ASSUME NEW q \in Procs
      PROVE  /\ cwd[q] # i /\ k[q].ip # i /\ k[q].dp # i /\ k[q].src # i
             /\ q # p => k[q].drop # i
  <2>1. CASE q \in live
    BY <1>6, <2>1 DEF Inside, Using
  <2>2. CASE q \notin live
    BY <1>2, <1>3, <2>2
       DEF Ready, LocksInv, RefsInv, ProcsOK, User, Inums, Null
  <2> QED BY <2>1, <2>2
<1>9. /\ f.pc = "trunc" /\ f.drop = i /\ f.ip = k[p].ip /\ f.dp = k[p].dp
      /\ f.src = k[p].src /\ f.op = k[p].op /\ Place(f) = Place(k[p])
      /\ f.back = k[p].back
  BY <1>2 DEF Frame, Place, Dropping
<1>10. k'[p] = f /\ \A q \in Procs \ {p} : k'[q] = k[q]
  BY <1>2, <1>5 DEF Become, TypeOK
<1> HIDE DEF f, i
<1>11. ASSUME NEW j \in Inums, j # i, Alive(j) PROVE Alive(j)'
  BY <1>5, <1>9, <1>10, <1>11 DEF Alive
<1>12. \A q \in Procs, j \in Inums : Uses(k'[q], j) => Uses(k[q], j) /\ j # i
  <2> TAKE q \in Procs, j \in Inums
  <2>1. CASE q = p
    BY <1>8, <1>9, <1>10, <2>1 DEF Uses
  <2>2. CASE q # p
    BY <1>8, <1>10, <2>2 DEF Uses
  <2> QED BY <2>1, <2>2
<1>13. \A q \in Procs : k'[q].dp = k[q].dp /\ k'[q].src = k[q].src
  BY <1>9, <1>10
<1>14. \A q \in Procs, j \in Inums : Uses(k[q], j)' <=> Uses(k'[q], j)
  BY DEF Uses
<1>15. \A j \in Inums : Filed(j)' => Filed(j) /\ j # i
  BY <1>5, <1>7 DEF Filed
<1>16. AliveOK'
  <2>1. \A j \in Inums : Filed(j)' => Alive(j)'
    BY <1>11, <1>15 DEF Ready, DiskOK, AliveOK
  <2>2. ASSUME NEW q \in Procs, cwd[q] # Null PROVE Alive(cwd[q])'
    <3>1. cwd[q] \in Inums /\ cwd[q] # i /\ Alive(cwd[q])
      BY <1>2, <1>8, <2>2 DEF TypeOK, Pointers, Ready, DiskOK, AliveOK
    <3> QED BY <1>5, <1>9, <1>10, <3>1 DEF Alive
  <2>3. \A q \in Procs, j \in Inums : Uses(k'[q], j) => Alive(j)'
    BY <1>11, <1>12 DEF Ready, DiskOK, AliveOK
  <2> QED BY <1>5, <1>13, <1>14, <2>1, <2>2, <2>3
          DEF Ready, DiskOK, AliveOK
<1>17. ASSUME NEW q \in Procs PROVE CallOK(q)'
  <2>1. CallOK(q)
    BY <1>2 DEF Ready, DiskOK
  <2>2. CASE q = p
    BY <1>2, <1>9, <1>10, <2>1, <2>2 DEF CallOK, InMaking, Dropping
  <2>3. CASE q # p
    <3>1. k'[q] = k[q] /\ disk' = disk
      BY <1>5, <1>10, <2>3
    <3>2. New(q) /\ k[q].pc = "init" => New(q)'
      <4> SUFFICES ASSUME New(q), k[q].pc = "init" PROVE New(q)'
        OBVIOUS
      <4> DEFINE j == k[q].ip
      <4>1. j \in Inums
        BY CallPoints DEF Ready, InMaking
      <4>2. \A r \in Procs : r # q => ~Uses(k'[r], j)
        BY <1>12, <4>1 DEF New
      <4>3. ~Filed(j)' /\ (Filed(k[q].ip)' <=> Filed(j)')
        BY <1>15, <3>1, <4>1 DEF New, Filed
      <4>4. New(q)' <=>
              /\ disk'[k'[q].ip].nlink = 0 /\ k'[q].dp # k'[q].ip
              /\ ~Filed(k[q].ip)'
              /\ \A r \in Procs :
                   /\ cwd'[r] # k'[q].ip
                   /\ r # q => ~Uses(k'[r], k'[q].ip)
        BY DEF New, Uses
      <4> QED BY <1>5, <3>1, <4>2, <4>3, <4>4 DEF New
    <3>3. (Blank(q) => Blank(q)') /\ (Found(q) => Found(q)')
      BY <3>1 DEF Blank, Found
    <3> QED BY <2>1, <3>1, <3>2, <3>3 DEF CallOK
  <2> QED BY <2>2, <2>3
<1>18. CountsOK'
  <2>1. Aside(p)
    BY <1>5, <1>10 DEF Aside
  <2>2. ASSUME NEW j \in Inums PROVE Covers(p, j)
    <3>1. Debt(disk', k'[p], j) = Debt(disk, k[p], j)
      BY <1>5, <1>9, <1>10 DEF Debt, Owes
    <3>2. /\ Debt(disk, k[p], j) \in Nat /\ Due(disk, j) \in Nat
          /\ disk[j].nlink \in Int
      BY <1>2, <2>1, DebtChange, CountsFinite DEF TypeOK, Inode
    <3> QED BY <1>5, <3>1, <3>2 DEF Covers
  <2> QED BY <2>1, <2>2, CoversCounts DEF Ready, LocksInv, RefsInv, DiskOK
<1>19. FreeOK' /\ TreeOK' /\ DepthOK' /\ PanicOK'
  <2>1. SameShape
    BY <1>5 DEF SameShape
  <2> QED BY <1>5, <2>1, ShapeKept DEF FreeOK, PanicOK, Ready, DiskOK
<1> QED BY <1>16, <1>17, <1>18, <1>19 DEF DiskOK

-----------------------------------------------------------------------------
(* Steps that write a link count.                                          *)

\* An inode that p uses and has locked, or nobody has, is p's to write to.
LEMMA OwnSpared ==
  ASSUME NEW p \in Procs, LocksInv, \A q \in Procs : CallOK(q),
         NEW w \in Inums, icache[w].busy \in {p, Nobody}, Uses(k[p], w)
  PROVE  \A q \in Procs \ {p} :
           ~Holds(k[q], w) /\ (k[q].pc = "init" => k[q].ip # w)
<1> TAKE q \in Procs \ {p}
<1>1. ~Holds(k[q], w)
  BY ProcAssumption DEF LocksInv, LocksOK
<1>2. k[q].pc = "init" => k[q].ip # w
  BY DEF CallOK, New
<1> QED BY <1>1, <1>2

\* The link count of w becomes n.
Recounted(w, n) ==
  /\ disk'[w] = [disk[w] EXCEPT !.nlink = n]
  /\ \A i \in Inums \ {w} : disk'[i] = disk[i]
LEMMA RecountedShape ==
  ASSUME NEW w \in Inums, NEW n, TypeOK, Recounted(w, n)
  PROVE  /\ SameShape /\ disk'[w].nlink = n
         /\ \A i \in Inums \ {w} : disk'[i].nlink = disk[i].nlink
<1>1. disk[w] \in Inode
  BY DEF TypeOK
<1>2. /\ disk'[w].type = disk[w].type /\ disk'[w].ents = disk[w].ents
      /\ disk'[w].nlink = n
  BY <1>1 DEF Recounted, Inode
<1> QED BY <1>2 DEF Recounted, SameShape

\* What p may do then.
LEMMA CountStep ==
  ASSUME NEW p \in Procs, Ready(p), Usual(p), NEW w \in Inums, NEW n \in Int,
         Recounted(w, n), disk[w].type # "free",
         icache[w].busy \in {p, Nobody}, Uses(k[p], w),
         Debt(disk', k'[p], w) - Debt(disk, k[p], w) <= n - disk[w].nlink,
         \A j \in Inums \ {w} :
           Debt(disk', k'[p], j) <= Debt(disk, k[p], j),
         PanicOK', CallOK(p)'
  PROVE  DiskOK'
<1>1. /\ TypeOK /\ LocksInv /\ LocksInv' /\ DiskOK /\ panicked = "no"
      /\ \A q \in Procs : CallOK(q)
  BY DEF Ready, DiskOK, LocksInv, RefsInv, Usual
<1>2. /\ SameShape /\ disk'[w].nlink = n
      /\ \A i \in Inums \ {w} : disk'[i].nlink = disk[i].nlink
  BY <1>1, RecountedShape
<1>3. Spared(p)
  <2>1. \A q \in Procs \ {p} :
          ~Holds(k[q], w) /\ (k[q].pc = "init" => k[q].ip # w)
    BY <1>1, OwnSpared
  <2> QED BY <2>1 DEF Spared, Recounted
<1>4. ASSUME NEW i \in Inums PROVE Covers(p, i)
  <2> DEFINE d0 == Debt(disk, k[p], i)
             d1 == Debt(disk', k'[p], i)
             e == Due(disk, i)
             n0 == disk[i].nlink
             n1 == disk'[i].nlink
  <2>1. d0 \in Nat /\ d1 \in Nat
    BY <1>1, <1>3, SparedOthers, DebtChange DEF DiskOK
  <2>2. e \in Nat /\ n0 \in Int /\ n1 \in Int /\ Due(disk', i) = e
    BY <1>1, <1>2, CountsFinite, ShapeKept
       DEF LocksInv, RefsInv, TypeOK, Inode
  <2>3. d1 - d0 <= n1 - n0
    <3>1. CASE i = w
      BY <1>2, <3>1
    <3>2. CASE i # w
      <4>1. d1 <= d0 /\ n1 = n0
        BY <1>2, <3>2
      <4> HIDE DEF d0, d1, n0, n1
      <4> QED BY <2>1, <2>2, <4>1
    <3> QED BY <3>1, <3>2
  <2> HIDE DEF d0, d1, e, n0, n1
  <2>4. n1 - n0 >= (e - e) + (d1 - d0)
    BY <2>1, <2>2, <2>3
  <2> QED BY <2>2, <2>4 DEF Covers, d0, d1, e, n0, n1
<1>5. FreeOK'
  BY <1>1, <1>2 DEF FreeOK, DiskOK, SameShape
<1>6. TreeOK' /\ DepthOK'
  BY <1>1, <1>2, ShapeKept DEF DiskOK
<1> QED BY <1>1, <1>3, <1>4, <1>5, <1>6, OrderlyStep

\* What is used has a type.
LEMMA UsedType ==
  ASSUME NEW p \in Procs, AliveOK, NEW i \in Inums, Uses(k[p], i)
  PROVE  disk[i].type # "free"
BY DEF AliveOK, Alive

\* A step that writes a link count only moves no file.
LEMMA RecountUsual ==
  ASSUME NEW p \in Procs, NEW f, Ready(p), panicked = "no", Become(p, f),
         UNCHANGED <<cwd, ftable>>, SameShape, f.pc \notin {"trunc", "free"},
         \A i \in Inums : Uses(f, i) => Known(p, i),
         f.dp \in {Null, k[p].dp},
         f.src \in {Null, k[p].src} \/ disk'[f.src].type # "dir"
  PROVE  Usual(p) /\ k'[p] = f
<1>1. Usual(p)
  BY SameFiles, FrameUsual DEF Ready, DiskOK, SameShape, Reaches
<1> QED BY <1>1 DEF Become, Ready, LocksInv, RefsInv, TypeOK

\* create(): the new inode counts its first link.
LEMMA CreateInitDisk ==
  ASSUME NEW p \in Procs, Ready(p), CreateInit(p) PROVE DiskOK'
<1> DEFINE w == k[p].ip
           f == [k[p] EXCEPT !.pc = IF k[p].op = "mkdir" THEN "dots"
                                    ELSE "enter"]
<1>1. /\ At(p, "init") /\ Locks(p, "init") /\ Become(p, f)
      /\ UNCHANGED <<cwd, ftable, panicked>>
      /\ disk' = [disk EXCEPT ![w].nlink = 1]
  BY DEF CreateInit, Locks, Kernel, procVars, Relink
<1>2. /\ k[p] \in Frame /\ k[p].pc = "init" /\ panicked = "no"
      /\ FrameOK(k[p]) /\ Place(k[p]) = "init" /\ TypeOK
  BY <1>1, ReadyAt DEF Dropping
<1>3. Wants(k[p]) = w
  BY <1>2 DEF Wants
<1>4. w \in Inums /\ icache[w].busy = Nobody
  BY <1>1, <1>3, LockedSlots DEF Ready
<1>5. Recounted(w, 1)
  BY <1>1, <1>2, <1>4 DEF Recounted, TypeOK
<1>6. SameShape /\ disk'[w].nlink = 1
  BY <1>2, <1>4, <1>5, RecountedShape
<1>7. disk[w].nlink = 0 /\ Blank(p)
  BY <1>2 DEF Ready, DiskOK, CallOK, New, InMaking
<1>8. /\ f.pc = IF k[p].op = "mkdir" THEN "dots" ELSE "enter"
      /\ f.ip = w /\ f.dp = k[p].dp /\ f.src = k[p].src /\ f.op = k[p].op
      /\ f.drop = k[p].drop /\ Place(f) = f.pc /\ f.name = k[p].name
  BY <1>2 DEF Frame, Place, Dropping
<1> HIDE DEF f
<1>9. \A i \in Inums : Uses(f, i) => Known(p, i)
  BY <1>2, <1>8 DEF Uses, Known
<1>10. Usual(p) /\ k'[p] = f
  BY <1>1, <1>2, <1>6, <1>8, <1>9, RecountUsual
<1>11. \A j \in Inums : /\ Debt(disk, k[p], j) = 0
                        /\ Debt(disk', f, j) = IF w = j THEN 1 ELSE 0
  BY <1>2, <1>8 DEF Debt, Owes
<1>12. CallOK(p)'
  <2>1. Blank(p)'
    <3>1. /\ disk'[w].type = disk[w].type /\ disk'[w].ents = disk[w].ents
      BY <1>4, <1>6 DEF SameShape
    <3> QED BY <1>2, <1>6, <1>7, <1>8, <1>10, <3>1 DEF Blank
  <2> QED BY <1>8, <1>10, <2>1 DEF CallOK, InMaking, Dropping
<1>13. disk[w].type # "free" /\ Uses(k[p], w)
  BY <1>4, UsedType DEF Uses, Ready, DiskOK
<1>14. PanicOK'
  BY <1>1 DEF PanicOK, Ready, DiskOK
<1> HIDE DEF w
<1> QED BY <1>4, <1>5, <1>7, <1>10, <1>11, <1>12, <1>13, <1>14, CountStep

\* mkdir: the directory counts one more.
LEMMA CreateCountDisk ==
  ASSUME NEW p \in Procs, Ready(p), CreateCount(p) PROVE DiskOK'
<1> DEFINE w == k[p].dp
           n == icache[w].nlink + 1
           f == [k[p] EXCEPT !.pc = "dots2"]
<1>1. /\ At(p, "dots") /\ Become(p, f)
      /\ UNCHANGED <<cwd, ftable, panicked>>
      /\ disk' = [disk EXCEPT ![w].nlink = n]
  BY DEF CreateCount, Kernel, procVars, Relink
<1>2. /\ k[p] \in Frame /\ k[p].pc = "dots" /\ panicked = "no"
      /\ FrameOK(k[p]) /\ Place(k[p]) = "dots" /\ TypeOK
  BY <1>1, ReadyAt DEF Dropping
<1>3. /\ k[p].ip \in Inums /\ w \in Inums /\ k[p].ip # w /\ Holds(k[p], w)
  BY <1>2, HasLockedBoth DEF Ready
<1>4. icache[w].busy = p /\ n = disk[w].nlink + 1
  BY <1>2, <1>3, HeldFits DEF Ready, Fits
<1>5. n \in Int
  BY <1>2, <1>3, <1>4 DEF TypeOK, Inode
<1>6. Recounted(w, n)
  BY <1>1, <1>2, <1>3 DEF Recounted, TypeOK
<1>7. SameShape /\ disk'[w].nlink = n
  BY <1>2, <1>3, <1>6, RecountedShape
<1>8. Blank(p) /\ k[p].op = "mkdir"
  BY <1>2 DEF Ready, DiskOK, CallOK, InMaking, Blank
<1>9. /\ f.pc = "dots2" /\ f.ip = k[p].ip /\ f.dp = w /\ f.src = k[p].src
      /\ f.op = k[p].op /\ f.drop = k[p].drop /\ Place(f) = f.pc
      /\ f.name = k[p].name
  BY <1>2 DEF Frame, Place, Dropping
<1> HIDE DEF f, n
<1>10. \A i \in Inums : Uses(f, i) => Known(p, i)
  BY <1>2, <1>9 DEF Uses, Known
<1>11. Usual(p) /\ k'[p] = f
  BY <1>1, <1>2, <1>7, <1>9, <1>10, RecountUsual
<1>12. \A j \in Inums :
         /\ Debt(disk, k[p], j) = IF k[p].ip = j THEN 1 ELSE 0
         /\ Debt(disk', f, j) = (IF k[p].ip = j THEN 1 ELSE 0)
                                + (IF w = j THEN 1 ELSE 0)
  BY <1>2, <1>8, <1>9 DEF Debt, Owes
<1>13. CallOK(p)'
  <2>1. Blank(p)'
    <3>1. /\ disk'[k[p].ip] = disk[k[p].ip]
      BY <1>3, <1>6 DEF Recounted
    <3> QED BY <1>2, <1>8, <1>9, <1>11, <3>1 DEF Blank
  <2> QED BY <1>9, <1>11, <2>1 DEF CallOK, InMaking, Dropping
<1>14. disk[w].type # "free" /\ Uses(k[p], w)
  BY <1>3, UsedType DEF Uses, Ready, DiskOK
<1>15. PanicOK'
  BY <1>1 DEF PanicOK, Ready, DiskOK
<1>16. disk[w].nlink \in Int
  BY <1>2, <1>3 DEF TypeOK, Inode
<1> HIDE DEF w
<1> QED BY <1>3, <1>4, <1>5, <1>6, <1>11, <1>12, <1>13, <1>14, <1>15, <1>16,
           CountStep

\* A walk starts from what p knows.
LEMMA StartKnown ==
  ASSUME NEW p \in Procs, Ready(p), NEW s PROVE Known(p, Start(p, s))
<1>1. Root \in Inums
  BY NumberAssumption DEF Root, Inums
<1>2. disk[Root].nlink >= 1
  BY <1>1, NamedLinked DEF Ready, DiskOK
<1> QED BY <1>2 DEF Known, Start

\* unlink(): the directory loses the .. of a directory removed.
LEMMA UnlinkCountDisk ==
  ASSUME NEW p \in Procs, Ready(p), UnlinkCount(p) PROVE DiskOK'
<1> DEFINE w == k[p].dp
           b == IF icache[k[p].ip].type = "dir" THEN 1 ELSE 0
           n == icache[w].nlink - b
           f == Drop([k[p] EXCEPT !.dp = Null], w, "unlinked")
<1>1. /\ At(p, "erased") /\ Become(p, f)
      /\ UNCHANGED <<cwd, ftable, panicked>>
      /\ disk' = [disk EXCEPT ![w].nlink = n]
  BY DEF UnlinkCount, PutLocked, Kernel, procVars
<1>2. /\ k[p] \in Frame /\ k[p].pc = "erased" /\ panicked = "no"
      /\ FrameOK(k[p]) /\ Place(k[p]) = "erased" /\ TypeOK
  BY <1>1, ReadyAt DEF Dropping
<1>3. /\ k[p].ip \in Inums /\ w \in Inums /\ k[p].ip # w /\ Holds(k[p], w)
      /\ Holds(k[p], k[p].ip)
  BY <1>2, HasLockedBoth DEF Ready
<1>4. /\ icache[w].busy = p /\ icache[w].nlink = disk[w].nlink
      /\ icache[k[p].ip].type = disk[k[p].ip].type
  BY <1>2, <1>3, HeldFits DEF Ready, Fits
<1>5. disk[w].nlink \in Int /\ b \in {0, 1}
  BY <1>2, <1>3 DEF TypeOK, Inode
<1>6. Recounted(w, n)
  BY <1>1, <1>2, <1>3 DEF Recounted, TypeOK
<1>7. SameShape /\ disk'[w].nlink = n
  BY <1>2, <1>3, <1>6, RecountedShape
<1>8. k[p].op = "unlink"
  BY <1>2 DEF FrameOK, OpAt
<1>9. /\ f.pc = "put" /\ f.ip = k[p].ip /\ f.dp = Null /\ f.src = k[p].src
      /\ f.op = k[p].op /\ f.drop = w /\ Place(f) = "unlinked"
      /\ f.back = "unlinked"
  BY <1>2 DEF Drop, Frame, Place, Dropping
<1> HIDE DEF f
<1>10. \A i \in Inums : Uses(f, i) => Known(p, i)
  BY <1>9 DEF Uses, Known, Inums, Null
<1>11. Usual(p) /\ k'[p] = f
  BY <1>1, <1>2, <1>7, <1>9, <1>10, RecountUsual
<1>12. \A j \in Inums :
         /\ Debt(disk, k[p], j) = (IF k[p].ip = j THEN 1 ELSE 0)
                                  + (IF w = j THEN b ELSE 0)
         /\ Debt(disk', f, j) = IF k[p].ip = j THEN 1 ELSE 0
  <2> TAKE j \in Inums
  <2>1. /\ Owes(disk, k[p], "ip") /\ ~Owes(disk, k[p], "src")
        /\ Owes(disk, k[p], "dp") <=> b = 1
    BY <1>2, <1>4, <1>8 DEF Owes
  <2>2. /\ Owes(disk', f, "ip") /\ ~Owes(disk', f, "src")
        /\ ~Owes(disk', f, "dp")
    BY <1>8, <1>9 DEF Owes
  <2> HIDE DEF Owes, b
  <2> QED BY <1>5, <1>9, <2>1, <2>2 DEF Debt
<1>13. CallOK(p)'
  BY <1>9, <1>11 DEF CallOK, InMaking, Dropping
<1>14. disk[w].type # "free" /\ Uses(k[p], w)
  BY <1>3, UsedType DEF Uses, Ready, DiskOK
<1>15. PanicOK'
  BY <1>1 DEF PanicOK, Ready, DiskOK
<1>16. n \in Int /\ n - disk[w].nlink = 0 - b
  BY <1>4, <1>5
<1> HIDE DEF w, n, b
<1>17. /\ Debt(disk', f, w) - Debt(disk, k[p], w) <= n - disk[w].nlink
       /\ \A j \in Inums \ {w} : Debt(disk', f, j) <= Debt(disk, k[p], j)
  BY <1>3, <1>5, <1>12, <1>16
<1> QED BY <1>3, <1>4, <1>6, <1>11, <1>13, <1>14, <1>15, <1>16, <1>17,
           CountStep

\* unlink(): the inode loses a link.
LEMMA UnlinkDoneDisk ==
  ASSUME NEW p \in Procs, Ready(p), UnlinkDone(p) PROVE DiskOK'
<1> DEFINE w == k[p].ip
           n == icache[w].nlink - 1
           f == Drop([k[p] EXCEPT !.ip = Null], w, "user")
<1>1. /\ At(p, "unlinked") /\ Become(p, f)
      /\ UNCHANGED <<cwd, ftable, panicked>>
      /\ disk' = [disk EXCEPT ![w].nlink = n]
  BY DEF UnlinkDone, PutLocked, Kernel, procVars
<1>2. /\ k[p] \in Frame /\ k[p].pc = "unlinked" /\ panicked = "no"
      /\ FrameOK(k[p]) /\ Place(k[p]) = "unlinked" /\ TypeOK
  BY <1>1, ReadyAt DEF Dropping
<1>3. w \in Inums /\ Holds(k[p], w)
  BY <1>2, HasLockedIp DEF Ready
<1>4. icache[w].busy = p /\ icache[w].nlink = disk[w].nlink
  BY <1>2, <1>3, HeldFits DEF Ready, Fits
<1>5. disk[w].nlink \in Int
  BY <1>2, <1>3 DEF TypeOK, Inode
<1>6. Recounted(w, n)
  BY <1>1, <1>2, <1>3 DEF Recounted, TypeOK
<1>7. SameShape /\ disk'[w].nlink = n
  BY <1>2, <1>3, <1>6, RecountedShape
<1>8. k[p].op = "unlink"
  BY <1>2 DEF FrameOK, OpAt
<1>9. /\ f.pc = "put" /\ f.ip = Null /\ f.dp = k[p].dp /\ f.src = k[p].src
      /\ f.op = k[p].op /\ f.drop = w /\ Place(f) = "user"
      /\ f.back = "user"
  BY <1>2 DEF Drop, Frame, Place, Dropping
<1> HIDE DEF f
<1>10. \A i \in Inums : Uses(f, i) => Known(p, i)
  BY <1>9 DEF Uses, Known, Inums, Null
<1>11. Usual(p) /\ k'[p] = f
  BY <1>1, <1>2, <1>7, <1>9, <1>10, RecountUsual
<1>12. \A j \in Inums : /\ Debt(disk, k[p], j) = IF w = j THEN 1 ELSE 0
                        /\ Debt(disk', f, j) = 0
  BY <1>2, <1>8, <1>9 DEF Debt, Owes
<1>13. CallOK(p)'
  BY <1>9, <1>11 DEF CallOK, InMaking, Dropping
<1>14. disk[w].type # "free" /\ Uses(k[p], w)
  BY <1>3, UsedType DEF Uses, Ready, DiskOK
<1>15. PanicOK'
  BY <1>1 DEF PanicOK, Ready, DiskOK
<1>16. n \in Int /\ n - disk[w].nlink = 0 - 1
  BY <1>4, <1>5
<1> HIDE DEF w, n
<1>17. /\ Debt(disk', f, w) - Debt(disk, k[p], w) <= n - disk[w].nlink
       /\ \A j \in Inums \ {w} : Debt(disk', f, j) <= Debt(disk, k[p], j)
  BY <1>3, <1>12, <1>16
<1> QED BY <1>3, <1>4, <1>6, <1>11, <1>13, <1>14, <1>15, <1>16, <1>17,
           CountStep

\* link(): the count is taken back.
LEMMA LinkBadDisk ==
  ASSUME NEW p \in Procs, Ready(p), LinkBad(p) PROVE DiskOK'
<1> DEFINE w == k[p].src
           n == Visited(p)[w].nlink - 1
           f == Drop([k[p] EXCEPT !.src = Null], w, "user")
<1>1. /\ At(p, "bad") /\ Locks(p, "bad") /\ Become(p, f)
      /\ UNCHANGED <<cwd, ftable, panicked>>
      /\ disk' = [disk EXCEPT ![w].nlink = n]
  BY DEF LinkBad, Locks, Kernel, procVars
<1>2. /\ k[p] \in Frame /\ k[p].pc = "bad" /\ panicked = "no"
      /\ FrameOK(k[p]) /\ Place(k[p]) = "bad" /\ TypeOK
  BY <1>1, ReadyAt DEF Dropping
<1>3. Wants(k[p]) = w
  BY <1>2 DEF Wants
<1>4. w \in Inums /\ icache[w].busy = Nobody
  BY <1>1, <1>3, LockedSlots DEF Ready
<1>5. Visited(p)[w].nlink = disk[w].nlink /\ disk[w].nlink \in Int
  BY <1>1, <1>2, <1>3, <1>4, ReadyLocks DEF TypeOK, Inode
<1>6. Recounted(w, n)
  BY <1>1, <1>2, <1>4 DEF Recounted, TypeOK
<1>7. SameShape /\ disk'[w].nlink = n
  BY <1>2, <1>4, <1>6, RecountedShape
<1>8. k[p].op = "link2" /\ k[p].ip = Null /\ k[p].dp = Null
  BY <1>2 DEF FrameOK, OpAt, HasIp, HasDp
<1>9. /\ f.pc = "put" /\ f.ip = Null /\ f.dp = Null /\ f.src = Null
      /\ f.op = k[p].op /\ f.drop = w /\ Place(f) = "user"
      /\ f.back = "user"
  BY <1>2, <1>8 DEF Drop, Frame, Place, Dropping
<1> HIDE DEF f
<1>10. \A i \in Inums : Uses(f, i) => Known(p, i)
  BY <1>9 DEF Uses, Known, Inums, Null
<1>11. Usual(p) /\ k'[p] = f
  BY <1>1, <1>2, <1>7, <1>9, <1>10, RecountUsual
<1>12. \A j \in Inums : /\ Debt(disk, k[p], j) = IF w = j THEN 1 ELSE 0
                        /\ Debt(disk', f, j) = 0
  BY <1>2, <1>8, <1>9 DEF Debt, Owes
<1>13. CallOK(p)'
  BY <1>9, <1>11 DEF CallOK, InMaking, Dropping
<1>14. disk[w].type # "free" /\ Uses(k[p], w)
  BY <1>4, UsedType DEF Uses, Ready, DiskOK
<1>15. PanicOK'
  BY <1>1 DEF PanicOK, Ready, DiskOK
<1>16. n \in Int /\ n - disk[w].nlink = 0 - 1
  BY <1>5
<1> HIDE DEF w, n
<1>17. /\ Debt(disk', f, w) - Debt(disk, k[p], w) <= n - disk[w].nlink
       /\ \A j \in Inums \ {w} : Debt(disk', f, j) <= Debt(disk, k[p], j)
  BY <1>4, <1>12, <1>16
<1> QED BY <1>4, <1>6, <1>11, <1>13, <1>14, <1>15, <1>16, <1>17, CountStep

\* link(): the link is counted before it is made.
LEMMA LinkCountDisk ==
  ASSUME NEW p \in Procs, Ready(p), LinkCount(p) PROVE DiskOK'
<1> DEFINE w == k[p].ip
           n == Visited(p)[w].nlink + 1
           i0 == Start(p, k[p].new)
           f == Walking([k[p] EXCEPT !.op = "link2", !.src = w], i0, k[p].new)
           c == [Visited(p) EXCEPT ![w].nlink = n]
<1>1. /\ At(p, "go") /\ Locks(p, "go") /\ k[p].op = "link"
      /\ Visited(p)[w].type # "dir" /\ Get(p, c, i0, f)
      /\ disk' = [disk EXCEPT ![w].nlink = n]
  BY DEF LinkCount, Locks
<1>2. /\ k[p] \in Frame /\ k[p].pc = "go" /\ panicked = "no"
      /\ FrameOK(k[p]) /\ Place(k[p]) = "go" /\ TypeOK
  BY <1>1, ReadyAt DEF Dropping
<1>3. Wants(k[p]) = w /\ k[p].op \notin ForParent
  BY <1>1, <1>2, GoLocks DEF Ready, LocksInv, ForParent, Making
<1>4. w \in Inums /\ icache[w].busy = Nobody
  BY <1>1, <1>3, LockedSlots DEF Ready
<1>5. /\ Visited(p)[w].nlink = disk[w].nlink /\ disk[w].nlink \in Int
      /\ disk[w].type # "dir"
  BY <1>1, <1>2, <1>3, <1>4, ReadyLocks DEF TypeOK, Inode
<1>6. Recounted(w, n)
  BY <1>1, <1>2, <1>4 DEF Recounted, TypeOK
<1>7. SameShape /\ disk'[w].nlink = n
  BY <1>2, <1>4, <1>6, RecountedShape
<1>8. k[p].src = Null /\ k[p].dp = Null /\ k[p].drop = Null
  BY <1>1, <1>2, <1>3 DEF FrameOK, HasSrc, HasDp, Dropping
<1>9. disk[w].type # "free" /\ Uses(k[p], w)
  BY <1>4, UsedType DEF Uses, Ready, DiskOK
<1>10. n \in Int /\ n - disk[w].nlink = 1
  BY <1>5
<1>11. /\ f.pc = "walk" /\ f.ip = i0 /\ f.dp = Null /\ f.src = w
       /\ f.op = "link2" /\ f.drop = Null /\ Place(f) = "walk"
  BY <1>2, <1>8 DEF Walking, Frame, Place, Dropping
<1>12. \A j \in Inums : Debt(disk, k[p], j) = 0
  BY <1>1, <1>2, <1>8 DEF Debt, Owes, Inums, Null
<1>13. \A j \in Inums : Debt(disk', k[p], j) = 0
  BY <1>1, <1>2, <1>8 DEF Debt, Owes, Inums, Null
<1>14. \A j \in Inums : Debt(disk', f, j) = IF w = j THEN 1 ELSE 0
  BY <1>11 DEF Debt, Owes
<1>15. Known(p, i0) /\ Known(p, w)
  BY StartKnown, OwnKnown
<1> HIDE DEF f, n, w, i0, c
<1>16. CASE NoSlot(i0)
  <2>1. Stop("iget: no inodes")
    BY <1>1, <1>16 DEF Get
  <2>2. Usual(p)
    BY <1>2, <1>7, <2>1, StopUsual DEF Ready, DiskOK, SameShape
  <2>3. PanicOK' /\ k' = k
    BY <2>1 DEF PanicOK, Stop
  <2>4. CallOK(p)'
    BY <1>2, <2>3 DEF CallOK, InMaking, Dropping
  <2>5. /\ Debt(disk', k'[p], w) - Debt(disk, k[p], w) <= n - disk[w].nlink
        /\ \A j \in Inums \ {w} : Debt(disk', k'[p], j) <= Debt(disk, k[p], j)
    BY <1>4, <1>10, <1>12, <1>13, <2>3
  <2> QED BY <1>4, <1>6, <1>9, <1>10, <2>2, <2>3, <2>4, <2>5, CountStep
<1>17. CASE ~NoSlot(i0)
  <2>1. Become(p, f) /\ UNCHANGED <<cwd, ftable, panicked>>
    BY <1>1, <1>17 DEF Get, Kernel, procVars
  <2>2. \A i \in Inums : Uses(f, i) => Known(p, i)
    BY <1>11, <1>15 DEF Uses, Inums, Null
  <2>3. disk'[w].type # "dir"
    BY <1>4, <1>5, <1>7 DEF SameShape
  <2>4. Usual(p) /\ k'[p] = f
    BY <1>2, <1>7, <1>11, <2>1, <2>2, <2>3, RecountUsual
  <2>5. CallOK(p)' /\ PanicOK'
    BY <1>11, <2>1, <2>4
       DEF CallOK, InMaking, Dropping, PanicOK, Ready, DiskOK
  <2>6. /\ Debt(disk', f, w) - Debt(disk, k[p], w) <= n - disk[w].nlink
        /\ \A j \in Inums \ {w} : Debt(disk', f, j) <= Debt(disk, k[p], j)
    BY <1>4, <1>10, <1>12, <1>14
  <2> QED BY <1>4, <1>6, <1>9, <1>10, <2>4, <2>5, <2>6, CountStep
<1> QED BY <1>16, <1>17

-----------------------------------------------------------------------------
(* Steps that write an entry of a directory.                               *)

\* Entry n of w becomes x.
Written(w, n, x) ==
  /\ disk'[w].type = disk[w].type /\ disk'[w].nlink = disk[w].nlink
  /\ \A m \in Entries :
       disk'[w].ents[m] = IF m = n THEN x ELSE disk[w].ents[m]
  /\ \A i \in Inums \ {w} : disk'[i] = disk[i]
LEMMA EntryWritten ==
  ASSUME TypeOK, NEW w \in Inums, NEW n \in Entries, NEW x,
         disk' = [disk EXCEPT ![w].ents[n] = x]
  PROVE  Written(w, n, x)
<1>1. disk[w] \in Inode /\ disk \in [Inums -> Inode]
  BY DEF TypeOK
<1>2. /\ disk'[w] = [disk[w] EXCEPT !.ents[n] = x]
      /\ \A i \in Inums \ {w} : disk'[i] = disk[i]
  BY <1>1
<1>3. /\ disk'[w].type = disk[w].type /\ disk'[w].nlink = disk[w].nlink
      /\ disk'[w].ents = [disk[w].ents EXCEPT ![n] = x]
      /\ disk[w].ents \in [Entries -> Pointers]
  BY <1>1, <1>2 DEF Inode
<1> QED BY <1>2, <1>3 DEF Written

\* So the same directories are there, and what they name else.
LEMMA WrittenSame ==
  ASSUME NEW w \in Inums, NEW n, NEW x, Written(w, n, x)
  PROVE  /\ DirsOn(disk') = DirsOn(disk)
         /\ \A i \in Inums : /\ disk'[i].type = disk[i].type
                             /\ disk'[i].nlink = disk[i].nlink
         /\ \A i \in Inums, m \in Entries : i # w \/ m # n =>
              disk'[i].ents[m] = disk[i].ents[m]
         /\ n \in Entries => disk'[w].ents[n] = x
<1>1. \A i \in Inums : /\ disk'[i].type = disk[i].type
                       /\ disk'[i].nlink = disk[i].nlink
  BY DEF Written
<1>2. DirsOn(disk') = DirsOn(disk)
  BY <1>1 DEF DirsOn
<1> QED BY <1>1, <1>2 DEF Written

\* One subdirectory, or none.
Kid(x) == In(x, DirsOn(disk))

\* What is due then.
LEMMA WrittenDue ==
  ASSUME NEW w \in DirsOn(disk), NEW n \in Names, NEW x, Written(w, n, x),
         NEW i
  PROVE  LET old == disk[w].ents[n] IN
         Due(disk', i) = Due(disk, i) + Is(x, i) - Is(old, i)
                           + (IF i = w THEN Kid(x) - Kid(old) ELSE 0)
<1> DEFINE old == disk[w].ents[n]
           A0 == NamedOn(disk, i)
           A1 == NamedOn(disk', i)
           B0 == BelowOn(disk, i)
           B1 == BelowOn(disk', i)
<1>1. /\ w \in Inums /\ DirsOn(disk) \subseteq Inums /\ Names \subseteq Entries
      /\ n \in Entries
  BY DEF DirsOn, Entries
<1>2. /\ DirsOn(disk') = DirsOn(disk) /\ disk'[w].ents[n] = x
      /\ \A y \in Inums, m \in Entries : y # w \/ m # n =>
           disk'[y].ents[m] = disk[y].ents[m]
  BY <1>1, WrittenSame
<1>3. /\ A0 \ {<<w, n>>} = A1 \ {<<w, n>>}
      /\ In(<<w, n>>, A1) = Is(x, i) /\ In(<<w, n>>, A0) = Is(old, i)
  <2>1. ASSUME NEW y \in DirsOn(disk) \X Names, y # <<w, n>>
        PROVE  disk'[y[1]].ents[y[2]] = disk[y[1]].ents[y[2]]
    <3>1. y[1] \in Inums /\ y[2] \in Entries /\ (y[1] # w \/ y[2] # n)
      BY <1>1, <2>1
    <3> QED BY <1>2, <3>1
  <2>2. A0 \ {<<w, n>>} = A1 \ {<<w, n>>}
    BY <1>2, <2>1 DEF NamedOn
  <2>3. /\ <<w, n>> \in A1 <=> x = i
        /\ <<w, n>> \in A0 <=> old = i
    BY <1>2 DEF NamedOn
  <2> HIDE DEF A0, A1, old
  <2> QED BY <2>2, <2>3 DEF In, Is
<1>4. Cardinality(A1) = Cardinality(A0) + Is(x, i) - Is(old, i)
  <2>1. IsFiniteSet(A0)
    BY CountsFinite
  <2> HIDE DEF A0, A1, old
  <2> QED BY <1>3, <2>1, CountOne
<1>5. Cardinality(B1) =
        Cardinality(B0) + (IF i = w THEN Kid(x) - Kid(old) ELSE 0)
  <2>1. IsFiniteSet(B0) /\ Cardinality(B0) \in Nat
    BY CountsFinite
  <2>2. CASE i = w
    <3>1. B0 \ {n} = B1 \ {n}
      BY <1>1, <1>2, <2>2 DEF BelowOn
    <3>2. In(n, B1) = Kid(x) /\ In(n, B0) = Kid(old)
      <4>1. /\ n \in B1 <=> x \in DirsOn(disk)
            /\ n \in B0 <=> old \in DirsOn(disk)
        BY <1>2, <2>2 DEF BelowOn
      <4> HIDE DEF B0, B1, old
      <4> QED BY <4>1 DEF In, Kid
    <3> HIDE DEF B0, B1, old
    <3>3. Cardinality(B1) = Cardinality(B0) + In(n, B1) - In(n, B0)
      BY <2>1, <3>1, CountOne
    <3>4. Kid(x) \in Nat /\ Kid(old) \in Nat
      BY DEF Kid, In
    <3> QED BY <2>1, <2>2, <3>2, <3>3, <3>4
  <2>3. CASE i # w
    <3>1. B0 = B1
      BY <1>1, <1>2, <2>3 DEF BelowOn
    <3> HIDE DEF B0, B1, old
    <3> QED BY <2>1, <2>3, <3>1
  <2> QED BY <2>2, <2>3
<1>6. /\ Cardinality(A0) \in Nat /\ Cardinality(B0) \in Nat
      /\ Is(x, i) \in Nat /\ Is(old, i) \in Nat /\ Is(i, Root) \in Nat
      /\ (IF i = w THEN Kid(x) - Kid(old) ELSE 0) \in Int
  BY CountsFinite DEF Is, Kid, In
<1>7. /\ Due(disk, i) = Cardinality(A0) + Cardinality(B0) + Is(i, Root)
      /\ Due(disk', i) = Cardinality(A1) + Cardinality(B1) + Is(i, Root)
  BY DEF Due
<1> HIDE DEF A0, A1, B0, B1
<1> QED BY <1>4, <1>5, <1>6, <1>7

\* The tree stays one if a new subdirectory has the .. that it should, ...
LEMMA WrittenTree ==
  ASSUME TreeOK, NEW w \in DirsOn(disk), NEW n \in Names, NEW x,
         Written(w, n, x), x \in DirsOn(disk) => disk[x].ents[".."] = w
  PROVE  TreeOK'
<1>1. /\ w \in Inums /\ DirsOn(disk) \subseteq Inums /\ Names \subseteq Entries
      /\ ".." \in Entries /\ n # ".." /\ Root \in Inums
  BY NameAssumption, NumberAssumption DEF DirsOn, Entries, Root, Inums
<1>2. /\ DirsOn(disk') = DirsOn(disk) /\ disk'[w].ents[n] = x
      /\ \A y \in Inums, m \in Entries : y # w \/ m # n =>
           disk'[y].ents[m] = disk[y].ents[m]
      /\ disk'[Root].type = disk[Root].type
  BY <1>1, WrittenSame
<1>3. ASSUME NEW y \in DirsOn(disk), NEW m \in BelowOn(disk', y)
      PROVE  disk'[disk'[y].ents[m]].ents[".."] = y
  <2>1. m \in Names /\ disk'[y].ents[m] \in DirsOn(disk)
    BY <1>2, <1>3 DEF BelowOn
  <2>2. disk'[disk'[y].ents[m]].ents[".."] = disk[disk'[y].ents[m]].ents[".."]
    BY <1>1, <1>2, <2>1
  <2>3. CASE y = w /\ m = n
    BY <1>2, <2>1, <2>2, <2>3
  <2>4. CASE y # w \/ m # n
    <3>1. disk'[y].ents[m] = disk[y].ents[m]
      BY <1>1, <1>2, <2>1, <2>4
    <3>2. m \in BelowOn(disk, y)
      BY <2>1, <3>1 DEF BelowOn
    <3> QED BY <2>2, <3>1, <3>2 DEF TreeOK
  <2> QED BY <2>3, <2>4
<1>4. disk'[Root].type = "dir" /\ disk'[Root].ents[".."] = Root
  BY <1>1, <1>2 DEF TreeOK
<1> QED BY <1>2, <1>3, <1>4 DEF TreeOK

\* ... and no subdirectories yet.
LEMMA WrittenDepth ==
  ASSUME DepthOK, NEW w \in DirsOn(disk), NEW n \in Names, NEW x,
         Written(w, n, x), x \in DirsOn(disk) => x # w /\ BelowOn(disk, x) = {}
  PROVE  DepthOK'
<1>1. /\ w \in Inums /\ DirsOn(disk) \subseteq Inums /\ Names \subseteq Entries
  BY DEF DirsOn, Entries
<1>2. /\ DirsOn(disk') = DirsOn(disk) /\ disk'[w].ents[n] = x
      /\ \A y \in Inums, m \in Entries : y # w \/ m # n =>
           disk'[y].ents[m] = disk[y].ents[m]
  BY <1>1, WrittenSame
<1> PICK B \in Nat : \E depth \in [Inums -> 0..B] : Deepens(disk, depth)
  BY DEF DepthOK
<1>3. PICK depth \in [Inums -> 0..B] : Deepens(disk, depth)
  OBVIOUS
<1> DEFINE d2 == [i \in Inums |-> IF i = x /\ x \in DirsOn(disk) THEN B + 1
                                  ELSE depth[i]]
<1>4. d2 \in [Inums -> 0..(B + 1)]
  BY <1>3
<1>5. ASSUME NEW y \in DirsOn(disk), NEW m \in BelowOn(disk', y)
      PROVE  d2[disk'[y].ents[m]] > d2[y]
  <2> DEFINE z == disk'[y].ents[m]
  <2>1. m \in Names /\ z \in DirsOn(disk) /\ z \in Inums /\ y \in Inums
    BY <1>1, <1>2, <1>5 DEF BelowOn
  <2>2. y # x
    <3> SUFFICES ASSUME y = x PROVE FALSE
      OBVIOUS
    <3>1. y # w /\ BelowOn(disk, y) = {}
      BY <1>5
    <3>2. disk'[y].ents[m] = disk[y].ents[m]
      BY <1>1, <1>2, <2>1, <3>1
    <3>3. m \in BelowOn(disk, y)
      BY <2>1, <3>2 DEF BelowOn
    <3> QED BY <3>1, <3>3
  <2>3. d2[y] = depth[y] /\ depth[y] \in 0..B /\ depth[z] \in 0..B
    BY <1>3, <2>1, <2>2
  <2>4. CASE z = x
    <3>1. d2[z] = B + 1
      BY <2>1, <2>4
    <3> HIDE DEF d2
    <3> QED BY <2>3, <3>1
  <2>5. CASE z # x
    <3>1. y # w \/ m # n
      BY <1>2, <2>5
    <3>2. z = disk[y].ents[m]
      BY <1>1, <1>2, <2>1, <3>1
    <3>3. m \in BelowOn(disk, y)
      BY <2>1, <3>2 DEF BelowOn
    <3>4. depth[z] > depth[y] /\ d2[z] = depth[z]
      BY <1>3, <2>1, <2>5, <3>2, <3>3 DEF Deepens
    <3> QED BY <2>3, <3>4
  <2> QED BY <2>4, <2>5
<1> HIDE DEF d2
<1>6. Deepens(disk', d2)
  BY <1>2, <1>5 DEF Deepens
<1>7. B + 1 \in Nat
  BY <1>3
<1> QED BY <1>4, <1>6, <1>7 DEF DepthOK

\* A step that writes entries moves no file.
LEMMA WriteUsual ==
  ASSUME NEW p \in Procs, NEW f, Ready(p), panicked = "no", Become(p, f),
         UNCHANGED <<cwd, ftable>>,
         \A i \in Inums : disk'[i].type = disk[i].type,
         f.pc \notin {"trunc", "free"},
         \A i \in Inums : Uses(f, i) => Known(p, i),
         f.dp \in {Null, k[p].dp}, f.src \in {Null, k[p].src}
  PROVE  Usual(p) /\ k'[p] = f
<1>1. Usual(p)
  BY SameFiles, FrameUsual DEF Ready, DiskOK, Reaches
<1> QED BY <1>1 DEF Become, Ready, LocksInv, RefsInv, TypeOK

\* What p owes may change as what is due does.
LEMMA EntryStep ==
  ASSUME NEW p \in Procs, Ready(p), Usual(p), NEW w \in DirsOn(disk),
         NEW n \in Names, NEW x, Written(w, n, x),
         icache[w].busy \in {p, Nobody}, Uses(k[p], w),
         \A j \in Inums :
           Debt(disk', k'[p], j) - Debt(disk, k[p], j) <=
             Is(disk[w].ents[n], j) - Is(x, j)
               + (IF j = w THEN Kid(disk[w].ents[n]) - Kid(x) ELSE 0),
         TreeOK', DepthOK', PanicOK', CallOK(p)'
  PROVE  DiskOK'
<1>1. /\ TypeOK /\ LocksInv /\ LocksInv' /\ DiskOK /\ panicked = "no"
      /\ (\A q \in Procs : CallOK(q)) /\ w \in Inums
  BY DEF Ready, DiskOK, LocksInv, RefsInv, Usual, DirsOn
<1>2. \A i \in Inums : disk'[i].type = disk[i].type
                       /\ disk'[i].nlink = disk[i].nlink
  BY <1>1, WrittenSame
<1>3. Spared(p)
  <2>1. \A q \in Procs \ {p} :
          ~Holds(k[q], w) /\ (k[q].pc = "init" => k[q].ip # w)
    BY <1>1, OwnSpared
  <2> QED BY <2>1 DEF Spared, Written
<1>4. ASSUME NEW i \in Inums PROVE Covers(p, i)
  <2> DEFINE old == disk[w].ents[n]
             d0 == Debt(disk, k[p], i)
             d1 == Debt(disk', k'[p], i)
             e0 == Due(disk, i)
             e1 == Due(disk', i)
             n0 == disk[i].nlink
             a == Is(old, i)
             b == Is(x, i)
             c == IF i = w THEN Kid(x) - Kid(old) ELSE 0
             d == IF i = w THEN Kid(old) - Kid(x) ELSE 0
  <2>1. d0 \in Nat /\ d1 \in Nat
    BY <1>1, <1>3, SparedOthers, DebtChange DEF DiskOK
  <2>2. e0 \in Nat /\ e1 \in Nat /\ n0 \in Int
    BY <1>1, CountsFinite DEF TypeOK, Inode
  <2>3. e1 = e0 + b - a + c
    BY WrittenDue
  <2>4. /\ a \in Nat /\ b \in Nat /\ c \in Int /\ d \in Int /\ d = 0 - c
    <3>1. Kid(x) \in Nat /\ Kid(old) \in Nat
      BY DEF Kid, In
    <3> HIDE DEF old
    <3> QED BY <3>1 DEF Is
  <2>5. d1 - d0 <= a - b + d
    OBVIOUS
  <2> HIDE DEF d0, d1, e0, e1, n0, a, b, c, d
  <2>6. n0 - n0 >= (e1 - e0) + (d1 - d0)
    BY <2>1, <2>2, <2>3, <2>4, <2>5
  <2> QED BY <1>2, <2>6 DEF Covers, d0, d1, e0, e1, n0
<1>5. FreeOK'
  BY <1>1, <1>2 DEF FreeOK, DiskOK
<1> QED BY <1>1, <1>3, <1>4, <1>5, OrderlyStep

\* create(): the directory names the new inode.
LEMMA CreateEnterDisk ==
  ASSUME NEW p \in Procs, Ready(p), CreateEnter(p) PROVE DiskOK'
<1> DEFINE w == k[p].dp
           n == k[p].name
           x == k[p].ip
           l == IF k[p].op = "create" THEN "opened" ELSE "made"
           f == Drop([k[p] EXCEPT !.dp = Null], w, l)
           m == IF k[p].op = "mkdir" THEN 1 ELSE 0
<1>1. /\ At(p, "enter") /\ Become(p, f)
      /\ UNCHANGED <<cwd, ftable, panicked>>
      /\ disk' = [disk EXCEPT ![w].ents[n] = x]
  BY DEF CreateEnter, PutLocked, Kernel, procVars
<1>2. /\ k[p] \in Frame /\ k[p].pc = "enter" /\ panicked = "no"
      /\ FrameOK(k[p]) /\ Place(k[p]) = "enter" /\ TypeOK
  BY <1>1, ReadyAt DEF Dropping
<1>3. /\ x \in Inums /\ w \in Inums /\ x # w /\ Holds(k[p], w)
  BY <1>2, HasLockedBoth DEF Ready
<1>4. icache[w].busy = p
  BY <1>2, <1>3, HeldFits DEF Ready
<1>5. Blank(p) /\ n \in Names /\ n \in Entries
  BY <1>2 DEF Ready, DiskOK, CallOK, InMaking, Blank, Entries
<1>6. /\ k[p].op \in Making /\ k[p].src = Null
      /\ disk[x].type = "dir" <=> k[p].op = "mkdir"
  <2>1. k[p].op \in Making /\ k[p].src = Null
    BY <1>2 DEF FrameOK, OpAt, HasSrc
  <2>2. disk[x].type = TypeMade(k[p].op)
    BY <1>5 DEF Blank
  <2> QED BY <2>1, <2>2 DEF Making, TypeMade
<1>7. w \in DirsOn(disk)
  BY <1>3 DEF DirsOn, Ready, DiskOK, AliveOK, Inums, Null
<1>8. Written(w, n, x)
  BY <1>1, <1>2, <1>3, <1>5, EntryWritten
<1>9. /\ x \in DirsOn(disk) => BelowOn(disk, x) = {}
      /\ x \in DirsOn(disk) => disk[x].ents[".."] = w
      /\ x \in DirsOn(disk) <=> m = 1
  <2>1. Null \notin DirsOn(disk)
    BY DEF DirsOn, Inums, Null
  <2> QED BY <1>2, <1>3, <1>5, <1>6, <2>1 DEF Blank, BelowOn, DirsOn
<1>10. TreeOK' /\ DepthOK'
  BY <1>3, <1>5, <1>7, <1>8, <1>9, WrittenTree, WrittenDepth
     DEF Ready, DiskOK
<1>11. /\ f.pc = "put" /\ f.ip = x /\ f.dp = Null /\ f.src = Null
       /\ f.op = k[p].op /\ f.drop = w /\ Place(f) = l /\ f.back = l
  BY <1>2, <1>6 DEF Drop, Frame, Place, Dropping
<1> HIDE DEF f
<1>12. \A i \in Inums : Uses(f, i) => Known(p, i)
  BY <1>11 DEF Uses, Known, Inums, Null
<1>13. \A i \in Inums : disk'[i].type = disk[i].type
  BY <1>3, <1>8, WrittenSame
<1>14. Usual(p) /\ k'[p] = f
  BY <1>1, <1>2, <1>11, <1>12, <1>13, WriteUsual
<1>15. \A j \in Inums :
         /\ Debt(disk, k[p], j) = Is(x, j) + (IF j = w THEN m ELSE 0)
         /\ Debt(disk', f, j) = 0
  <2> TAKE j \in Inums
  <2>1. /\ Owes(disk, k[p], "ip") /\ ~Owes(disk, k[p], "src")
        /\ Owes(disk, k[p], "dp") <=> m = 1
    BY <1>2 DEF Owes
  <2>2. ~Owes(disk', f, "ip") /\ ~Owes(disk', f, "src")
        /\ ~Owes(disk', f, "dp")
    BY <1>11 DEF Owes
  <2>3. m \in {0, 1}
    OBVIOUS
  <2> HIDE DEF Owes, m
  <2> QED BY <2>1, <2>2, <2>3 DEF Debt, Is
<1>16. CallOK(p)' /\ PanicOK'
  BY <1>1, <1>11, <1>14
     DEF CallOK, InMaking, Dropping, PanicOK, Ready, DiskOK
<1>17. ASSUME NEW j \in Inums
       PROVE  Debt(disk', f, j) - Debt(disk, k[p], j) <=
                Is(disk[w].ents[n], j) - Is(x, j)
                  + (IF j = w THEN Kid(disk[w].ents[n]) - Kid(x) ELSE 0)
  <2> DEFINE old == disk[w].ents[n]
  <2>1. /\ Kid(x) = m /\ m \in Nat /\ Kid(old) \in Nat /\ Is(old, j) \in Nat
        /\ Is(x, j) \in Nat
    BY <1>9 DEF Kid, In, Is
  <2>2. /\ Debt(disk, k[p], j) = Is(x, j) + (IF j = w THEN m ELSE 0)
        /\ Debt(disk', f, j) = 0
    BY <1>15
  <2> DEFINE a == Is(old, j)
             b == Is(x, j)
             e == Kid(old)
  <2> HIDE DEF w, m, x, old, a, b, e
  <2>3. CASE j = w
    <3>1. /\ 0 - (b + m) <= a - b + (e - m)
      BY <2>1 DEF a, b, e
    <3> QED BY <2>1, <2>2, <2>3, <3>1 DEF a, b, e, old
  <2>4. CASE j # w
    <3>1. 0 - (b + 0) <= a - b + 0
      BY <2>1 DEF a, b
    <3> QED BY <2>1, <2>2, <2>4, <3>1 DEF a, b, old
  <2> QED BY <2>3, <2>4
<1>18. Uses(k[p], w)
  BY DEF Uses
<1> HIDE DEF w, n, x
<1> QED BY <1>4, <1>5, <1>7, <1>8, <1>10, <1>14, <1>16, <1>17, <1>18,
           EntryStep

\* link(): the directory names the inode.
LEMMA LinkEnterDisk ==
  ASSUME NEW p \in Procs, Ready(p), LinkEnter(p) PROVE DiskOK'
<1> DEFINE w == k[p].dp
           n == k[p].name
           x == k[p].src
           f == Drop([k[p] EXCEPT !.dp = Null], w, "rest")
<1>1. /\ At(p, "go") /\ Locks(p, "go") /\ Become(p, f) /\ k[p].op = "link2"
      /\ UNCHANGED <<cwd, ftable, panicked>> /\ dirlookup(w, n) = Null
      /\ disk' = [disk EXCEPT ![w].ents[n] = x]
  BY DEF LinkEnter, PutLocked, Kernel, procVars, Locks
<1>2. /\ k[p] \in Frame /\ k[p].pc = "go" /\ panicked = "no"
      /\ FrameOK(k[p]) /\ Place(k[p]) = "go" /\ TypeOK
  BY <1>1, ReadyAt DEF Dropping
<1>3. /\ w \in Inums /\ Wants(k[p]) = w /\ n \in Names /\ n \in Entries
      /\ disk[w].type = "dir"
  BY <1>1, GoLooksUp DEF ForParent, Entries
<1>4. icache[w].busy = Nobody
  BY <1>1, <1>3, LockedSlots DEF Ready
<1>5. x \in Inums /\ disk[x].type # "dir" /\ k[p].ip = Null
  BY <1>1, <1>2 DEF FrameOK, HasSrc, HasIp, ForParent, Frame, Pointers, Ready,
                    DiskOK, AliveOK
<1>6. w \in DirsOn(disk) /\ x \notin DirsOn(disk)
  BY <1>3, <1>5 DEF DirsOn
<1>7. Written(w, n, x)
  BY <1>1, <1>2, <1>3, EntryWritten
<1>8. TreeOK' /\ DepthOK'
  BY <1>3, <1>6, <1>7, WrittenTree, WrittenDepth DEF Ready, DiskOK
<1>9. /\ f.pc = "put" /\ f.ip = Null /\ f.dp = Null /\ f.src = x
      /\ f.op = k[p].op /\ f.drop = w /\ Place(f) = "rest" /\ f.back = "rest"
  BY <1>2, <1>5 DEF Drop, Frame, Place, Dropping
<1> HIDE DEF f
<1>10. \A i \in Inums : Uses(f, i) => Known(p, i)
  BY <1>9 DEF Uses, Known, Inums, Null
<1>11. \A i \in Inums : disk'[i].type = disk[i].type
  BY <1>3, <1>7, WrittenSame
<1>12. Usual(p) /\ k'[p] = f
  BY <1>1, <1>2, <1>9, <1>10, <1>11, WriteUsual
<1>13. \A j \in Inums : /\ Debt(disk, k[p], j) = Is(x, j)
                        /\ Debt(disk', f, j) = 0
  BY <1>1, <1>2, <1>9 DEF Debt, Owes, Is
<1>14. CallOK(p)' /\ PanicOK'
  BY <1>1, <1>9, <1>12
     DEF CallOK, InMaking, Dropping, PanicOK, Ready, DiskOK
<1>15. ASSUME NEW j \in Inums
       PROVE  Debt(disk', f, j) - Debt(disk, k[p], j) <=
                Is(disk[w].ents[n], j) - Is(x, j)
                  + (IF j = w THEN Kid(disk[w].ents[n]) - Kid(x) ELSE 0)
  <2> DEFINE a == Is(disk[w].ents[n], j)
             b == Is(x, j)
             e == Kid(disk[w].ents[n])
             d == Kid(x)
  <2>1. a \in Nat /\ b \in Nat /\ e \in Nat /\ d = 0
    BY <1>6 DEF Kid, In, Is
  <2>2. Debt(disk, k[p], j) = b /\ Debt(disk', f, j) = 0
    BY <1>13
  <2> HIDE DEF w, x, a, b, e, d
  <2>3. 0 - b <= a - b + (IF j = w THEN e - d ELSE 0)
    BY <2>1
  <2> QED BY <2>2, <2>3 DEF a, b, e, d
<1>16. Uses(k[p], w)
  BY DEF Uses
<1> HIDE DEF w, n, x
<1> QED BY <1>3, <1>4, <1>6, <1>7, <1>8, <1>12, <1>14, <1>15, <1>16, EntryStep

\* unlink(): the entry goes, or stays.
LEMMA UnlinkEraseDisk ==
  ASSUME NEW p \in Procs, Ready(p), UnlinkErase(p) PROVE DiskOK'
<1> DEFINE w == k[p].dp
           n == k[p].name
           x == k[p].ip
           m == Locked(p)[x].nlink
           dir == Locked(p)[x].type = "dir"
           f == [k[p] EXCEPT !.pc = "erased"]
<1>1. At(p, "unlink") /\ Locks(p, "unlink")
  BY DEF UnlinkErase, Locks
<1>2. /\ k[p] \in Frame /\ k[p].pc = "unlink" /\ panicked = "no" /\ p \in live
      /\ FrameOK(k[p]) /\ Place(k[p]) = "unlink" /\ TypeOK
  BY <1>1, ReadyAt DEF Dropping
<1>3. Wants(k[p]) = x
  BY <1>2 DEF Wants
<1>4. /\ x \in Inums /\ m = disk[x].nlink /\ m \in Int
      /\ dir <=> disk[x].type = "dir"
  BY <1>1, <1>2, <1>3, ReadyLocks DEF TypeOK, Inode
<1>5. /\ w \in Inums /\ Holds(k[p], w) /\ k[p].op = "unlink"
      /\ k[p].src = Null
  BY <1>2, CallPoints DEF Ready, FrameOK, OpAt, HasSrc
<1>6. n \in Names /\ n \in Entries /\ disk[w].ents[n] = x
  BY <1>2 DEF Ready, DiskOK, CallOK, Found, Entries
<1>7. w \in DirsOn(disk)
  BY <1>5 DEF DirsOn, Ready, DiskOK, AliveOK, Inums, Null
<1>8. m >= 1
  BY <1>4, <1>6, <1>7, NamedLinked DEF Ready, DiskOK
<1>9. ~(m < 1)
  BY <1>4, <1>8
<1>10. CASE dir /\ ~isdirempty(x)
  <2>1. PutLocked(p, Locked(p), [k[p] EXCEPT !.ip = Null], x, "kept")
        /\ NoDisk
    BY <1>8, <1>9, <1>10 DEF UnlinkErase
  <2>2. /\ UNCHANGED <<disk, cwd, ftable, panicked>>
        /\ Become(p, Drop([k[p] EXCEPT !.ip = Null], k[p].ip, "kept"))
    BY <2>1 DEF PutLocked, Kernel, NoDisk, procVars
  <2> QED BY <1>2, <2>2, DropIpDisk DEF Dropping
<1>11. CASE ~(dir /\ ~isdirempty(x))
  <2>1. /\ disk' = [disk EXCEPT ![w].ents[n] = Null]
        /\ Become(p, f) /\ Kernel
    BY <1>8, <1>9, <1>11 DEF UnlinkErase
  <2>2. UNCHANGED <<cwd, ftable, panicked>>
    BY <2>1 DEF Kernel, procVars
  <2>3. Written(w, n, Null) /\ Null \notin DirsOn(disk)
    <3>1. Null \notin DirsOn(disk)
      BY DEF DirsOn, Inums, Null
    <3>2. Written(w, n, Null)
      BY <1>2, <1>5, <1>6, <2>1, EntryWritten
    <3> QED BY <3>1, <3>2
  <2>4. TreeOK' /\ DepthOK'
    BY <1>6, <1>7, <2>3, WrittenTree, WrittenDepth DEF Ready, DiskOK
  <2>5. /\ f.pc = "erased" /\ f.ip = x /\ f.dp = w /\ f.src = Null
        /\ f.op = "unlink" /\ f.drop = k[p].drop /\ Place(f) = "erased"
    BY <1>2, <1>5 DEF Frame, Place, Dropping
  <2> HIDE DEF f
  <2>6. k[p].drop = Null
    BY <1>2 DEF FrameOK, Dropping
  <2>7. \A i \in Inums : Uses(f, i) => Known(p, i)
    BY <2>5, <2>6 DEF Uses, Known, Inums, Null
  <2>8. \A i \in Inums : disk'[i].type = disk[i].type
    BY <1>5, <2>3, WrittenSame
  <2>9. Usual(p) /\ k'[p] = f
    BY <1>2, <1>5, <2>1, <2>2, <2>5, <2>7, <2>8, WriteUsual
  <2>10. ASSUME NEW j \in Inums
         PROVE  /\ Debt(disk, k[p], j) = 0
                /\ Debt(disk', f, j) = Is(x, j) + (IF j = w THEN Kid(x) ELSE 0)
    <3>1. Debt(disk, k[p], j) = 0
      BY <1>2, <1>5 DEF Debt, Owes
    <3>2. Kid(x) = IF disk'[x].type = "dir" THEN 1 ELSE 0
      BY <1>4, <2>8 DEF Kid, In, DirsOn
    <3>3. /\ Owes(disk', f, "ip") /\ ~Owes(disk', f, "src")
          /\ Owes(disk', f, "dp") <=> disk'[x].type = "dir"
      BY <2>5 DEF Owes
    <3> HIDE DEF Owes, x, w
    <3>4. Debt(disk', f, j) = Is(x, j) + (IF j = w THEN Kid(x) ELSE 0)
      BY <2>5, <3>2, <3>3 DEF Debt, Is
    <3> QED BY <3>1, <3>4
  <2>11. CallOK(p)' /\ PanicOK'
    BY <2>2, <2>5, <2>9
       DEF CallOK, InMaking, Dropping, PanicOK, Ready, DiskOK
  <2>12. ASSUME NEW j \in Inums
         PROVE  Debt(disk', f, j) - Debt(disk, k[p], j) <=
                  Is(disk[w].ents[n], j) - Is(Null, j)
                  + (IF j = w THEN Kid(disk[w].ents[n]) - Kid(Null) ELSE 0)
    <3> DEFINE a == Is(x, j)
               e == Kid(x)
    <3>1. a \in Nat /\ e \in Nat /\ Is(Null, j) = 0 /\ Kid(Null) = 0
      BY <2>3 DEF Kid, In, Is, Inums, Null
    <3>2. /\ Debt(disk, k[p], j) = 0
          /\ Debt(disk', f, j) = a + (IF j = w THEN e ELSE 0)
      BY <2>10
    <3> HIDE DEF w, x, a, e
    <3>3. a + (IF j = w THEN e ELSE 0) - 0 <=
            a - 0 + (IF j = w THEN e - 0 ELSE 0)
      BY <3>1
    <3> QED BY <1>6, <3>1, <3>2, <3>3 DEF a, e
  <2>13. Uses(k[p], w) /\ icache[w].busy = p
    BY <1>2, <1>5, HeldFits DEF Uses, Ready
  <2> HIDE DEF w, n, x
  <2> QED BY <1>6, <1>7, <2>3, <2>4, <2>9, <2>11, <2>12, <2>13, EntryStep
<1> QED BY <1>10, <1>11

\* mkdir: the new directory gets its entry .., which no path leads to yet.
LEMMA CreateDotsDisk ==
  ASSUME NEW p \in Procs, Ready(p), CreateDots(p) PROVE DiskOK'
<1> DEFINE w == k[p].ip
           x == k[p].dp
           f == [k[p] EXCEPT !.pc = "enter"]
<1>1. /\ At(p, "dots2") /\ Become(p, f)
      /\ UNCHANGED <<cwd, ftable, panicked>>
      /\ disk' = [disk EXCEPT ![w].ents[".."] = x]
  BY DEF CreateDots, Kernel, procVars
<1>2. /\ k[p] \in Frame /\ k[p].pc = "dots2" /\ panicked = "no"
      /\ FrameOK(k[p]) /\ Place(k[p]) = "dots2" /\ TypeOK
      /\ k[p].drop = Null
  BY <1>1, ReadyAt DEF Dropping, FrameOK
<1>3. x \in Inums /\ w \in Inums /\ x # w /\ Holds(k[p], w)
  BY <1>2, HasLockedBoth DEF Ready
<1>4. icache[w].busy = p
  BY <1>2, <1>3, HeldFits DEF Ready
<1>5. Blank(p) /\ k[p].op = "mkdir" /\ disk[w].nlink = 1
  BY <1>2 DEF Ready, DiskOK, CallOK, InMaking, Blank
<1>6. NamedOn(disk, w) = {} /\ w # Root
  <2>1. <<p, "ip">> \in Owing(disk, k, w)
    BY <1>2 DEF Owing, Owed, Owes
  <2> QED BY <1>3, <1>5, <2>1, NamedLinked DEF Ready, DiskOK
<1>7. Written(w, "..", x) /\ ".." \notin Names /\ Names \subseteq Entries
      /\ ".." \in Entries
  BY <1>1, <1>2, <1>3, EntryWritten, NameAssumption DEF Entries
<1>8. /\ DirsOn(disk') = DirsOn(disk) /\ disk'[w].ents[".."] = x
      /\ \A y \in Inums, m \in Entries : y # w \/ m # ".." =>
           disk'[y].ents[m] = disk[y].ents[m]
      /\ \A y \in Inums : /\ disk'[y].type = disk[y].type
                          /\ disk'[y].nlink = disk[y].nlink
      /\ DirsOn(disk) \subseteq Inums
  BY <1>3, <1>7, WrittenSame DEF DirsOn
<1>9. \A y \in DirsOn(disk), m \in Names : disk'[y].ents[m] = disk[y].ents[m]
  BY <1>7, <1>8
<1>10. \A i : /\ NamedOn(disk', i) = NamedOn(disk, i)
              /\ BelowOn(disk', i) = BelowOn(disk, i)
  BY <1>8, <1>9 DEF NamedOn, BelowOn
<1>11. TreeOK'
  <2>1. disk'[Root].type = "dir" /\ disk'[Root].ents[".."] = Root
    BY <1>6, <1>7, <1>8, NumberAssumption
       DEF Root, Inums, Ready, DiskOK, TreeOK
  <2>2. ASSUME NEW y \in DirsOn(disk), NEW m \in BelowOn(disk, y)
        PROVE  disk'[disk'[y].ents[m]].ents[".."] = y
    <3>1. /\ m \in Names /\ disk'[y].ents[m] = disk[y].ents[m]
          /\ disk[y].ents[m] \in Inums
      BY <1>8, <1>9, <2>2 DEF BelowOn
    <3>2. <<y, m>> \in NamedOn(disk, disk[y].ents[m])
      BY <3>1 DEF NamedOn
    <3>3. disk[y].ents[m] # w
      BY <1>6, <3>2
    <3>4. disk[disk[y].ents[m]].ents[".."] = y
      BY <2>2 DEF Ready, DiskOK, TreeOK
    <3> QED BY <1>7, <1>8, <3>1, <3>3, <3>4
  <2> QED BY <1>8, <1>10, <2>1, <2>2 DEF TreeOK
<1>12. DepthOK'
  <2>1. ASSUME NEW depth, Deepens(disk, depth) PROVE Deepens(disk', depth)
    <3>1. \A y \in DirsOn(disk) : \A m \in BelowOn(disk, y) :
            disk'[y].ents[m] = disk[y].ents[m]
      BY <1>9 DEF BelowOn
    <3> QED BY <1>8, <1>10, <2>1, <3>1 DEF Deepens
  <2> QED BY <2>1 DEF DepthOK, Ready, DiskOK
<1>13. FreeOK' /\ PanicOK'
  BY <1>1, <1>8 DEF FreeOK, PanicOK, Ready, DiskOK
<1>14. /\ f.pc = "enter" /\ f.ip = w /\ f.dp = x /\ f.src = k[p].src
       /\ f.op = k[p].op /\ f.drop = Null /\ Place(f) = "enter"
       /\ f.name = k[p].name
  BY <1>2 DEF Frame, Place, Dropping
<1> HIDE DEF f
<1>15. \A i \in Inums : Uses(f, i) => Known(p, i)
  BY <1>14 DEF Uses, Known, Inums, Null
<1>16. Usual(p) /\ k'[p] = f
  BY <1>1, <1>2, <1>8, <1>14, <1>15, WriteUsual
<1>17. Spared(p)
  <2>1. \A q \in Procs \ {p} :
          ~Holds(k[q], w) /\ (k[q].pc = "init" => k[q].ip # w)
    BY <1>2, <1>3, <1>4, OwnSpared DEF Ready, DiskOK, Uses
  <2> QED BY <1>7, <2>1 DEF Spared, Written
<1>18. ASSUME NEW i \in Inums PROVE Covers(p, i)
  <2>1. Debt(disk', f, i) = Debt(disk, k[p], i) /\ Debt(disk, k[p], i) \in Int
    BY <1>2, <1>5, <1>14 DEF Debt, Owes
  <2>2. Due(disk', i) = Due(disk, i) /\ Due(disk, i) \in Nat
    BY <1>10, CountsFinite DEF Due
  <2>3. disk'[i].nlink = disk[i].nlink /\ disk[i].nlink \in Int
    BY <1>2, <1>8 DEF TypeOK, Inode
  <2> QED BY <1>16, <2>1, <2>2, <2>3 DEF Covers
<1>19. CallOK(p)'
  <2>1. Blank(p)'
    BY <1>3, <1>5, <1>7, <1>8, <1>9, <1>14, <1>16 DEF Blank
  <2> QED BY <1>14, <1>16, <2>1 DEF CallOK, InMaking, Dropping
<1> QED BY <1>11, <1>12, <1>13, <1>16, <1>17, <1>18, <1>19, OrderlyStep
        DEF Ready

-----------------------------------------------------------------------------
(* Steps that free or allocate an inode.                                   *)

\* Inode w has no link, and loses its contents.
Emptied(w) ==
  /\ disk[w].nlink = 0 /\ disk'[w].nlink = 0 /\ disk'[w].ents = NoEntries
  /\ \A i \in Inums \ {w} : disk'[i] = disk[i]

\* No more is due then than before.
LEMMA EmptiedShape ==
  ASSUME LocksInv, DiskOK, NEW w \in Inums, Emptied(w)
  PROVE  /\ \A i \in Inums : Due(disk', i) <= Due(disk, i)
         /\ TreeOK' /\ DepthOK'
<1>1. /\ NamedOn(disk, w) = {} /\ BelowOn(disk, w) = {} /\ w # Root
      /\ \A x \in DirsOn(disk), n \in Names : disk[x].ents[n] # w
  <2>1. ~(disk[w].nlink >= 1)
    BY DEF Emptied
  <2> QED BY <2>1, NamedLinked DEF DiskOK
<1>2. /\ Names \subseteq Entries /\ ".." \in Entries /\ Root \in Inums
      /\ \A d : DirsOn(d) \subseteq Inums
      /\ Null \notin Inums
  BY NumberAssumption DEF Entries, Root, Inums, DirsOn, Null
<1>3. /\ \A n \in Entries : disk'[w].ents[n] = Null
      /\ \A i \in Inums \ {w} : disk'[i] = disk[i]
      /\ \A i \in Inums \ {w} : i \in DirsOn(disk') <=> i \in DirsOn(disk)
  BY DEF Emptied, NoEntries, DirsOn
<1>4. ASSUME NEW y \in DirsOn(disk'), NEW n \in Names,
             disk'[y].ents[n] \in Inums
      PROVE  /\ y # w /\ y \in DirsOn(disk) /\ disk'[y] = disk[y]
             /\ disk'[y].ents[n] # w
  <2>1. y # w
    BY <1>2, <1>3, <1>4
  <2>2. y \in DirsOn(disk) /\ disk'[y] = disk[y]
    BY <1>2, <1>3, <2>1
  <2> QED BY <1>1, <2>1, <2>2
<1>5. ASSUME NEW i \in Inums PROVE NamedOn(disk', i) \subseteq NamedOn(disk, i)
  BY <1>4 DEF NamedOn
<1>6. ASSUME NEW i \in Inums, NEW n \in BelowOn(disk', i)
      PROVE  /\ n \in BelowOn(disk, i) /\ i \in DirsOn(disk)
             /\ disk'[i] = disk[i] /\ disk[i].ents[n] \in Inums \ {w}
  <2>1. /\ i \in DirsOn(disk') /\ n \in Names /\ disk'[i].ents[n] \in Inums
        /\ disk'[i].ents[n] \in DirsOn(disk')
    BY <1>2, <1>6 DEF BelowOn
  <2>2. /\ i \in DirsOn(disk) /\ disk'[i] = disk[i]
        /\ disk[i].ents[n] \in Inums \ {w}
    BY <1>4, <2>1
  <2>3. disk[i].ents[n] \in DirsOn(disk)
    BY <1>3, <2>1, <2>2
  <2> QED BY <2>1, <2>2, <2>3 DEF BelowOn
<1>7. ASSUME NEW i \in Inums PROVE Due(disk', i) <= Due(disk, i)
  <2> DEFINE a == Cardinality(NamedOn(disk, i))
             b == Cardinality(BelowOn(disk, i))
             c == Cardinality(NamedOn(disk', i))
             d == Cardinality(BelowOn(disk', i))
             r == Is(i, Root)
  <2>1. a \in Nat /\ b \in Nat /\ c \in Nat /\ d \in Nat /\ r \in Nat
    BY CountsFinite DEF Is
  <2>2. BelowOn(disk', i) \subseteq BelowOn(disk, i)
    BY <1>6
  <2>3. c <= a /\ d <= b
    BY <1>5, <2>2, CountsFinite, FS_Subset
  <2> HIDE DEF a, b, c, d, r
  <2>4. c + d + r <= a + b + r
    BY <2>1, <2>3
  <2> QED BY <2>4 DEF Due, a, b, c, d, r
<1>8. TreeOK'
  <2>1. disk'[Root].type = "dir" /\ disk'[Root].ents[".."] = Root
    BY <1>1, <1>2, <1>3 DEF DiskOK, TreeOK
  <2>2. ASSUME NEW y \in DirsOn(disk'), NEW n \in BelowOn(disk', y)
        PROVE  disk'[disk'[y].ents[n]].ents[".."] = y
    <3>1. /\ y \in DirsOn(disk) /\ n \in BelowOn(disk, y)
          /\ disk'[y] = disk[y] /\ disk[y].ents[n] \in Inums \ {w}
      BY <1>2, <1>6, <2>2
    <3>2. disk[disk[y].ents[n]].ents[".."] = y
      BY <3>1 DEF DiskOK, TreeOK
    <3> QED BY <1>3, <3>1, <3>2
  <2> QED BY <2>1, <2>2 DEF TreeOK
<1>9. DepthOK'
  <2>1. ASSUME NEW depth, Deepens(disk, depth) PROVE Deepens(disk', depth)
    <3>1. \A y \in DirsOn(disk') : \A n \in BelowOn(disk', y) :
            /\ y \in DirsOn(disk) /\ n \in BelowOn(disk, y)
            /\ disk'[y] = disk[y]
      BY <1>2, <1>6
    <3> QED BY <2>1, <3>1 DEF Deepens
  <2> QED BY <2>1 DEF DepthOK, DiskOK
<1> QED BY <1>7, <1>8, <1>9

\* So such a step may be taken by whoever has the inode.
LEMMA EmptyStep ==
  ASSUME NEW p \in Procs, Ready(p), Usual(p), Spared(p), NEW w \in Inums,
         Emptied(w),
         \A j \in Inums : Debt(disk', k'[p], j) = Debt(disk, k[p], j),
         PanicOK', CallOK(p)'
  PROVE  DiskOK'
<1>1. LocksInv /\ LocksInv' /\ DiskOK /\ TypeOK
  BY DEF Ready, LocksInv, RefsInv
<1>2. (\A i \in Inums : Due(disk', i) <= Due(disk, i)) /\ TreeOK' /\ DepthOK'
  BY <1>1, EmptiedShape
<1>3. FreeOK'
  BY <1>1 DEF FreeOK, Emptied, DiskOK
<1>4. ASSUME NEW i \in Inums PROVE Covers(p, i)
  <2> DEFINE d0 == Debt(disk, k[p], i)
             e0 == Due(disk, i)
             e1 == Due(disk', i)
             n0 == disk[i].nlink
  <2>1. d0 \in Int /\ e0 \in Nat /\ e1 \in Nat /\ e1 <= e0
    BY <1>2, CountsFinite DEF Debt
  <2>2. n0 \in Int /\ disk'[i].nlink = n0
    BY <1>1 DEF TypeOK, Inode, Emptied
  <2>3. Debt(disk', k'[p], i) = d0
    OBVIOUS
  <2> HIDE DEF d0, e0, e1, n0
  <2>4. n0 - n0 >= (e1 - e0) + (d0 - d0)
    BY <2>1, <2>2
  <2> QED BY <2>2, <2>3, <2>4 DEF Covers, d0, e0, e1, n0
<1> QED BY <1>1, <1>2, <1>3, <1>4, OrderlyStep

\* iput() frees the inode.
LEMMA FreesDisk ==
  ASSUME NEW p \in Procs, Ready(p), Trunc(p) \/ FreeOnDisk(p) PROVE DiskOK'
<1> DEFINE w == k[p].drop
           l == IF k[p].pc = "trunc" THEN "free" ELSE "freed"
           f == [k[p] EXCEPT !.pc = l]
<1>1. /\ At(p, k[p].pc) /\ k[p].pc \in {"trunc", "free"} /\ Become(p, f)
      /\ UNCHANGED <<cwd, ftable, panicked>>
      /\ \/ disk' = [disk EXCEPT ![w].ents = NoEntries]
         \/ disk' = [disk EXCEPT ![w] = FreeInode]
  BY DEF Trunc, FreeOnDisk, At, Kernel, procVars
<1>2. /\ k[p] \in Frame /\ panicked = "no" /\ FrameOK(k[p]) /\ TypeOK
      /\ LocksInv /\ DiskOK
  BY <1>1, ReadyAt DEF Ready
<1>3. /\ w \in Inums /\ Holds(k[p], w)
  BY <1>1, <1>2 DEF FrameOK, Frame, Pointers, Dropping, Holds, Freeing
<1>4. icache[w].busy = p /\ disk[w].nlink = 0
  <2>1. icache[w].nlink = 0 /\ k[p].pc # "freed"
    BY <1>1, <1>2 DEF LocksInv, FreeingOK
  <2> QED BY <1>2, <1>3, <2>1, HeldFits DEF Fits
<1>5. ~Alive(w)
  BY <1>1 DEF Alive
<1>6. Emptied(w)
  <2>1. disk[w] \in Inode
    BY <1>2, <1>3 DEF TypeOK
  <2>2. /\ disk'[w].nlink = 0 /\ disk'[w].ents = NoEntries
        /\ \A i \in Inums \ {w} : disk'[i] = disk[i]
    <3>1. CASE disk' = [disk EXCEPT ![w].ents = NoEntries]
      <4>1. disk'[w] = [disk[w] EXCEPT !.ents = NoEntries]
        BY <1>2, <1>3, <3>1 DEF TypeOK
      <4>2. \A i \in Inums \ {w} : disk'[i] = disk[i]
        BY <1>2, <3>1 DEF TypeOK
      <4> HIDE DEF w
      <4> QED BY <1>4, <2>1, <4>1, <4>2 DEF Inode
    <3>2. CASE disk' = [disk EXCEPT ![w] = FreeInode]
      BY <1>2, <1>3, <3>2 DEF TypeOK, FreeInode
    <3> QED BY <1>1, <3>1, <3>2
  <2> QED BY <1>4, <2>2 DEF Emptied
<1>7. /\ f.pc = l /\ f.drop = w /\ f.ip = k[p].ip /\ f.dp = k[p].dp
      /\ f.src = k[p].src /\ f.op = k[p].op /\ Place(f) = Place(k[p])
      /\ f.back = k[p].back /\ l \in {"free", "freed"}
  BY <1>1, <1>2 DEF Frame, Place, Dropping
<1>8. k'[p] = f /\ \A q \in Procs \ {p} : k'[q] = k[q]
  BY <1>1, <1>2 DEF Become, TypeOK
<1> HIDE DEF f
<1>9. \A i \in Inums : Alive(i) => disk'[i] = disk[i]
  BY <1>5, <1>6 DEF Emptied
<1>10. /\ k[p].ip # Null => k[p].ip \in Inums /\ Alive(k[p].ip)
       /\ k[p].dp # Null =>
            k[p].dp \in Inums /\ Alive(k[p].dp) /\ disk[k[p].dp].type = "dir"
       /\ k[p].src # Null =>
            /\ k[p].src \in Inums /\ Alive(k[p].src)
            /\ disk[k[p].src].type # "dir"
  <2>1. /\ k[p].ip # Null => k[p].ip \in Inums /\ Uses(k[p], k[p].ip)
        /\ k[p].dp # Null => k[p].dp \in Inums /\ Uses(k[p], k[p].dp)
        /\ k[p].src # Null => k[p].src \in Inums /\ Uses(k[p], k[p].src)
    BY <1>2 DEF Frame, Pointers, Uses
  <2> QED BY <1>2, <2>1 DEF DiskOK, AliveOK
<1>11. \A i \in Inums : Uses(f, i) => Known(p, i)
  BY <1>7 DEF Uses, Known
<1>12. Usual(p)
  <2>1. KnownFiles(p)
    BY <1>1, SameFiles
  <2>2. /\ k'[p].dp # Null => disk'[k'[p].dp].type = "dir"
        /\ k'[p].src # Null => disk'[k'[p].src].type # "dir"
    BY <1>7, <1>8, <1>9, <1>10
  <2> QED BY <1>1, <1>2, <1>7, <1>8, <1>9, <1>11, <2>1, <2>2
          DEF Usual, KnownFiles, Reaches
<1>13. Spared(p)
  <2>1. ASSUME NEW q \in Procs \ {p}
        PROVE  ~Holds(k[q], w) /\ (k[q].pc = "init" => k[q].ip # w)
    <3>1. ~Holds(k[q], w)
      BY <1>2, <1>3, <1>4 DEF LocksInv, LocksOK
    <3>2. ~Uses(k[q], w)
      BY <1>2, <1>3, <1>5 DEF DiskOK, AliveOK
    <3> QED BY <3>1, <3>2 DEF Uses
  <2> QED BY <1>6, <2>1 DEF Spared, Emptied
<1>14. ASSUME NEW j \in Inums PROVE Debt(disk', f, j) = Debt(disk, k[p], j)
  <2>1. Place(f) = "erased" => disk'[f.ip].type = disk[k[p].ip].type
    BY <1>2, <1>7, <1>9, <1>10 DEF FrameOK, HasIp
  <2> QED BY <1>7, <2>1 DEF Debt, Owes
<1>15. CallOK(p)'
  <2>1. CallOK(p)
    BY <1>2 DEF DiskOK
  <2> QED BY <1>1, <1>7, <1>8, <2>1 DEF CallOK, InMaking, Dropping
<1>16. PanicOK'
  BY <1>1, <1>2 DEF PanicOK, DiskOK
<1> QED BY <1>3, <1>6, <1>8, <1>12, <1>13, <1>14, <1>15, <1>16, EmptyStep

\* create() allocates an inode, which nobody else has.
LEMMA CreateAllocDisk ==
  ASSUME NEW p \in Procs, Ready(p), CreateAlloc(p) PROVE DiskOK'
<1>1. /\ At(p, "go") /\ Locks(p, "go") /\ k[p].op \in Making
      /\ dirlookup(k[p].dp, k[p].name) = Null
  BY DEF CreateAlloc, Locks
<1>2. /\ k[p] \in Frame /\ k[p].pc = "go" /\ panicked = "no"
      /\ FrameOK(k[p]) /\ Place(k[p]) = "go" /\ TypeOK /\ LocksInv /\ DiskOK
      /\ k[p].drop = Null
  BY <1>1, ReadyAt DEF Dropping, Ready, FrameOK
<1>3. /\ k[p].dp \in Inums /\ disk[k[p].dp].type = "dir"
      /\ k[p].name \in Names /\ k[p].src = Null /\ k[p].op # "unlink"
  BY <1>1, <1>2, GoLooksUp DEF ForParent, Making, FrameOK, HasSrc
<1>4. CASE FreeInums = {} /\ Panic("ialloc: no inodes")
  BY <1>2, <1>4, StopStill DEF Panic, NoDisk, Ready
<1>5. ASSUME NEW i \in FreeInums,
             Get(p, Locked(p), i, [k[p] EXCEPT !.pc = "init", !.ip = i]),
             disk' = [disk EXCEPT ![i] =
                        [FreeInode EXCEPT !.type = TypeMade(k[p].op)]]
      PROVE  DiskOK'
  <2> DEFINE f == [k[p] EXCEPT !.pc = "init", !.ip = i]
             t == TypeMade(k[p].op)
  <2>1. i \in Inums /\ disk[i].type = "free" /\ ~Alive(i) /\ k[p].dp # i
    BY <1>3, <1>5 DEF FreeInums, Alive
  <2>2. t # "free"
    BY <1>1 DEF TypeMade, Making
  <2> HIDE DEF t
  <2>3. /\ disk'[i].type = t /\ disk'[i].nlink = 0
        /\ disk'[i].ents = NoEntries
        /\ \A j \in Inums \ {i} : disk'[j] = disk[j]
    <3>1. /\ disk'[i] = [FreeInode EXCEPT !.type = t]
          /\ \A j \in Inums \ {i} : disk'[j] = disk[j]
      BY <1>2, <1>5, <2>1 DEF TypeOK, t
    <3> QED BY <3>1 DEF FreeInode
  <2>4. Emptied(i)
    BY <1>2, <2>1, <2>3 DEF Emptied, DiskOK, FreeOK
  <2>5. \A q \in Procs : ~Uses(k[q], i) /\ cwd[q] # i
    BY <2>1 DEF AliveOK, Ready, DiskOK, Inums, Null
  <2>6. ~Filed(i)
    BY <2>1 DEF AliveOK, Ready, DiskOK
  <2>7. Spared(p)
    <3>1. ASSUME NEW q \in Procs \ {p}, Holds(k[q], i)
          PROVE  k[q].pc = "freed" /\ k[q].drop = i
      <4>1. k[q].pc = "freed"
        BY <1>2, <2>1, <3>1, HeldFits DEF Fits
      <4>2. k[q].drop = i
        BY <2>5, <3>1 DEF Holds, Uses
      <4> QED BY <4>1, <4>2
    <3> QED BY <2>3, <2>5, <3>1 DEF Spared, Uses
  <2>8. \A j \in Inums : Alive(j) => disk'[j] = disk[j]
    BY <2>1, <2>3
  <2>9. /\ f.pc = "init" /\ f.ip = i /\ f.dp = k[p].dp /\ f.src = Null
        /\ f.op = k[p].op /\ f.drop = Null /\ f.name = k[p].name
        /\ Place(f) = "init"
    BY <1>2, <1>3 DEF Frame, Place, Dropping
  <2> HIDE DEF f
  <2>10. \A j \in Inums : /\ Debt(disk, k[p], j) = 0
                          /\ Debt(disk', k[p], j) = 0
                          /\ Debt(disk', f, j) = 0
    BY <1>2, <1>3, <2>9 DEF Debt, Owes, Inums, Null
  <2>11. CASE NoSlot(i)
    <3>1. Stop("iget: no inodes")
      BY <1>5, <2>11 DEF Get
    <3>2. Usual(p)
      BY <1>2, <2>8, <3>1, StopUsual DEF Ready, DiskOK
    <3>3. PanicOK' /\ k' = k
      BY <3>1 DEF PanicOK, Stop
    <3>4. CallOK(p)'
      BY <1>2, <3>3 DEF CallOK, InMaking, Dropping
    <3> QED BY <2>1, <2>4, <2>7, <2>10, <3>2, <3>3, <3>4, EmptyStep
  <2>12. CASE ~NoSlot(i)
    <3>1. Become(p, f) /\ UNCHANGED <<cwd, ftable, panicked>>
      BY <1>5, <2>12 DEF Get, Kernel, procVars, f
    <3>2. k'[p] = f /\ \A q \in Procs \ {p} : k'[q] = k[q]
      BY <1>2, <3>1 DEF Become, TypeOK
    <3>3. \A j \in Inums : Uses(f, j) => Reaches(p, j)
      BY <2>1, <2>2, <2>3, <2>9 DEF Uses, Reaches, Known, Inums, Null
    <3>4. Usual(p)
      BY <1>2, <2>8, <2>9, <3>1, <3>3, SameFiles, FrameUsual
         DEF Ready, DiskOK
    <3>5. New(p)'
      <4>1. \A q \in Procs : q # p => ~Uses(k'[q], i)
        BY <2>5, <3>2
      <4>2. ~Filed(k[p].ip)'
        BY <2>6, <2>9, <3>1, <3>2 DEF Filed
      <4>3. New(p)' <=>
              /\ disk'[k'[p].ip].nlink = 0 /\ k'[p].dp # k'[p].ip
              /\ ~Filed(k[p].ip)'
              /\ \A r \in Procs :
                   /\ cwd'[r] # k'[p].ip
                   /\ r # p => ~Uses(k'[r], k'[p].ip)
        BY DEF New, Uses
      <4> QED BY <2>1, <2>3, <2>5, <2>9, <3>1, <3>2, <4>1, <4>2, <4>3
    <3>6. Blank(p)'
      BY <1>3, <2>3, <2>9, <3>2 DEF Blank, t, NoEntries, Entries
    <3>7. CallOK(p)' /\ PanicOK'
      BY <2>9, <3>1, <3>2, <3>5, <3>6
         DEF CallOK, InMaking, Dropping, PanicOK, Ready, DiskOK
    <3> QED BY <2>1, <2>4, <2>7, <2>10, <3>2, <3>4, <3>7, EmptyStep
  <2> QED BY <2>11, <2>12
<1> QED BY <1>4, <1>5 DEF CreateAlloc

-----------------------------------------------------------------------------
(* The invariant.                                                          *)

\* A step of p, which has not strayed, keeps it.
LEMMA StepDisk ==
  ASSUME NEW p \in Procs, Ready(p), Step(p) PROVE DiskOK'
<1>1. CASE \E r \in Requests : Call(p, r)
  BY <1>1, CallDisk
<1>2. CASE IlockPanic(p)
  BY <1>2, IlockHolds
<1>3. CASE Put(p) \/ PutUnused(p) \/ Trunc(p) \/ FreeOnDisk(p) \/ Freed(p)
  BY <1>3, PutDisk, PutUnusedDisk, FreesDisk
<1>4. CASE WalkEnd(p) \/ WalkFails(p) \/ WalkStops(p) \/ WalkOn(p)
  BY <1>4, WalkEndDisk, WalkFailsDisk, WalkStopsDisk, WalkOnDisk
<1>5. CASE OpenLock(p) \/ OpenDone(p) \/ OpenFails(p) \/ CreateFinds(p)
           \/ CreateFound(p) \/ CreateAlloc(p) \/ CreateInit(p)
  BY <1>5, OpenLockDisk, OpenDoneDisk, DropsDisk, CreateFindsDisk,
     CreateFoundDisk, CreateAllocDisk, CreateInitDisk
<1>6. CASE CreateCount(p) \/ CreateDots(p) \/ CreateEnter(p) \/ Made(p)
  BY <1>6, CreateCountDisk, CreateDotsDisk, CreateEnterDisk, DropsDisk
<1>7. CASE UnlinkFails(p) \/ UnlinkFinds(p) \/ UnlinkErase(p)
           \/ UnlinkCount(p) \/ UnlinkDone(p) \/ Rest(p)
           \/ UnlinkGivesUp(p)
  BY <1>7, DropsDisk, UnlinkFindsDisk, UnlinkEraseDisk, UnlinkCountDisk,
     UnlinkDoneDisk, RestDisk
<1>8. CASE LinkFails(p) \/ LinkCount(p) \/ LinkEnter(p) \/ LinkExists(p)
           \/ LinkGivesUp(p) \/ LinkBad(p)
  BY <1>8, DropsDisk, LinkCountDisk, LinkEnterDisk, LinkExistsDisk,
     LinkBadDisk
<1>9. CASE Chdir(p) \/ ChdirDone(p) \/ Exec(p) \/ Dup(p) \/ SysClose(p)
           \/ \E q \in Procs : Fork(p, q)
  BY <1>9, ChdirDisk, ChdirDoneDisk, DropsDisk, ShareDisk, CloseDisk
<1>10. CASE ExitCall(p) \/ ExitClose(p) \/ ExitDrop(p) \/ ExitDone(p)
  BY <1>10, ExitDisk, CloseDisk
<1> QED BY <1>1, <1>2, <1>3, <1>4, <1>5, <1>6, <1>7, <1>8, <1>9, <1>10
        DEF Step

\* When all processes are in user space, nothing is owed.
LEMMA NothingOwed ==
  ASSUME NEW d, NEW i \in Inums PROVE Cardinality(Owing(d, AllUser, i)) = 0
<1>1. Owing(d, AllUser, i) = {}
  <2> SUFFICES ASSUME NEW x \in Owed PROVE AllUser[x[1]][x[2]] # i
    BY DEF Owing
  <2>1. x[1] \in Procs /\ x[2] \in {"ip", "dp", "src"}
    BY DEF Owed
  <2> QED BY <2>1 DEF AllUser, User, Inums, Null
<1> QED BY <1>1, FS_EmptySet

\* In a fresh memory the rest holds if the disk is in order.
FreshDiskOK ==
  /\ k = AllUser /\ ftable = NoFiles /\ panicked = "no"
  /\ \A p \in Procs : cwd[p] # Null =>
       cwd[p] \in Inums /\ disk[cwd[p]].type = "dir"
  /\ FreeOK /\ TreeOK /\ DepthOK
  /\ \A i \in Inums : disk[i].nlink \in Int /\ disk[i].nlink >= Due(disk, i)
  => DiskOK
LEMMA FreshDisk == FreshDiskOK
<1> SUFFICES
      ASSUME k = AllUser, ftable = NoFiles, panicked = "no",
             \A p \in Procs : cwd[p] # Null =>
               cwd[p] \in Inums /\ disk[cwd[p]].type = "dir",
             FreeOK, TreeOK, DepthOK,
             \A i \in Inums :
               disk[i].nlink \in Int /\ disk[i].nlink >= Due(disk, i)
      PROVE  DiskOK
  BY DEF FreshDiskOK
<1>1. CountsOK
  <2> SUFFICES ASSUME NEW i \in Inums
               PROVE  disk[i].nlink >=
                        Due(disk, i) + Cardinality(Owing(disk, AllUser, i))
    BY DEF CountsOK
  <2> DEFINE c == Cardinality(Owing(disk, AllUser, i))
             e == Due(disk, i)
             n == disk[i].nlink
  <2>1. c = 0 /\ e \in Nat /\ n \in Int /\ n >= e
    BY NothingOwed, CountsFinite
  <2> HIDE DEF c, e, n
  <2>2. n >= e + c
    BY <2>1
  <2> QED BY <2>2 DEF c, e, n
<1>2. \A p \in Procs :
        /\ k[p].pc = "user" /\ k[p].ip = Null /\ k[p].dp = Null
        /\ k[p].src = Null /\ k[p].drop = Null
  BY DEF AllUser, User
<1>3. AliveOK
  <2>1. \A i \in Inums : ~Filed(i)
    BY DEF Filed, NoFiles, NoFile
  <2>2. \A p \in Procs, i \in Inums : ~Uses(k[p], i)
    BY <1>2 DEF Uses, Inums, Null
  <2>3. \A p \in Procs : cwd[p] # Null => Alive(cwd[p])
    BY <1>2 DEF Alive
  <2> QED BY <1>2, <2>1, <2>2, <2>3 DEF AliveOK
<1>4. \A p \in Procs : CallOK(p)
  BY <1>2 DEF CallOK, InMaking, Dropping
<1>5. PanicOK
  BY DEF PanicOK
<1> QED BY <1>1, <1>3, <1>4, <1>5 DEF DiskOK

\* Power fails, and the kernel boots.
LEMMA CrashDisk == ASSUME LocksInv, DiskOK, Crash PROVE DiskOK'
<1>1. FreshDiskOK'
  BY FreshDisk, PTL
<1>2. /\ k' = AllUser /\ ftable' = NoFiles /\ panicked' = "no"
      /\ disk' = disk /\ cwd' = InitAlone
  BY DEF Crash
<1>3. \A p \in Procs : cwd'[p] # Null =>
        cwd'[p] \in Inums /\ disk'[cwd'[p]].type = "dir"
  BY <1>2, NumberAssumption
     DEF InitAlone, Inums, Root, Null, DiskOK, TreeOK
<1>4. FreeOK' /\ TreeOK' /\ DepthOK'
  <2>1. SameShape
    BY <1>2 DEF SameShape
  <2> QED BY <1>2, <2>1, ShapeKept DEF DiskOK, FreeOK
<1>5. ASSUME NEW i \in Inums
      PROVE  disk'[i].nlink \in Int /\ disk'[i].nlink >= Due(disk', i)
  <2> DEFINE c == Cardinality(Owing(disk, k, i))
             e == Due(disk, i)
             n == disk[i].nlink
  <2>1. c \in Nat /\ e \in Nat /\ n \in Int /\ n >= e + c
    BY OwingFinite, CountsFinite
       DEF DiskOK, CountsOK, LocksInv, RefsInv, TypeOK, Inode
  <2> HIDE DEF c, e, n
  <2>2. n >= e
    BY <2>1
  <2>3. disk'[i].nlink = n /\ Due(disk', i) = e
    BY <1>2 DEF n, e
  <2> QED BY <2>1, <2>2, <2>3
<1> QED BY <1>1, <1>2, <1>3, <1>4, <1>5 DEF FreshDiskOK

\* The system starts.
LEMMA InitDisk == ASSUME Init PROVE DiskOK
<1>1. PICK s \in Starts :
        /\ disk = s.disk /\ cwd = s.cwd
        /\ ftable = NoFiles /\ k = AllUser /\ panicked = "no"
  BY DEF Init
<1>2. /\ disk \in [Inums -> DiskInode] /\ Sound(disk)
      /\ cwd \in [Procs -> Pointers]
      /\ \A p \in Procs : cwd[p] # Null => cwd[p] \in DirsOn(disk)
  BY <1>1, StartAssumption
<1>3. \A p \in Procs : cwd[p] # Null =>
        cwd[p] \in Inums /\ disk[cwd[p]].type = "dir"
  BY <1>2 DEF DirsOn
<1>4. FreeOK
  BY <1>2 DEF FreeOK, Sound
<1>5. PICK depth \in [Inums -> 0..NINODES] :
        \A x \in DirsOn(disk) : \A n \in BelowOn(disk, x) :
          /\ disk[disk[x].ents[n]].ents[".."] = x
          /\ depth[disk[x].ents[n]] > depth[x]
  BY <1>2 DEF Sound
<1>6. TreeOK
  BY <1>2, <1>5 DEF TreeOK, Sound
<1>7. DepthOK
  <2>1. Deepens(disk, depth) /\ NINODES \in Nat
    BY <1>5, NumberAssumption DEF Deepens
  <2> QED BY <2>1 DEF DepthOK
<1>8. \A i \in Inums : disk[i].nlink \in Int /\ disk[i].nlink >= Due(disk, i)
  <2> SUFFICES ASSUME NEW i \in Inums
               PROVE  disk[i].nlink \in Int /\ disk[i].nlink >= Due(disk, i)
    OBVIOUS
  <2>1. disk[i].nlink \in Nat
    BY <1>2 DEF DiskInode
  <2>2. disk[i].nlink >= Cardinality(NamedOn(disk, i))
                           + Cardinality(BelowOn(disk, i))
                           + (IF i = Root THEN 1 ELSE 0)
    BY <1>2 DEF Sound
  <2> QED BY <2>1, <2>2 DEF Due, Is
<1> QED BY <1>1, <1>3, <1>4, <1>6, <1>7, <1>8, FreshDisk DEF FreshDiskOK

\* A step that changes nothing.
LEMMA DiskStutter ==
  ASSUME DiskOK, UNCHANGED vars PROVE DiskOK'
<1>1. UNCHANGED <<disk, ftable, cwd, k, panicked>>
  BY DEF vars, procVars
<1>2. CountsOK' /\ FreeOK' /\ PanicOK'
  BY <1>1 DEF DiskOK, CountsOK, FreeOK, PanicOK
<1>3. TreeOK' /\ DepthOK'
  <2>1. SameShape
    BY <1>1 DEF SameShape
  <2> QED BY <2>1, ShapeKept DEF DiskOK
<1>4. AliveOK'
  BY <1>1 DEF DiskOK, AliveOK, Alive, Filed, Uses
<1>5. (\A p \in Procs : CallOK(p))'
  BY <1>1 DEF DiskOK, CallOK, New, Blank, Found, Filed, Uses
<1> QED BY <1>2, <1>3, <1>4, <1>5 DEF DiskOK

\* A step of the system keeps the invariant.
LEMMA NextDisk == ASSUME DiskInv, [Next]_vars PROVE DiskInv'
<1>1. LocksInv /\ LocksInv'
  BY ProcessLocks, CrashLocks, LocksStutter DEF Next, DiskInv
<1>2. CASE Crash /\ UNCHANGED strayed
  BY <1>1, <1>2, CrashDisk DEF DiskInv
<1>3. CASE \E p \in Procs : Step(p) /\ strayed' = (strayed \/ Strays(p))
  <2> SUFFICES ASSUME ~strayed' PROVE DiskOK'
    BY <1>1 DEF DiskInv
  <2>1. PICK p \in Procs : Step(p) /\ strayed' = (strayed \/ Strays(p))
    BY <1>3
  <2>2. ~strayed /\ ~Strays(p)
    BY <2>1
  <2>3. Ready(p)
    BY <1>1, <2>2 DEF Ready, DiskInv
  <2> QED BY <2>1, <2>3, StepDisk
<1>4. CASE UNCHANGED vars
  BY <1>1, <1>4, DiskStutter DEF DiskInv, vars
<1> QED BY <1>2, <1>3, <1>4 DEF Next

(* As long as nobody looks up the parent of a removed directory, whatever  *)
(* the calls do, in whatever order their steps come, and whenever the      *)
(* power fails: the link count of every inode is at least the entries that *)
(* name it, the .. of its subdirectories and what calls on their way have  *)
(* counted already; the directories are a tree; no inode is free, or about *)
(* to be, that a file, a process or a call uses.  (the order of the writes *)
(* in create, sys_link and sys_unlink; iput)                               *)
THEOREM FileSysDisk == Spec => []DiskInv
<1>1. Init => DiskInv
  BY InitLocks, InitDisk DEF DiskInv
<1>2. DiskInv /\ [Next]_vars => DiskInv'
  BY NextDisk
<1> QED BY <1>1, <1>2, PTL DEF Spec

-----------------------------------------------------------------------------
(* What follows from it.                                                   *)

\* A directory has at most as many subdirectories as entries for them.
LEMMA SubdirsBelow ==
  ASSUME NEW i \in Inums
  PROVE  /\ Subdirs(i) \in Nat
         /\ i \in Dirs => Subdirs(i) <= Cardinality(BelowOn(disk, i))
<1> DEFINE S == {x \in Dirs : \E n \in Names : disk[i].ents[n] = x}
           B == BelowOn(disk, i)
           e == [n \in B |-> disk[i].ents[n]]
<1>1. IsFiniteSet(S) /\ Cardinality(S) \in Nat
  <2>1. IsFiniteSet(Inums)
    BY NumberAssumption, FS_Interval DEF Inums
  <2>2. IsFiniteSet(S)
    BY <2>1, FS_Subset DEF Dirs, DirsOn
  <2> QED BY <2>2, FS_CardinalityType
<1>2. IsFiniteSet(B)
  BY CountsFinite
<1>3. ASSUME i \in Dirs PROVE e \in Surjection(B, S)
  <2>1. e \in [B -> S]
    BY DEF BelowOn, Dirs
  <2>2. ASSUME NEW x \in S PROVE \E n \in B : e[n] = x
    BY <1>3, <2>2 DEF BelowOn, Dirs
  <2> QED BY <2>1, <2>2 DEF Surjection
<1>4. i \in Dirs => Cardinality(S) <= Cardinality(B)
  BY <1>2, <1>3, FS_Surjection
<1> QED BY <1>1, <1>4 DEF Subdirs

\* The counts are high enough.
LEMMA CountsSound == ASSUME DiskInv PROVE DiskSound
<1> SUFFICES ASSUME ~strayed, NEW i \in Inums
             PROVE  /\ Links(i) > 0 => disk[i].type # "free"
                    /\ disk[i].nlink >=
                         Links(i) + (IF i \in Dirs THEN Subdirs(i) ELSE 0)
                                  + (IF i = Root THEN 1 ELSE 0)
  BY DEF DiskSound
<1> DEFINE a == Links(i)
           b == Cardinality(BelowOn(disk, i))
           s == IF i \in Dirs THEN Subdirs(i) ELSE 0
           r == IF i = Root THEN 1 ELSE 0
           c == Cardinality(Owing(disk, k, i))
           n == disk[i].nlink
<1>1. DiskOK /\ LocksInv
  BY DEF DiskInv
<1>2. a \in Nat /\ b \in Nat /\ c \in Nat /\ n \in Int
  BY <1>1, CountsFinite, OwingFinite
     DEF Links, LocksInv, RefsInv, TypeOK, Inode
<1>3. s \in Nat /\ s <= b
  BY <1>2, SubdirsBelow
<1>4. n >= (a + b + r) + c
  BY <1>1 DEF DiskOK, CountsOK, Due, Is, Links
<1>5. r \in Nat
  OBVIOUS
<1>6. disk[i].type = "free" => n = 0
  BY <1>1 DEF DiskOK, FreeOK
<1> HIDE DEF a, b, s, r, c, n
<1>7. n >= a + s + r /\ (a > 0 => n > 0)
  BY <1>2, <1>3, <1>4, <1>5
<1>8. a > 0 => disk[i].type # "free"
  BY <1>2, <1>6, <1>7
<1> QED BY <1>7, <1>8 DEF a, s, r, n

\* What is used is allocated.
LEMMA UsedAllocated == ASSUME DiskInv PROVE UsedStay
<1> SUFFICES ASSUME ~strayed
             PROVE  /\ \A i \in InUse : disk[i].type # "free"
                    /\ panicked = "no" =>
                         \A i \in Cached :
                           /\ icache[i].valid
                           /\ \A p \in live : At(p, "freed") => k[p].drop # i
                           => /\ icache[i].type = disk[i].type
                              /\ icache[i].nlink = disk[i].nlink
  BY DEF UsedStay
<1>1. AliveOK /\ TypeOK /\ FilesOK /\ ProcsOK /\ CacheOK
  BY DEF DiskInv, DiskOK, LocksInv, RefsInv
<1>2. ASSUME NEW g \in 1..NFILE, ftable[g].ref > 0
      PROVE  disk[ftable[g].ip].type # "free"
  <2>1. ftable[g].ip \in Inums
    BY <1>1, <1>2 DEF FilesOK, TypeOK, Pointers
  <2>2. Filed(ftable[g].ip)
    BY <1>2 DEF Filed
  <2> QED BY <1>1, <2>1, <2>2 DEF AliveOK, Alive
<1>3. ASSUME NEW p \in live, cwd[p] # Null PROVE disk[cwd[p]].type # "free"
  BY <1>1, <1>3 DEF AliveOK, Alive, TypeOK
<1>4. ASSUME panicked = "no", NEW i \in Cached, icache[i].valid,
             \A p \in live : At(p, "freed") => k[p].drop # i
      PROVE  icache[i].type = disk[i].type /\ icache[i].nlink = disk[i].nlink
  <2>1. i \in Inums
    BY DEF Cached
  <2>2. ~FreedOf(i)
    <3>1. \A p \in Procs : k[p].pc = "freed" => p \in live
      BY <1>1 DEF ProcsOK, User
    <3> QED BY <1>4, <3>1 DEF FreedOf, At
  <2> QED BY <1>1, <1>4, <2>1, <2>2 DEF CacheOK
<1> QED BY <1>2, <1>3, <1>4 DEF InUse

\* A set of natural numbers that are at most B has a greatest one.
LEMMA Greatest ==
  ASSUME NEW B \in Nat, NEW D \in SUBSET (0..B), D # {}
  PROVE  \E x \in D : \A y \in D : y <= x
<1> DEFINE T == {B - x : x \in D}
<1>1. T \subseteq Nat /\ T # {}
  <2>1. \A x \in D : x \in 0..B /\ B - x \in Nat
    OBVIOUS
  <2> QED BY <2>1
<1>2. PICK z \in T : \A y \in T : ~ (<<y, z>> \in OpToRel(<, Nat))
  BY <1>1, WFMin, NatLessThanWellFounded
<1>3. \A y \in T : ~(y < z)
  BY <1>1, <1>2 DEF OpToRel
<1>4. PICK x \in D : z = B - x
  OBVIOUS
<1>5. ASSUME NEW y \in D PROVE y <= x
  <2>1. ~(B - y < B - x)
    BY <1>3, <1>4
  <2> QED BY <2>1
<1> QED BY <1>5

\* The processes of S wait for each other in a circle.
Circle(S) ==
  /\ S \subseteq Waiting /\ S # {}
  /\ \A p \in S : icache[Wants(k[p])].busy \in S
Holder(p) == icache[Wants(k[p])].busy

\* Who holds what one of them waits for waits in create() or unlink(), with
\* the directory locked.
LEMMA HolderWaits ==
  ASSUME LocksInv, NEW S, Circle(S), NEW p \in S
  PROVE  LET q == Holder(p) IN
         /\ q \in S /\ q \in Procs /\ k[q].pc \in {"init", "unlink"}
         /\ k[q].dp = Wants(k[p]) /\ Wants(k[q]) = k[q].ip
         /\ k[q].ip # Null
<1> DEFINE q == Holder(p)
<1>1. TypeOK /\ LocksOK /\ FramesOK
  BY DEF LocksInv, RefsInv
<1>2. /\ p \in Procs /\ k[p] \in Frame /\ Wants(k[p]) # Null
      /\ q \in S /\ q \in Procs /\ k[q] \in Frame /\ Wants(k[q]) # Null
  BY <1>1 DEF Circle, Waiting, Holder, TypeOK
<1>3. Wants(k[p]) \in Inums
  BY <1>2 DEF Wants, Frame, Pointers
<1>4. Holds(k[q], Wants(k[p]))
  BY <1>1, <1>2, <1>3 DEF LocksOK, Holder
<1>5. k[q].pc \in {"walk", "go", "found", "init", "unlink", "bad"}
  BY <1>2 DEF Wants
<1>6. Place(k[q]) = k[q].pc /\ k[q].pc \notin Freeing
  BY <1>5 DEF Place, Dropping, Freeing
<1>7. k[q].pc \in {"init", "unlink"} /\ k[q].dp = Wants(k[p])
  BY <1>4, <1>5, <1>6 DEF Holds, HoldsIp, HoldsDp
<1>8. Wants(k[q]) = k[q].ip
  BY <1>7 DEF Wants
<1> QED BY <1>2, <1>7, <1>8

\* It waits in unlink(): nobody has the inode that create() has allocated.
\* So who holds what it waits for has locked a directory deeper down.
LEMMA HolderDeeper ==
  ASSUME DiskInv, ~strayed, NEW S, Circle(S), NEW p \in S,
         NEW depth, Deepens(disk, depth)
  PROVE  LET q == Holder(p) r == Holder(q) IN
         k[q].dp \in Inums /\ depth[k[r].dp] > depth[k[q].dp]
<1> DEFINE q == Holder(p)
           r == Holder(q)
<1>1. LocksInv /\ TypeOK /\ AliveOK /\ \A x \in Procs : CallOK(x)
  BY DEF DiskInv, DiskOK, LocksInv, RefsInv
<1>2. /\ q \in S /\ q \in Procs /\ k[q].pc \in {"init", "unlink"}
      /\ k[q].dp = Wants(k[p]) /\ Wants(k[q]) = k[q].ip /\ k[q].ip # Null
  BY <1>1, HolderWaits
<1>3. /\ r \in S /\ r \in Procs /\ k[r].pc \in {"init", "unlink"}
      /\ k[r].dp = Wants(k[q]) /\ k[r].ip # Null
  BY <1>1, <1>2, HolderWaits
<1>4. Wants(k[p]) # Null
  BY DEF Circle, Waiting
<1>5. k[q].dp \in Inums /\ k[q].ip \in Inums /\ k[r].dp = k[q].ip
  BY <1>1, <1>2, <1>3, <1>4 DEF TypeOK, Frame, Pointers
<1>6. k[q].pc = "unlink"
  <2> SUFFICES ASSUME k[q].pc = "init" PROVE FALSE
    BY <1>2
  <2>1. New(q)
    BY <1>1, <1>2 DEF CallOK
  <2>2. k[q].dp # k[q].ip /\ (r # q => ~Uses(k[r], k[q].ip))
    BY <1>3, <2>1 DEF New
  <2> QED BY <1>5, <2>2 DEF Uses
<1>7. k[q].name \in Names /\ disk[k[q].dp].ents[k[q].name] = k[q].ip
  BY <1>1, <1>2, <1>6 DEF CallOK, Found
<1>8. disk[k[q].dp].type = "dir" /\ disk[k[q].ip].type = "dir"
  BY <1>1, <1>2, <1>3, <1>5 DEF AliveOK, Inums, Null
<1>9. k[q].dp \in DirsOn(disk) /\ k[q].name \in BelowOn(disk, k[q].dp)
  BY <1>5, <1>7, <1>8 DEF DirsOn, BelowOn
<1>10. depth[k[q].ip] > depth[k[q].dp]
  BY <1>7, <1>9 DEF Deepens
<1> QED BY <1>5, <1>10

\* There is no circle.
LEMMA NoCircle == ASSUME DiskInv PROVE NoLockCycle
<1> SUFFICES ASSUME ~strayed, NEW S, Circle(S) PROVE FALSE
  BY DEF NoLockCycle, Circle
<1>1. PICK B \in Nat : \E depth \in [Inums -> 0..B] : Deepens(disk, depth)
  BY DEF DiskInv, DiskOK, DepthOK
<1>2. PICK depth \in [Inums -> 0..B] : Deepens(disk, depth)
  BY <1>1
<1> DEFINE Deep(p) == depth[k[Holder(p)].dp]
           D == {Deep(p) : p \in S}
<1>3. \A p \in S : Holder(p) \in S /\ Deep(p) \in 0..B
  BY <1>2, HolderDeeper, HolderWaits DEF DiskInv
<1>4. \A p \in S : Deep(Holder(p)) > Deep(p)
  BY <1>2, HolderDeeper
<1>5. D \in SUBSET (0..B) /\ D # {}
  BY <1>3 DEF Circle
<1> HIDE DEF Deep
<1>6. PICK x \in D : \A y \in D : y <= x
  BY <1>5, Greatest
<1>7. PICK p \in S : x = Deep(p)
  OBVIOUS
<1>8. Deep(Holder(p)) <= Deep(p)
  BY <1>3, <1>6, <1>7
<1>9. Deep(Holder(p)) > Deep(p) /\ Deep(p) \in Int /\ Deep(Holder(p)) \in Int
  BY <1>3, <1>4, <1>7
<1> QED BY <1>8, <1>9

(* Whenever the power fails, what a directory names is allocated, and      *)
(* counts at least the entries that name it and the .. of its              *)
(* subdirectories: what can be reached will not be freed.  (the order of   *)
(* the writes in create, sys_link and sys_unlink)                          *)
THEOREM FileSysDiskSound == Spec => []DiskSound
BY FileSysDisk, CountsSound, PTL

(* What is open or a current directory stays allocated, and what the cache *)
(* says of it is what the disk says.  (iput, ilock, iupdate)               *)
THEOREM FileSysUsedStay == Spec => []UsedStay
BY FileSysDisk, UsedAllocated, PTL

(* The processes in the file system never wait for each other's inodes in  *)
(* a circle: who waits while holding an inode is in create() or unlink(),  *)
(* has a directory, and waits for what is deeper down.                     *)
THEOREM FileSysNoLockCycle == Spec => []NoLockCycle
BY FileSysDisk, NoCircle, PTL

(* ilock() finds no free inode, iput() no lock on what it frees, unlink()  *)
(* no count below 1: the kernel panics only when the cache or the disk has *)
(* no inode left.                                                          *)
THEOREM FileSysPanics == Spec => []PanicsOnlyWhenFull
<1>1. DiskInv => PanicsOnlyWhenFull
  BY DEF DiskInv, DiskOK, PanicOK, PanicsOnlyWhenFull
<1> QED BY <1>1, FileSysDisk, PTL

=============================================================================
