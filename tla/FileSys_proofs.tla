--------------------------- MODULE FileSys_proofs ---------------------------
(***************************************************************************)
(* Proofs about FileSys: references are counted exactly.                   *)
(***************************************************************************)
EXTENDS FileSys, FiniteSetTheorems, SequenceTheorems, TLAPS

-----------------------------------------------------------------------------
(* The inductive invariant.                                                *)

Dropping == {"put", "trunc", "free", "freed"}
Places ==
  {"user", "walk", "go", "found", "opened", "init", "dots", "dots2", "enter",
   "made", "unlink", "kept", "erased", "unlinked", "rest", "exists", "bad",
   "cd", "exit", "dead"}
Ops == {"open", "openw", "create", "mkdir", "mknod", "unlink", "link",
        "chdir", "exec"}
Paths == {s \in Seq(Elements \cup {"/"}) : IsPath(s)}

Slot == [ref : Int, busy : Procs \cup {Nobody}, valid : BOOLEAN,
         type : Types, nlink : Int]
Inode == [type : Types, nlink : Int, ents : [Entries -> Pointers]]
Frame ==
  [pc : Places \cup Dropping, op : Ops \cup {"link2", "none"},
   path : Seq(Elements), new : Paths, name : Elements, ip : Pointers,
   dp : Pointers, src : Pointers, drop : Pointers, back : Places]

TypeOK ==
  /\ disk \in [Inums -> Inode] /\ icache \in [Inums -> Slot]
  /\ ftable \in [1..NFILE -> [ref : Int, ip : Pointers]]
  /\ live \in SUBSET Procs /\ cwd \in [Procs -> Pointers]
  /\ ofile \in [Procs -> [1..NOFILE -> 0..NFILE]]
  /\ k \in [Procs -> Frame]

\* Where a call is, or will be once iput() is done.
Place(f) == IF f.pc \in Dropping THEN f.back ELSE f.pc

\* The pointers a call has there.
HasIp(l, op) ==
  \/ l \in {"walk", "found", "opened", "init", "dots", "dots2", "enter",
            "made", "unlink", "erased", "unlinked", "cd"}
  \/ l = "go" /\ op \notin ForParent
HasDp(l, op) ==
  \/ l \in {"init", "dots", "dots2", "enter", "unlink", "kept", "erased",
            "exists"}
  \/ l = "go" /\ op \in ForParent
HasSrc(l, op) == op = "link2" /\ l \in {"walk", "go", "exists", "bad", "rest"}

\* The calls that come there.
OpAt(l, op) ==
  /\ l \in {"walk", "go"} => op # "none"
  /\ l \in {"found", "init", "dots", "dots2", "enter", "made"} =>
       op \in Making
  /\ l = "opened" => op \in {"open", "openw", "create"}
  /\ l \in {"unlink", "kept", "erased", "unlinked"} => op = "unlink"
  /\ l \in {"bad", "exists", "rest"} => op = "link2"
  /\ l = "cd" => op = "chdir"

FrameOK(f) ==
  /\ f.drop # Null <=> f.pc \in Dropping
  /\ f.ip # Null <=> HasIp(Place(f), f.op)
  /\ f.dp # Null <=> HasDp(Place(f), f.op)
  /\ f.src # Null <=> HasSrc(Place(f), f.op)
  /\ OpAt(Place(f), f.op)
FramesOK == \A p \in Procs : FrameOK(k[p])

\* Who has a current directory, and files.
ProcsOK == \A p \in Procs :
  /\ p \notin live => k[p] = User
  /\ cwd[p] = Null <=> p \notin live \/ Place(k[p]) \in {"cd", "dead"}
  /\ p \notin live \/ Place(k[p]) = "dead" =>
       \A d \in 1..NOFILE : ofile[p][d] = Null

InodeRefs == \A i \in Inums : icache[i].ref = References(i)
Descriptors(f) == {x \in live \X (1..NOFILE) : ofile[x[1]][x[2]] = f}
FileRefs == \A f \in 1..NFILE : ftable[f].ref = Cardinality(Descriptors(f))
FilesOK == \A f \in 1..NFILE : ftable[f].ref > 0 <=> ftable[f].ip # Null

RefsInv == TypeOK /\ FramesOK /\ ProcsOK /\ InodeRefs /\ FileRefs /\ FilesOK

-----------------------------------------------------------------------------
(* Counting.                                                               *)

In(x, S) == IF x \in S THEN 1 ELSE 0
Is(x, y) == IF x = y THEN 1 ELSE 0

\* Two sets that differ in one element at most.
LEMMA CountOne ==
  ASSUME NEW S, NEW T, NEW x, IsFiniteSet(S), S \ {x} = T \ {x}
  PROVE  /\ IsFiniteSet(T)
         /\ Cardinality(S) \in Nat /\ Cardinality(T) \in Nat
         /\ Cardinality(T) = Cardinality(S) + In(x, T) - In(x, S)
<1> DEFINE R == S \ {x}
<1>1. /\ IsFiniteSet(R) /\ Cardinality(S) \in Nat /\ Cardinality(R) \in Nat
      /\ Cardinality(R) = Cardinality(S) - In(x, S)
  <2>1. /\ IsFiniteSet(R)
        /\ Cardinality(R) = IF x \in S THEN Cardinality(S) - 1
                            ELSE Cardinality(S)
    BY FS_RemoveElement
  <2>2. Cardinality(S) \in Nat /\ Cardinality(R) \in Nat
    BY <2>1, FS_CardinalityType
  <2> QED BY <2>1, <2>2 DEF In, Is
<1>2. CASE x \in T
  <2>1. T = R \cup {x} /\ x \notin R
    BY <1>2
  <2>2. IsFiniteSet(T) /\ Cardinality(T) = Cardinality(R) + 1
    BY <2>1, <1>1, FS_AddElement
  <2> QED BY <1>1, <1>2, <2>2 DEF In, Is
<1>3. CASE x \notin T
  <2>1. T = R
    BY <1>3
  <2> QED BY <1>1, <1>3, <2>1 DEF In, Is
<1> QED BY <1>2, <1>3

\* A set with an element has one at least.
LEMMA CountMember ==
  ASSUME NEW S, NEW x \in S, IsFiniteSet(S)
  PROVE  Cardinality(S) \in Nat /\ Cardinality(S) >= 1
<1>1. Cardinality(S) \in Nat /\ Cardinality(S) # 0
  BY FS_CardinalityType, FS_EmptySet
<1> QED BY <1>1

Points(f, i) == Is(f.ip, i) + Is(f.dp, i) + Is(f.src, i)
                + Is(f.drop, i)

\* What References() counts is finite.
LEMMA RefsFinite ==
  ASSUME TypeOK, NEW i
  PROVE  /\ IsFiniteSet(Opened(i)) /\ Cardinality(Opened(i)) \in Nat
         /\ IsFiniteSet(Inside(i)) /\ Cardinality(Inside(i)) \in Nat
         /\ \A v : IsFiniteSet(Using(v, i)) /\ Cardinality(Using(v, i)) \in Nat
<1>1. IsFiniteSet(1..NFILE)
  BY NumberAssumption, FS_Interval
<1>2. IsFiniteSet(live)
  BY ProcAssumption, FS_Subset DEF TypeOK
<1>3. IsFiniteSet(Opened(i))
  BY <1>1, FS_Subset DEF Opened
<1>4. \A T \in SUBSET live : IsFiniteSet(T)
  BY <1>2, FS_Subset
<1>5. IsFiniteSet(Inside(i)) /\ \A v : IsFiniteSet(Using(v, i))
  BY <1>4 DEF Inside, Using
<1> QED BY <1>3, <1>5, FS_CardinalityType

\* The references to i are as many as its pointers.
LEMMA RefsNat ==
  ASSUME TypeOK, NEW i
  PROVE  /\ References(i) \in Nat
         /\ \A p \in live :
              References(i) >= Is(cwd[p], i) + Points(k[p], i)
         /\ \A f \in 1..NFILE :
              ftable[f].ref > 0 /\ ftable[f].ip = i => References(i) >= 1
<1>1. /\ IsFiniteSet(Opened(i)) /\ Cardinality(Opened(i)) \in Nat
      /\ IsFiniteSet(Inside(i)) /\ Cardinality(Inside(i)) \in Nat
      /\ \A v : IsFiniteSet(Using(v, i)) /\ Cardinality(Using(v, i)) \in Nat
  BY RefsFinite
<1>2. ASSUME NEW p \in live
      PROVE  References(i) >= Is(cwd[p], i) + Points(k[p], i)
  <2>1. cwd[p] = i => Cardinality(Inside(i)) >= 1
    BY <1>1, CountMember DEF Inside
  <2>2. \A v : k[p][v] = i => Cardinality(Using(v, i)) >= 1
    BY <1>1, CountMember DEF Using
  <2>3. /\ k[p].ip = i => Cardinality(Using("ip", i)) >= 1
        /\ k[p].dp = i => Cardinality(Using("dp", i)) >= 1
        /\ k[p].src = i => Cardinality(Using("src", i)) >= 1
        /\ k[p].drop = i => Cardinality(Using("drop", i)) >= 1
    BY <2>2
  <2> QED BY <1>1, <2>1, <2>3 DEF References, Points, In, Is
<1>3. ASSUME NEW f \in 1..NFILE, ftable[f].ref > 0, ftable[f].ip = i
      PROVE  References(i) >= 1
  <2>1. Cardinality(Opened(i)) >= 1
    BY <1>1, <1>3, CountMember DEF Opened
  <2> QED BY <1>1, <2>1 DEF References
<1>4. References(i) \in Nat
  BY <1>1 DEF References
<1> QED BY <1>2, <1>3, <1>4

\* Functions g0 and g1 on S that differ at x at most.
Val(g, x) == g[x]
Field(g, x, v) == g[x][v]
Differ(S, g0, g1, x) == x \in S /\ \A y \in S \ {x} : g1[y] = g0[y]

\* The elements with value i.
Holders(S, g, i) == Cardinality({x \in S : g[x] = i})

\* What such a change does to their count.
LEMMA HolderCounts ==
  ASSUME NEW S, NEW g0, NEW g1, NEW i, NEW p, IsFiniteSet(S),
         Differ(S, g0, g1, p)
  PROVE  Holders(S, g1, i) =
           Holders(S, g0, i) + Is(Val(g1, p), i) - Is(Val(g0, p), i)
<1> DEFINE A == {x \in S : g0[x] = i}
           B == {x \in S : g1[x] = i}
<1>1. IsFiniteSet(A) /\ A \ {p} = B \ {p}
  BY FS_Subset DEF Differ
<1>2. In(p, B) = Is(Val(g1, p), i) /\ In(p, A) = Is(Val(g0, p), i)
  BY DEF In, Is, Val, Differ
<1> HIDE DEF A, B
<1>3. Cardinality(B) = Cardinality(A) + In(p, B) - In(p, A)
  BY <1>1, CountOne
<1> QED BY <1>2, <1>3 DEF A, B, Holders

\* Those with value i in a field.
Held(S, g, v, i) == Cardinality({x \in S : g[x][v] = i})

\* The same of them.
LEMMA HeldCounts ==
  ASSUME NEW S, NEW g0, NEW g1, NEW v, NEW i, NEW p, IsFiniteSet(S),
         Differ(S, g0, g1, p)
  PROVE  Held(S, g1, v, i) =
           Held(S, g0, v, i) + Is(Field(g1, p, v), i) - Is(Field(g0, p, v), i)
<1> DEFINE A == {x \in S : g0[x][v] = i}
           B == {x \in S : g1[x][v] = i}
<1>1. IsFiniteSet(A) /\ A \ {p} = B \ {p}
  BY FS_Subset DEF Differ
<1>2. In(p, B) = Is(Field(g1, p, v), i) /\ In(p, A) = Is(Field(g0, p, v), i)
  BY DEF In, Is, Field, Differ
<1> HIDE DEF A, B
<1>3. Cardinality(B) = Cardinality(A) + In(p, B) - In(p, A)
  BY <1>1, CountOne
<1> QED BY <1>2, <1>3 DEF A, B, Held

\* These counts are numbers.
LEMMA HolderNat ==
  ASSUME NEW S, NEW g, NEW i, IsFiniteSet(S)
  PROVE  Holders(S, g, i) \in Nat /\ \A v : Held(S, g, v, i) \in Nat
BY FS_Subset, FS_CardinalityType DEF Holders, Held

\* The pointers to i of all files and processes.
Slots == 1..NFILE
Total(files, dirs, frames, i) ==
  Held(Slots, files, "ip", i) + Holders(Procs, dirs, i)
  + Held(Procs, frames, "ip", i) + Held(Procs, frames, "dp", i)
  + Held(Procs, frames, "src", i) + Held(Procs, frames, "drop", i)
TotalsOK ==
  TypeOK /\ ProcsOK /\ FilesOK =>
    \A i \in Inums : References(i) = Total(ftable, cwd, k, i)

\* No pointer is in an unused file or a process that does not exist.
LEMMA Totals == TotalsOK
<1> SUFFICES ASSUME NEW i \in Inums, TypeOK, ProcsOK, FilesOK
             PROVE  References(i) = Total(ftable, cwd, k, i)
  BY DEF TotalsOK
<1>1. \A p \in Procs \ live :
        /\ cwd[p] # i /\ k[p].ip # i /\ k[p].dp # i /\ k[p].src # i
        /\ k[p].drop # i
  BY DEF ProcsOK, User, Inums, Null
<1>2. live \subseteq Procs
  BY DEF TypeOK
<1>3. Opened(i) = {x \in 1..NFILE : ftable[x].ip = i}
  BY DEF Opened, FilesOK, Inums, Null
<1>4. Inside(i) = {q \in Procs : cwd[q] = i}
  BY <1>1, <1>2 DEF Inside
<1>5. /\ Using("ip", i) = {q \in Procs : k[q].ip = i}
      /\ Using("dp", i) = {q \in Procs : k[q].dp = i}
      /\ Using("src", i) = {q \in Procs : k[q].src = i}
      /\ Using("drop", i) = {q \in Procs : k[q].drop = i}
  BY <1>1, <1>2 DEF Using
<1> QED BY <1>3, <1>4, <1>5 DEF References, Total, Held, Holders, Slots

\* What a change of one process and of one file does to a count.
LEMMA TotalCounts ==
  ASSUME NEW fs0, NEW fs1, NEW ds0, NEW ds1, NEW k0, NEW k1, NEW i,
         NEW p, NEW g, Differ(Procs, k0, k1, p), Differ(Procs, ds0, ds1, p),
         Differ(Slots, fs0, fs1, g)
  PROVE  Total(fs1, ds1, k1, i) =
           Total(fs0, ds0, k0, i)
             + Is(Field(fs1, g, "ip"), i) - Is(Field(fs0, g, "ip"), i)
             + Is(Val(ds1, p), i) - Is(Val(ds0, p), i)
             + Points(Val(k1, p), i) - Points(Val(k0, p), i)
<1>1. IsFiniteSet(Procs)
  BY ProcAssumption
<1>2. IsFiniteSet(Slots)
  BY NumberAssumption, FS_Interval DEF Slots
<1>3. Held(Slots, fs1, "ip", i) =
        Held(Slots, fs0, "ip", i)
          + Is(Field(fs1, g, "ip"), i) - Is(Field(fs0, g, "ip"), i)
  BY <1>2, HeldCounts
<1>4. Holders(Procs, ds1, i) =
        Holders(Procs, ds0, i) + Is(Val(ds1, p), i) - Is(Val(ds0, p), i)
  BY <1>1, HolderCounts
<1>5. \A v : Held(Procs, k1, v, i) =
        Held(Procs, k0, v, i) + Is(Field(k1, p, v), i) - Is(Field(k0, p, v), i)
  BY <1>1, HeldCounts
<1>6. /\ Held(Slots, fs0, "ip", i) \in Nat
      /\ Holders(Procs, ds0, i) \in Nat
      /\ \A v : Held(Procs, k0, v, i) \in Nat
  BY <1>1, <1>2, HolderNat
<1>7. /\ Is(Field(fs1, g, "ip"), i) \in Int /\ Is(Val(ds1, p), i) \in Int
      /\ Is(Field(fs0, g, "ip"), i) \in Int /\ Is(Val(ds0, p), i) \in Int
      /\ Is(Field(k1, p, "ip"), i) \in Int /\ Is(Field(k1, p, "dp"), i) \in Int
      /\ Is(Field(k1, p, "src"), i) \in Int
      /\ Is(Field(k1, p, "drop"), i) \in Int
      /\ Is(Field(k0, p, "ip"), i) \in Int /\ Is(Field(k0, p, "dp"), i) \in Int
      /\ Is(Field(k0, p, "src"), i) \in Int
      /\ Is(Field(k0, p, "drop"), i) \in Int
  BY DEF Is
<1>8. /\ Points(Val(k1, p), i) =
           Is(Field(k1, p, "ip"), i) + Is(Field(k1, p, "dp"), i)
             + Is(Field(k1, p, "src"), i) + Is(Field(k1, p, "drop"), i)
      /\ Points(Val(k0, p), i) =
           Is(Field(k0, p, "ip"), i) + Is(Field(k0, p, "dp"), i)
             + Is(Field(k0, p, "src"), i) + Is(Field(k0, p, "drop"), i)
  BY DEF Points, Val, Field
<1>9. /\ Total(fs0, ds0, k0, i) =
           Held(Slots, fs0, "ip", i) + Holders(Procs, ds0, i)
           + Held(Procs, k0, "ip", i) + Held(Procs, k0, "dp", i)
           + Held(Procs, k0, "src", i) + Held(Procs, k0, "drop", i)
      /\ Total(fs1, ds1, k1, i) =
           Held(Slots, fs1, "ip", i) + Holders(Procs, ds1, i)
           + Held(Procs, k1, "ip", i) + Held(Procs, k1, "dp", i)
           + Held(Procs, k1, "src", i) + Held(Procs, k1, "drop", i)
  BY DEF Total
<1>10. /\ Held(Procs, k1, "ip", i) = Held(Procs, k0, "ip", i)
            + Is(Field(k1, p, "ip"), i) - Is(Field(k0, p, "ip"), i)
       /\ Held(Procs, k1, "dp", i) = Held(Procs, k0, "dp", i)
            + Is(Field(k1, p, "dp"), i) - Is(Field(k0, p, "dp"), i)
       /\ Held(Procs, k1, "src", i) = Held(Procs, k0, "src", i)
            + Is(Field(k1, p, "src"), i) - Is(Field(k0, p, "src"), i)
       /\ Held(Procs, k1, "drop", i) = Held(Procs, k0, "drop", i)
            + Is(Field(k1, p, "drop"), i) - Is(Field(k0, p, "drop"), i)
  BY <1>5
<1>11. /\ Held(Procs, k0, "ip", i) \in Int
       /\ Held(Procs, k0, "dp", i) \in Int
       /\ Held(Procs, k0, "src", i) \in Int
       /\ Held(Procs, k0, "drop", i) \in Int
       /\ Held(Slots, fs0, "ip", i) \in Int
       /\ Holders(Procs, ds0, i) \in Int
  BY <1>6
<1>12. /\ Held(Procs, k1, "ip", i) \in Int /\ Held(Procs, k1, "dp", i) \in Int
       /\ Held(Procs, k1, "src", i) \in Int
       /\ Held(Procs, k1, "drop", i) \in Int
       /\ Held(Slots, fs1, "ip", i) \in Int
       /\ Holders(Procs, ds1, i) \in Int
  <2>1. /\ Held(Slots, fs1, "ip", i) \in Nat
        /\ Holders(Procs, ds1, i) \in Nat
        /\ \A v : Held(Procs, k1, v, i) \in Nat
    BY <1>1, <1>2, HolderNat
  <2> QED BY <2>1
<1>13. /\ Points(Val(k1, p), i) \in Int /\ Points(Val(k0, p), i) \in Int
       /\ Held(Procs, k1, "ip", i) + Held(Procs, k1, "dp", i)
            + Held(Procs, k1, "src", i) + Held(Procs, k1, "drop", i) =
          Held(Procs, k0, "ip", i) + Held(Procs, k0, "dp", i)
            + Held(Procs, k0, "src", i) + Held(Procs, k0, "drop", i)
            + Points(Val(k1, p), i) - Points(Val(k0, p), i)
  BY <1>7, <1>8, <1>10, <1>11, <1>12
<1> QED BY <1>3, <1>4, <1>7, <1>9, <1>11, <1>12, <1>13

\* The same of the references to i.
LEMMA RefsChange ==
  ASSUME NEW p, NEW g, TypeOK, ProcsOK, FilesOK, TypeOK', ProcsOK', FilesOK',
         Differ(Procs, k, k', p), Differ(Procs, cwd, cwd', p),
         Differ(Slots, ftable, ftable', g)
  PROVE  \A i \in Inums :
           References(i)' =
             References(i)
               + Is(Field(ftable', g, "ip"), i) - Is(Field(ftable, g, "ip"), i)
               + Is(Val(cwd', p), i) - Is(Val(cwd, p), i)
               + Points(Val(k', p), i) - Points(Val(k, p), i)
<1> TAKE i \in Inums
<1>1. References(i) = Total(ftable, cwd, k, i)
  BY Totals DEF TotalsOK
<1>2. References(i)' = Total(ftable', cwd', k', i)
  <2>1. TotalsOK'
    BY Totals, PTL
  <2> QED BY <2>1 DEF TotalsOK
<1>3. Total(ftable', cwd', k', i) =
        Total(ftable, cwd, k, i)
          + Is(Field(ftable', g, "ip"), i) - Is(Field(ftable, g, "ip"), i)
          + Is(Val(cwd', p), i) - Is(Val(cwd, p), i)
          + Points(Val(k', p), i) - Points(Val(k, p), i)
  BY TotalCounts
<1> QED BY <1>1, <1>2, <1>3

\* The frame of a process in user space.
LEMMA UserFrame ==
  /\ User \in Frame /\ FrameOK(User) /\ Place(User) = "user"
  /\ \A i \in Inums : Points(User, i) = 0
<1>1. <<>> \in Seq(Elements) /\ <<>> \in Paths
  BY DEF Paths, IsPath
<1>2. User \in Frame
  BY <1>1 DEF User, Frame, Places, Dropping, Elements, Pointers, Null
<1>3. Place(User) = "user"
  BY DEF User, Place, Dropping
<1>4. FrameOK(User)
  BY <1>3 DEF User, FrameOK, HasIp, HasDp, HasSrc, OpAt, Dropping
<1>5. \A i \in Inums : Points(User, i) = 0
  BY DEF User, Points, Is, Inums, Null
<1> QED BY <1>2, <1>3, <1>4, <1>5

-----------------------------------------------------------------------------
(* Steps of one process.                                                   *)

\* What stays when only the frame of p, its directory and the cache change.
LEMMA ProcStep ==
  ASSUME NEW p \in live, NEW f \in Frame, NEW c \in Pointers, RefsInv,
         FrameOK(f), k' = [k EXCEPT ![p] = f], cwd' = [cwd EXCEPT ![p] = c],
         UNCHANGED <<ftable, live, ofile>>,
         disk' \in [Inums -> Inode], icache' \in [Inums -> Slot],
         c = Null <=> Place(f) \in {"cd", "dead"},
         Place(f) = "dead" => \A d \in 1..NOFILE : ofile[p][d] = Null,
         \A i \in Inums :
           icache'[i].ref = icache[i].ref + Is(c, i) - Is(cwd[p], i)
                              + Points(f, i) - Points(k[p], i)
  PROVE  RefsInv'
<1>1. /\ p \in Procs /\ k \in [Procs -> Frame] /\ k'[p] = f
      /\ cwd'[p] = c /\ TypeOK /\ ProcsOK /\ FilesOK
      /\ \A q \in Procs \ {p} : k'[q] = k[q] /\ cwd'[q] = cwd[q]
  BY DEF RefsInv, TypeOK
<1>2. TypeOK'
  BY <1>1 DEF RefsInv, TypeOK
<1>3. FramesOK'
  <2>1. \A q \in Procs : FrameOK(k'[q])
    BY <1>1 DEF RefsInv, FramesOK
  <2> QED BY <2>1 DEF FramesOK, FrameOK, Place, HasIp, HasDp, HasSrc, OpAt
<1>4. ProcsOK'
  <2> SUFFICES ASSUME NEW q \in Procs
               PROVE  /\ q \notin live => k'[q] = User
                      /\ cwd'[q] = Null <=>
                           q \notin live \/ Place(k'[q]) \in {"cd", "dead"}
                      /\ q \notin live \/ Place(k'[q]) = "dead" =>
                           \A d \in 1..NOFILE : ofile[q][d] = Null
    BY DEF ProcsOK, Place, User
  <2>1. CASE q = p
    BY <2>1, <1>1
  <2>2. CASE q # p
    BY <2>2, <1>1 DEF ProcsOK
  <2> QED BY <2>1, <2>2
<1>5. FileRefs' /\ FilesOK'
  BY DEF RefsInv, FileRefs, FilesOK, Descriptors
<1>6. InodeRefs'
  <2> SUFFICES ASSUME NEW i \in Inums
               PROVE  icache'[i].ref = References(i)'
    BY DEF InodeRefs
  <2>1. References(i) \in Nat /\ icache[i].ref = References(i)
    BY RefsNat DEF RefsInv, InodeRefs
  <2>2. PICK g : g \in 1..NFILE
    BY NumberAssumption
  <2>3. /\ Differ(Procs, k, k', p) /\ Differ(Procs, cwd, cwd', p)
        /\ Differ(Slots, ftable, ftable', g)
    BY <1>1, <2>2 DEF Differ, Slots
  <2>8. FilesOK'
    BY <1>5
  <2>4. References(i)' =
          References(i)
            + Is(Field(ftable', g, "ip"), i) - Is(Field(ftable, g, "ip"), i)
            + Is(Val(cwd', p), i) - Is(Val(cwd, p), i)
            + Points(Val(k', p), i) - Points(Val(k, p), i)
    BY ONLY <1>1, <1>2, <1>4, <2>8, <2>3, RefsChange
  <2>5. /\ Field(ftable', g, "ip") = Field(ftable, g, "ip")
        /\ Val(cwd', p) = c /\ Val(cwd, p) = cwd[p]
        /\ Val(k', p) = f /\ Val(k, p) = k[p]
    BY <1>1 DEF Field, Val
  <2>6. \A x : Is(x, i) \in Int /\ Points(x, i) \in Int
    BY DEF Is, Points
  <2> QED BY <2>1, <2>4, <2>5, <2>6
<1> QED BY <1>2, <1>3, <1>4, <1>5, <1>6 DEF RefsInv

\* When its directory stays the same.
LEMMA FrameStep ==
  ASSUME NEW p \in live, NEW f \in Frame, RefsInv, FrameOK(f),
         k' = [k EXCEPT ![p] = f], UNCHANGED <<ftable, procVars>>,
         disk' \in [Inums -> Inode], icache' \in [Inums -> Slot],
         Place(f) = Place(k[p])
           \/ {Place(f), Place(k[p])} \cap {"cd", "dead"} = {},
         \A i \in Inums :
           icache'[i].ref = icache[i].ref + Points(f, i) - Points(k[p], i)
  PROVE  RefsInv'
<1>1. /\ cwd[p] \in Pointers /\ cwd' = [cwd EXCEPT ![p] = cwd[p]]
      /\ UNCHANGED <<ftable, live, ofile>>
      /\ \A i \in Inums : icache[i].ref \in Int
  BY DEF procVars, RefsInv, TypeOK, Slot
<1>2. /\ cwd[p] = Null <=> Place(f) \in {"cd", "dead"}
      /\ Place(f) = "dead" => \A d \in 1..NOFILE : ofile[p][d] = Null
  BY DEF RefsInv, ProcsOK, TypeOK
<1>3. \A i \in Inums :
        icache'[i].ref = icache[i].ref + Is(cwd[p], i) - Is(cwd[p], i)
                           + Points(f, i) - Points(k[p], i)
  BY <1>1 DEF Is
<1> QED BY <1>1, <1>2, <1>3, ProcStep

\* The kernel stops.
LEMMA StopStep ==
  ASSUME RefsInv, NEW m, Stop(m), disk' \in [Inums -> Inode]
  PROVE  RefsInv'
<1>1. UNCHANGED <<icache, ftable, live, cwd, ofile, k>>
  BY DEF Stop, procVars
<1>2. TypeOK' /\ FramesOK' /\ ProcsOK'
  BY <1>1 DEF RefsInv, TypeOK, FramesOK, ProcsOK, FrameOK, Place, HasIp, HasDp,
              HasSrc, OpAt
<1>3. InodeRefs' /\ FileRefs' /\ FilesOK'
  BY <1>1 DEF RefsInv, InodeRefs, References, Opened, Inside, Using,
              FileRefs, FilesOK, Descriptors
<1> QED BY <1>2, <1>3 DEF RefsInv

-----------------------------------------------------------------------------
(* The cache: only iget() and iput() change counts.                        *)

SameRefs(cache) ==
  cache \in [Inums -> Slot] /\ \A j \in Inums : cache[j].ref = icache[j].ref

\* ilock() leaves the counts alone.
LEMMA IlockRefs ==
  ASSUME TypeOK, NEW p \in Procs, NEW i \in Inums
  PROVE  SameRefs(ilock(p, i))
<1> DEFINE new == IF icache[i].valid THEN [icache[i] EXCEPT !.busy = p]
                  ELSE [icache[i] EXCEPT !.busy = p, !.valid = TRUE,
                          !.type = disk[i].type, !.nlink = disk[i].nlink]
<1>1. new \in Slot /\ new.ref = icache[i].ref
  BY DEF TypeOK, Slot, Inode
<1>2. ilock(p, i) = [icache EXCEPT ![i] = new]
  BY DEF ilock
<1> HIDE DEF new
<1> QED BY <1>1, <1>2 DEF SameRefs, TypeOK

\* So does iunlock().
LEMMA IunlockRefs ==
  ASSUME NEW cache, SameRefs(cache), NEW i \in Inums
  PROVE  SameRefs(iunlock(cache, i))
<1>1. /\ [cache[i] EXCEPT !.busy = Nobody] \in Slot
      /\ [cache[i] EXCEPT !.busy = Nobody].ref = icache[i].ref
  BY DEF SameRefs, Slot
<1> QED BY <1>1 DEF SameRefs, iunlock

\* And iupdate().
LEMMA RelinkRefs ==
  ASSUME NEW cache, SameRefs(cache), NEW i \in Inums, NEW n \in Int
  PROVE  SameRefs([cache EXCEPT ![i].nlink = n])
<1>1. /\ [cache[i] EXCEPT !.nlink = n] \in Slot
      /\ [cache[i] EXCEPT !.nlink = n].ref = icache[i].ref
  BY DEF SameRefs, Slot
<1> QED BY <1>1 DEF SameRefs

\* A free inode is an inode.
LEMMA FreeInodeType ==
  NoEntries \in [Entries -> Pointers] /\ FreeInode \in Inode
<1>1. NoEntries \in [Entries -> Pointers]
  BY DEF NoEntries, Pointers
<1> QED BY <1>1 DEF FreeInode, Inode, Types

\* An empty slot is a slot.
LEMMA UncachedSlot == Uncached \in Slot /\ Uncached.ref = 0
BY DEF Uncached, Slot, Types

\* iget() counts one more.
LEMMA IgetRefs ==
  ASSUME RefsInv, NEW cache, SameRefs(cache), NEW i \in Inums
  PROVE  /\ iget(cache, i) \in [Inums -> Slot]
         /\ \A j \in Inums :
              iget(cache, i)[j].ref = icache[j].ref + Is(i, j)
<1>1. icache[i].ref \in Nat
  BY RefsNat DEF RefsInv, InodeRefs
<1>2. /\ [cache[i] EXCEPT !.ref = @ + 1] \in Slot
      /\ [cache[i] EXCEPT !.ref = @ + 1].ref = icache[i].ref + 1
      /\ [Uncached EXCEPT !.ref = 1] \in Slot
      /\ [Uncached EXCEPT !.ref = 1].ref = 1
  <2>1. cache[i] \in Slot /\ cache[i].ref = icache[i].ref
    BY DEF SameRefs
  <2>2. /\ [cache[i] EXCEPT !.ref = @ + 1] \in Slot
        /\ [cache[i] EXCEPT !.ref = @ + 1].ref = icache[i].ref + 1
    BY <2>1, <1>1 DEF Slot
  <2>3. /\ [Uncached EXCEPT !.ref = 1] \in Slot
        /\ [Uncached EXCEPT !.ref = 1].ref = 1
    BY UncachedSlot DEF Slot
  <2> QED BY <2>2, <2>3
<1>3. \A j \in Inums : icache[j].ref \in Int
  BY DEF RefsInv, TypeOK, Slot
<1>4. CASE cache[i].ref > 0
  <2>1. iget(cache, i) = [cache EXCEPT ![i] = [cache[i] EXCEPT !.ref = @ + 1]]
    BY <1>4 DEF iget
  <2> QED BY <2>1, <1>2, <1>3 DEF SameRefs, In, Is
<1>5. CASE ~(cache[i].ref > 0)
  <2>1. iget(cache, i) = [cache EXCEPT ![i] = [Uncached EXCEPT !.ref = 1]]
    BY <1>5 DEF iget
  <2>2. icache[i].ref = 0
    BY <1>1, <1>5 DEF SameRefs
  <2> QED BY <2>1, <2>2, <1>2, <1>3 DEF SameRefs, In, Is
<1> QED BY <1>4, <1>5

\* What a process wants is an inode, and locking it changes no count.
LEMMA LocksRefs ==
  ASSUME TypeOK, NEW p \in Procs, NEW l, Locks(p, l)
  PROVE  /\ p \in live /\ k[p] \in Frame /\ k[p].pc = l
         /\ Wants(k[p]) \in Inums
         /\ SameRefs(Locked(p)) /\ SameRefs(Visited(p))
<1>1. p \in live /\ k[p] \in Frame /\ k[p].pc = l /\ Wants(k[p]) # Null
  BY DEF TypeOK, Locks, At
<1>2. Wants(k[p]) \in Inums
  BY <1>1 DEF Wants, Frame, Pointers
<1> QED BY <1>1, <1>2, IlockRefs, IunlockRefs DEF Locked, Visited

-----------------------------------------------------------------------------
(* The shapes that steps of calls have.                                    *)

\* Frame f may follow that of p, with one more pointer to i.
Follows(f, p, i) ==
  /\ f \in Frame /\ FrameOK(f)
  /\ \/ Place(f) = Place(k[p])
     \/ {Place(f), Place(k[p])} \cap {"cd", "dead"} = {}
  /\ \A j \in Inums : Points(f, j) = Points(k[p], j) + Is(i, j)

\* What is known of a process in the kernel.
LEMMA FrameOf ==
  ASSUME NEW p \in live, RefsInv
  PROVE  /\ TypeOK /\ p \in Procs /\ k[p] \in Frame /\ FrameOK(k[p])
         /\ disk \in [Inums -> Inode] /\ icache \in [Inums -> Slot]
         /\ SameRefs(icache)
         /\ \A j \in Inums : Points(k[p], j) \in Int
BY DEF RefsInv, TypeOK, FramesOK, SameRefs, Points, Is

\* A step that takes a reference, or stops the kernel.
LEMMA GetStep ==
  ASSUME NEW p \in live, NEW f, NEW cache, NEW i \in Inums, RefsInv,
         SameRefs(cache), Get(p, cache, i, f), disk' \in [Inums -> Inode],
         Follows(f, p, i)
  PROVE  RefsInv'
<1>1. CASE NoSlot(i)
  <2>1. Stop("iget: no inodes")
    BY <1>1 DEF Get
  <2> QED BY <2>1, StopStep
<1>2. CASE ~NoSlot(i)
  <2>1. /\ icache' = iget(cache, i) /\ k' = [k EXCEPT ![p] = f]
        /\ UNCHANGED <<ftable, procVars>>
    BY <1>2 DEF Get, Become, Kernel
  <2>2. /\ icache' \in [Inums -> Slot]
        /\ \A j \in Inums : icache'[j].ref = icache[j].ref + Is(i, j)
    BY <2>1, IgetRefs
  <2>3. \A j \in Inums : icache[j].ref \in Int /\ Points(k[p], j) \in Int
    BY FrameOf DEF Slot
  <2>4. \A j \in Inums :
          icache'[j].ref = icache[j].ref + Points(f, j) - Points(k[p], j)
    BY <2>2, <2>3 DEF Is, Follows
  <2> QED BY <2>1, <2>2, <2>4, FrameStep DEF Follows
<1> QED BY <1>1, <1>2

\* A step that only moves pointers from one variable to another.
LEMMA MoveStep ==
  ASSUME NEW p \in live, NEW f, RefsInv, Become(p, f), Kernel,
         SameRefs(icache'), disk' \in [Inums -> Inode],
         Follows(f, p, Null)
  PROVE  RefsInv'
<1>1. \A j \in Inums : icache[j].ref \in Int /\ Points(k[p], j) \in Int
  BY FrameOf DEF Slot
<1>2. \A j \in Inums : Is(Null, j) = 0
  BY DEF Inums, Null, Is
<1>3. \A j \in Inums :
        icache'[j].ref = icache[j].ref + Points(f, j) - Points(k[p], j)
  BY <1>1, <1>2 DEF SameRefs, Follows
<1> QED BY <1>3, FrameStep DEF Follows, SameRefs, Become, Kernel

-----------------------------------------------------------------------------
(* The steps of iput().                                                    *)

\* A reference goes, and the pointer with it.
LEMMA ReleaseStep ==
  ASSUME NEW p \in live, RefsInv, k[p].pc \in Dropping, Kernel, NoDisk,
         icache' \in [Inums -> Slot],
         \A j \in Inums : icache'[j].ref = icache[j].ref - Is(k[p].drop, j),
         Become(p, IF k[p].back = "user" THEN User
                   ELSE [k[p] EXCEPT !.pc = k[p].back, !.drop = Null])
  PROVE  RefsInv'
<1> DEFINE f == IF k[p].back = "user" THEN User
                ELSE [k[p] EXCEPT !.pc = k[p].back, !.drop = Null]
<1>1. k[p] \in Frame /\ FrameOK(k[p]) /\ disk' \in [Inums -> Inode]
  BY FrameOf DEF NoDisk
<1>2. f \in Frame /\ Place(f) = Place(k[p])
  <2>1. CASE k[p].back = "user"
    BY <2>1, UserFrame DEF Place
  <2>2. CASE k[p].back # "user"
    <3>1. /\ k[p].back \in Places /\ k[p].back \notin Dropping
          /\ Null \in Pointers
      BY <1>1 DEF Frame, Places, Dropping, Pointers
    <3> QED BY <1>1, <2>2, <3>1 DEF Frame, Place
  <2> QED BY <2>1, <2>2
<1>3. FrameOK(f)
  <2>1. CASE k[p].back = "user"
    BY <2>1, UserFrame
  <2>2. CASE k[p].back # "user"
    BY <1>1, <1>2, <2>2
       DEF Frame, FrameOK, Place, Dropping, Places
  <2> QED BY <2>1, <2>2
<1>4. \A j \in Inums : Points(f, j) = Points(k[p], j) - Is(k[p].drop, j)
  <2>1. CASE k[p].back = "user"
    BY <1>1, <2>1, UserFrame
       DEF FrameOK, Place, HasIp, HasDp, HasSrc, Points, Is, Inums, Null, User
  <2>2. CASE k[p].back # "user"
    BY <1>1, <2>2 DEF Frame, Points, Is, Inums, Null
  <2> QED BY <2>1, <2>2
<1>5. \A j \in Inums :
        icache'[j].ref = icache[j].ref + Points(f, j) - Points(k[p], j)
  <2>1. \A j \in Inums : icache[j].ref \in Int /\ Points(k[p], j) \in Int
                         /\ Is(k[p].drop, j) \in Int
    BY FrameOf DEF Slot, Is
  <2> QED BY <1>4, <2>1
<1> HIDE DEF f
<1> QED BY <1>1, <1>2, <1>3, <1>5, FrameStep DEF f, Kernel, Become

\* What a process drops is an inode, and a change of its slot that leaves
\* the count alone leaves all counts alone.
LEMMA DropRefs ==
  ASSUME NEW p \in live, RefsInv, k[p].pc \in Dropping
  PROVE  /\ k[p].drop \in Inums
         /\ \A s \in Slot : s.ref = icache[k[p].drop].ref =>
              SameRefs([icache EXCEPT ![k[p].drop] = s])
<1>1. k[p].drop \in Inums
  BY FrameOf DEF FrameOK, Frame, Pointers
<1> QED BY <1>1, FrameOf DEF SameRefs

\* From one step of iput() to the next.
LEMMA GotoFollows ==
  ASSUME NEW p \in live, NEW l \in Dropping, RefsInv, k[p].pc \in Dropping
  PROVE  Follows([k[p] EXCEPT !.pc = l], p, Null)
<1> DEFINE f == [k[p] EXCEPT !.pc = l]
<1>1. k[p] \in Frame /\ FrameOK(k[p])
  BY FrameOf
<1>2. f \in Frame /\ Place(f) = Place(k[p])
  BY <1>1 DEF Frame, Place
<1>3. /\ f.ip = k[p].ip /\ f.dp = k[p].dp /\ f.src = k[p].src
      /\ f.drop = k[p].drop /\ f.op = k[p].op /\ f.pc = l
  BY <1>1 DEF Frame
<1>4. FrameOK(f)
  BY <1>1, <1>2, <1>3 DEF FrameOK
<1>5. \A j \in Inums : Points(f, j) = Points(k[p], j) + Is(Null, j)
  BY <1>3, FrameOf DEF Points, Is, Inums, Null
<1> HIDE DEF f
<1> QED BY <1>2, <1>4, <1>5 DEF Follows, f

\* iput() gives a reference back.
LEMMA PutStep == ASSUME NEW p \in Procs, RefsInv, Put(p) PROVE RefsInv'
<1>1. /\ p \in live /\ k[p].pc \in Dropping /\ Release(p, k[p].drop)
      /\ Kernel /\ NoDisk
  BY DEF Put, At, Dropping
<1>2. PICK i : i = k[p].drop
  OBVIOUS
<1>3. i \in Inums /\ icache \in [Inums -> Slot]
  BY <1>1, <1>2, DropRefs, FrameOf
<1> DEFINE s == IF icache[i].ref = 1 THEN Uncached
                ELSE [icache[i] EXCEPT !.ref = icache[i].ref - 1]
<1>7. Release(p, i)
  BY <1>1, <1>2
<1>4. icache' = [icache EXCEPT ![i] = s]
  BY <1>7 DEF Release
<1>5. s \in Slot /\ s.ref = icache[i].ref - 1
  BY <1>3, UncachedSlot DEF Slot
<1>6. /\ icache' \in [Inums -> Slot]
      /\ \A j \in Inums : icache'[j].ref = icache[j].ref - Is(i, j)
  <2> HIDE DEF s
  <2>1. \A j \in Inums : icache[j].ref \in Int
    BY <1>3 DEF Slot
  <2> QED BY <1>3, <1>4, <1>5, <2>1 DEF Is
<1> QED BY <1>1, <1>2, <1>6, ReleaseStep DEF Release

\* iput() of an inode that it has freed.
LEMMA FreedStep == ASSUME NEW p \in Procs, RefsInv, Freed(p) PROVE RefsInv'
<1>1. p \in live /\ k[p].pc \in Dropping /\ Kernel /\ NoDisk
  BY DEF Freed, At, Dropping
<1>2. PICK i : i = k[p].drop
  OBVIOUS
<1>3. i \in Inums /\ icache \in [Inums -> Slot]
  BY <1>1, <1>2, DropRefs, FrameOf
<1> DEFINE s == IF icache[i].ref = 1 THEN Uncached
                ELSE [Uncached EXCEPT !.ref = icache[i].ref - 1]
<1>4. icache' = [icache EXCEPT ![i] = s]
  BY <1>2, <1>3 DEF Freed
<1>5. s \in Slot /\ s.ref = icache[i].ref - 1
  BY <1>3, UncachedSlot DEF Slot
<1>6. /\ icache' \in [Inums -> Slot]
      /\ \A j \in Inums : icache'[j].ref = icache[j].ref - Is(i, j)
  <2> HIDE DEF s
  <2>1. \A j \in Inums : icache[j].ref \in Int
    BY <1>3 DEF Slot
  <2> QED BY <1>3, <1>4, <1>5, <2>1 DEF Is
<1> QED BY <1>1, <1>2, <1>6, ReleaseStep DEF Freed

\* iput() locks the inode that it will free.
LEMMA PutUnusedStep ==
  ASSUME NEW p \in Procs, RefsInv, PutUnused(p) PROVE RefsInv'
<1>1. p \in live /\ k[p].pc \in Dropping /\ k[p].drop \in Inums
  BY DropRefs DEF PutUnused, At, Dropping
<1>2. CASE Unlocked(k[p].drop)
  <2>1. /\ icache' = [icache EXCEPT ![k[p].drop].busy = p]
        /\ Become(p, [k[p] EXCEPT !.pc = "trunc"]) /\ Kernel /\ NoDisk
    BY <1>2 DEF PutUnused
  <2>2. icache[k[p].drop] \in Slot
    BY <1>1, FrameOf
  <2>3. SameRefs(icache')
    BY <1>1, <2>1, <2>2, DropRefs DEF Slot
  <2>4. Follows([k[p] EXCEPT !.pc = "trunc"], p, Null)
    BY <1>1, GotoFollows DEF Dropping
  <2> QED BY <1>1, <2>1, <2>3, <2>4, FrameOf, MoveStep DEF NoDisk
<1>3. CASE ~Unlocked(k[p].drop)
  <2>1. Stop("iput busy") /\ NoDisk
    BY <1>3 DEF PutUnused, Panic, NoDisk
  <2> QED BY <1>1, <2>1, FrameOf, StopStep DEF NoDisk
<1> QED BY <1>2, <1>3

\* iput() truncates it.
LEMMA TruncStep == ASSUME NEW p \in Procs, RefsInv, Trunc(p) PROVE RefsInv'
<1>1. p \in live /\ k[p].pc \in Dropping /\ k[p].drop \in Inums
  BY DropRefs DEF Trunc, At, Dropping
<1>2. NoEntries \in [Entries -> Pointers]
  BY DEF NoEntries, Pointers
<1>3. disk' \in [Inums -> Inode] /\ SameRefs(icache')
  BY <1>1, <1>2, FrameOf DEF Trunc, Inode
<1>4. Follows([k[p] EXCEPT !.pc = "free"], p, Null)
  BY <1>1, GotoFollows DEF Dropping
<1> QED BY <1>1, <1>3, <1>4, MoveStep DEF Trunc

\* iput() frees it on the disk.
LEMMA FreeOnDiskStep ==
  ASSUME NEW p \in Procs, RefsInv, FreeOnDisk(p) PROVE RefsInv'
<1>1. p \in live /\ k[p].pc \in Dropping /\ k[p].drop \in Inums
  BY DropRefs DEF FreeOnDisk, At, Dropping
<1>2. disk' \in [Inums -> Inode]
  BY <1>1, FreeInodeType, FrameOf DEF FreeOnDisk
<1>3. SameRefs(icache')
  <2>1. icache[k[p].drop] \in Slot
    BY <1>1, FrameOf
  <2>2. /\ [icache[k[p].drop] EXCEPT !.type = "free"] \in Slot
        /\ [icache[k[p].drop] EXCEPT !.type = "free"].ref =
             icache[k[p].drop].ref
    BY <2>1 DEF Slot, Types
  <2> QED BY <1>1, <2>2, DropRefs DEF FreeOnDisk
<1>4. Follows([k[p] EXCEPT !.pc = "freed"], p, Null)
  BY <1>1, GotoFollows DEF Dropping
<1> QED BY <1>1, <1>2, <1>3, <1>4, MoveStep DEF FreeOnDisk

-----------------------------------------------------------------------------
(* The steps of a walk.                                                    *)

\* What the frame of a call that has failed is.
LEMMA FailFollows ==
  ASSUME NEW p \in live, RefsInv, k[p].pc = "walk"
  PROVE  k[p].ip \in Inums /\ Follows(Fail(k[p]), p, Null)
<1> DEFINE f == Fail(k[p])
<1>1. /\ k[p] \in Frame /\ FrameOK(k[p]) /\ Place(k[p]) = "walk"
      /\ \A j \in Inums : Points(k[p], j) \in Int
  BY FrameOf DEF Place, Dropping
<1>2. /\ k[p].ip # Null /\ k[p].dp = Null /\ k[p].drop = Null
      /\ k[p].src # Null <=> k[p].op = "link2"
  BY <1>1 DEF FrameOK, HasIp, HasDp, HasSrc, Dropping
<1>3. /\ f = [k[p] EXCEPT !.ip = Null, !.pc = "put", !.drop = k[p].ip,
                          !.back = Failed(k[p].op)]
      /\ Failed(k[p].op) \in Places
  BY <1>1 DEF Fail, Drop, Failed, Frame, Places
<1>4. /\ f \in Frame /\ f.pc = "put" /\ f.ip = Null /\ f.drop = k[p].ip
      /\ f.dp = Null /\ f.src = k[p].src /\ f.op = k[p].op
      /\ f.back = Failed(k[p].op)
  BY <1>1, <1>2, <1>3 DEF Frame, Pointers, Dropping
<1> HIDE DEF f
<1>5. Place(f) = Failed(k[p].op)
  BY <1>4 DEF Place, Dropping
<1>6. FrameOK(f)
  BY <1>2, <1>4, <1>5
     DEF FrameOK, Failed, HasIp, HasDp, HasSrc, OpAt, Dropping
<1>7. \A j \in Inums : Points(f, j) = Points(k[p], j) + Is(Null, j)
  BY <1>2, <1>4 DEF Points, Is, Inums, Null
<1>8. k[p].ip \in Inums
  BY <1>1, <1>2 DEF Frame, Pointers
<1> QED BY <1>1, <1>4, <1>5, <1>6, <1>7, <1>8 DEF Follows, f, Failed

\* What a directory has at a name.
LEMMA LookupType ==
  ASSUME NEW d \in Inums, NEW n \in Elements, TypeOK
  PROVE  dirlookup(d, n) \in Pointers
<1>1. disk[d].ents \in [Entries -> Pointers]
  BY DEF TypeOK, Inode
<1> QED BY <1>1 DEF dirlookup, Elements, Pointers

\* A walk that gets a lock has an element of its path to look for.
LEMMA WalkLocks ==
  ASSUME NEW p \in Procs, RefsInv, Locks(p, "walk")
  PROVE  /\ p \in live /\ k[p].pc = "walk" /\ Wants(k[p]) = k[p].ip
         /\ k[p].path # <<>> /\ k[p].path[1] \in Elements
         /\ Tail(k[p].path) \in Seq(Elements)
         /\ SameRefs(Locked(p)) /\ SameRefs(Visited(p))
<1>1. /\ p \in live /\ k[p] \in Frame /\ k[p].pc = "walk"
      /\ Wants(k[p]) \in Inums
      /\ SameRefs(Locked(p)) /\ SameRefs(Visited(p))
  BY LocksRefs DEF RefsInv
<1>2. k[p].path # <<>> /\ Wants(k[p]) = k[p].ip
  BY <1>1 DEF Wants, Inums, Null
<1>3. k[p].path \in Seq(Elements)
  BY <1>1 DEF Frame
<1> QED BY <1>1, <1>2, <1>3

\* The path is used up.
LEMMA WalkEndStep == ASSUME NEW p \in Procs, RefsInv, WalkEnd(p) PROVE RefsInv'
<1>1. /\ p \in live /\ k[p].pc = "walk" /\ Kernel /\ SameRefs(icache')
      /\ disk' \in [Inums -> Inode]
  BY FrameOf DEF WalkEnd, At, NoDisk, SameRefs
<1>2. CASE k[p].op \in ForParent
  <2>1. Become(p, Fail(k[p])) /\ Follows(Fail(k[p]), p, Null)
    BY <1>1, <1>2, FailFollows DEF WalkEnd
  <2> QED BY <1>1, <2>1, MoveStep
<1>3. CASE k[p].op \notin ForParent
  <2> DEFINE f == [k[p] EXCEPT !.pc = "go"]
  <2>1. /\ k[p] \in Frame /\ FrameOK(k[p]) /\ Place(k[p]) = "walk"
        /\ \A j \in Inums : Points(k[p], j) \in Int
    BY <1>1, FrameOf DEF Place, Dropping
  <2>2. /\ f \in Frame /\ f.pc = "go" /\ f.ip = k[p].ip /\ f.dp = k[p].dp
        /\ f.src = k[p].src /\ f.drop = k[p].drop /\ f.op = k[p].op
        /\ Place(f) = "go"
    BY <2>1 DEF Frame, Places, Place, Dropping
  <2>3. FrameOK(f)
    BY <1>1, <1>3, <2>1, <2>2
       DEF FrameOK, HasIp, HasDp, HasSrc, OpAt, Dropping
  <2>4. \A j \in Inums : Points(f, j) = Points(k[p], j) + Is(Null, j)
    BY <2>1, <2>2 DEF Points, Is, Inums, Null
  <2>5. Follows(f, p, Null)
    BY <2>1, <2>2, <2>3, <2>4 DEF Follows
  <2>6. Become(p, f)
    BY <1>3 DEF WalkEnd
  <2> QED BY <1>1, <2>5, <2>6, MoveStep
<1> QED BY <1>2, <1>3

\* No directory, or no such name: the inode is dropped.
LEMMA WalkFailsStep ==
  ASSUME NEW p \in Procs, RefsInv, WalkFails(p) PROVE RefsInv'
<1>1. /\ p \in live /\ k[p].pc = "walk" /\ SameRefs(Visited(p))
  BY WalkLocks DEF WalkFails
<1>2. /\ icache' = Visited(p) /\ Become(p, Fail(k[p])) /\ Kernel
      /\ disk' \in [Inums -> Inode]
  BY <1>1, FrameOf DEF WalkFails, NoDisk
<1> QED BY <1>1, <1>2, FailFollows, MoveStep

\* nameiparent() has found the directory.
LEMMA WalkStopsStep ==
  ASSUME NEW p \in Procs, RefsInv, WalkStops(p) PROVE RefsInv'
<1>1. /\ p \in live /\ k[p].pc = "walk" /\ SameRefs(Visited(p))
      /\ k[p].path[1] \in Elements /\ k[p].op \in ForParent
  BY WalkLocks DEF WalkStops, AtParent
<1> DEFINE f == [k[p] EXCEPT !.pc = "go", !.ip = Null, !.dp = k[p].ip,
                             !.name = k[p].path[1], !.path = <<>>]
<1>2. /\ icache' = Visited(p) /\ Become(p, f) /\ Kernel
      /\ disk' \in [Inums -> Inode]
  BY <1>1, FrameOf DEF WalkStops, NoDisk
<1>3. /\ k[p] \in Frame /\ FrameOK(k[p]) /\ Place(k[p]) = "walk"
      /\ \A j \in Inums : Points(k[p], j) \in Int
  BY <1>1, FrameOf DEF Place, Dropping
<1>4. /\ f \in Frame /\ f.pc = "go" /\ f.ip = Null /\ f.dp = k[p].ip
      /\ f.src = k[p].src /\ f.drop = k[p].drop /\ f.op = k[p].op
      /\ Place(f) = "go"
  <2>1. <<>> \in Seq(Elements) /\ "go" \in Places /\ Null \in Pointers
    BY DEF Places, Pointers
  <2> QED BY <1>1, <1>3, <2>1 DEF Frame, Place, Dropping
<1> HIDE DEF f
<1>5. FrameOK(f)
  BY <1>1, <1>3, <1>4 DEF FrameOK, HasIp, HasDp, HasSrc, OpAt, Dropping
<1>6. \A j \in Inums : Points(f, j) = Points(k[p], j) + Is(Null, j)
  BY <1>1, <1>3, <1>4
     DEF FrameOK, HasDp, Dropping, Points, Is, Inums, Null
<1>7. Follows(f, p, Null)
  BY <1>3, <1>4, <1>5, <1>6 DEF Follows
<1> QED BY <1>1, <1>2, <1>7, MoveStep

\* One element: the next inode is taken, then the directory dropped.
LEMMA WalkOnStep == ASSUME NEW p \in Procs, RefsInv, WalkOn(p) PROVE RefsInv'
<1> DEFINE next == dirlookup(k[p].ip, k[p].path[1])
           f == Drop([k[p] EXCEPT !.ip = next, !.name = k[p].path[1],
                                  !.path = Tail(@)], k[p].ip, "walk")
<1>1. /\ p \in live /\ k[p].pc = "walk" /\ SameRefs(Visited(p))
      /\ k[p].path[1] \in Elements /\ Tail(k[p].path) \in Seq(Elements)
  BY WalkLocks DEF WalkOn
<1>2. /\ next # Null /\ Get(p, Visited(p), next, f)
      /\ disk' \in [Inums -> Inode]
  BY <1>1, FrameOf DEF WalkOn, NoDisk
<1>3. /\ k[p] \in Frame /\ FrameOK(k[p]) /\ Place(k[p]) = "walk"
      /\ \A j \in Inums : Points(k[p], j) \in Int
  BY <1>1, FrameOf DEF Place, Dropping
<1>4. k[p].ip \in Inums
  BY <1>1, FailFollows
<1>5. next \in Inums
  BY <1>1, <1>2, <1>4, LookupType, FrameOf DEF Pointers
<1> HIDE DEF next
<1>6. /\ f \in Frame /\ f.pc = "put" /\ f.ip = next /\ f.dp = k[p].dp
      /\ f.src = k[p].src /\ f.drop = k[p].ip /\ f.op = k[p].op
      /\ f.back = "walk" /\ Place(f) = "walk"
  BY <1>1, <1>3, <1>4, <1>5
     DEF Frame, Places, Place, Dropping, Pointers, Drop
<1> HIDE DEF f
<1>7. FrameOK(f)
  BY <1>1, <1>2, <1>3, <1>4, <1>6
     DEF FrameOK, HasIp, HasDp, HasSrc, OpAt, Dropping, Inums, Null
<1>8. \A j \in Inums : Points(f, j) = Points(k[p], j) + Is(next, j)
  BY <1>1, <1>3, <1>6 DEF FrameOK, Dropping, Points, Is, Inums, Null
<1>9. Follows(f, p, next)
  BY <1>3, <1>6, <1>7, <1>8 DEF Follows
<1> QED BY <1>1, <1>2, <1>5, <1>9, GetStep DEF f

-----------------------------------------------------------------------------
(* The frames that calls go on with.                                       *)

\* A call at label m may go on at label l, if it has this pointer then.
Passes(op, m, l, ip, dp) ==
  /\ m \in Places \ {"cd", "dead"} /\ l \in Places \ {"cd", "dead"}
  /\ HasIp(l, op) <=> ip
  /\ HasDp(l, op) <=> dp
  /\ HasSrc(l, op) <=> HasSrc(m, op)
  /\ OpAt(l, op)

\* It goes on, and no pointer moves.
LEMMA GoFollows ==
  ASSUME NEW p \in live, NEW l, RefsInv,
         Passes(k[p].op, k[p].pc, l, HasIp(k[p].pc, k[p].op),
                                     HasDp(k[p].pc, k[p].op))
  PROVE  Follows([k[p] EXCEPT !.pc = l], p, Null)
<1> DEFINE f == [k[p] EXCEPT !.pc = l]
<1>1. /\ k[p].pc \in Places \ {"cd", "dead"} /\ l \in Places \ {"cd", "dead"}
      /\ k[p].pc \notin Dropping /\ l \notin Dropping
  BY DEF Passes, Places, Dropping
<1>2. /\ k[p] \in Frame /\ FrameOK(k[p]) /\ Place(k[p]) = k[p].pc
      /\ \A j \in Inums : Points(k[p], j) \in Int
  BY <1>1, FrameOf DEF Place
<1>3. /\ f \in Frame /\ f.pc = l /\ f.ip = k[p].ip /\ f.dp = k[p].dp
      /\ f.src = k[p].src /\ f.drop = k[p].drop /\ f.op = k[p].op
      /\ Place(f) = l
  BY <1>1, <1>2 DEF Frame, Place
<1> HIDE DEF f
<1>4. FrameOK(f)
  BY <1>1, <1>2, <1>3 DEF FrameOK, Passes
<1>5. \A j \in Inums : Points(f, j) = Points(k[p], j) + Is(Null, j)
  BY <1>2, <1>3 DEF Points, Is, Inums, Null
<1>6. {Place(f), Place(k[p])} \cap {"cd", "dead"} = {}
  BY <1>1, <1>2, <1>3
<1> QED BY <1>2, <1>3, <1>4, <1>5, <1>6 DEF Follows, f

\* It drops the inode it works on.
LEMMA DropIpFollows ==
  ASSUME NEW p \in live, NEW l, RefsInv, HasIp(k[p].pc, k[p].op),
         Passes(k[p].op, k[p].pc, l, FALSE, HasDp(k[p].pc, k[p].op))
  PROVE  /\ k[p].ip \in Inums
         /\ Follows(Drop([k[p] EXCEPT !.ip = Null], k[p].ip, l), p, Null)
<1> DEFINE f == Drop([k[p] EXCEPT !.ip = Null], k[p].ip, l)
<1>1. /\ k[p].pc \in Places \ {"cd", "dead"} /\ l \in Places \ {"cd", "dead"}
      /\ k[p].pc \notin Dropping /\ l \notin Dropping
  BY DEF Passes, Places, Dropping
<1>2. /\ k[p] \in Frame /\ FrameOK(k[p]) /\ Place(k[p]) = k[p].pc
      /\ \A j \in Inums : Points(k[p], j) \in Int
  BY <1>1, FrameOf DEF Place
<1>3. k[p].drop = Null /\ k[p].ip \in Inums
  BY <1>1, <1>2 DEF FrameOK, Frame, Pointers
<1>4. /\ f \in Frame /\ f.pc = "put" /\ f.ip = Null /\ f.dp = k[p].dp
      /\ f.src = k[p].src /\ f.drop = k[p].ip /\ f.op = k[p].op
      /\ Place(f) = l
  BY <1>1, <1>2 DEF Frame, Place, Dropping, Pointers, Drop
<1> HIDE DEF f
<1>5. FrameOK(f)
  BY <1>1, <1>2, <1>3, <1>4 DEF FrameOK, Passes, Dropping, Inums, Null
<1>6. \A j \in Inums : Points(f, j) = Points(k[p], j) + Is(Null, j)
  BY <1>2, <1>3, <1>4 DEF Points, Is, Inums, Null
<1>7. {Place(f), Place(k[p])} \cap {"cd", "dead"} = {}
  BY <1>1, <1>2, <1>4
<1> QED BY <1>2, <1>3, <1>4, <1>5, <1>6, <1>7 DEF Follows, f

\* It drops the directory it is in.
LEMMA DropDpFollows ==
  ASSUME NEW p \in live, NEW l, RefsInv, HasDp(k[p].pc, k[p].op),
         Passes(k[p].op, k[p].pc, l, HasIp(k[p].pc, k[p].op), FALSE)
  PROVE  /\ k[p].dp \in Inums
         /\ Follows(Drop([k[p] EXCEPT !.dp = Null], k[p].dp, l), p, Null)
<1> DEFINE f == Drop([k[p] EXCEPT !.dp = Null], k[p].dp, l)
<1>1. /\ k[p].pc \in Places \ {"cd", "dead"} /\ l \in Places \ {"cd", "dead"}
      /\ k[p].pc \notin Dropping /\ l \notin Dropping
  BY DEF Passes, Places, Dropping
<1>2. /\ k[p] \in Frame /\ FrameOK(k[p]) /\ Place(k[p]) = k[p].pc
      /\ \A j \in Inums : Points(k[p], j) \in Int
  BY <1>1, FrameOf DEF Place
<1>3. k[p].drop = Null /\ k[p].dp \in Inums
  BY <1>1, <1>2 DEF FrameOK, Frame, Pointers
<1>4. /\ f \in Frame /\ f.pc = "put" /\ f.dp = Null /\ f.ip = k[p].ip
      /\ f.src = k[p].src /\ f.drop = k[p].dp /\ f.op = k[p].op
      /\ Place(f) = l
  BY <1>1, <1>2 DEF Frame, Place, Dropping, Pointers, Drop
<1> HIDE DEF f
<1>5. FrameOK(f)
  BY <1>1, <1>2, <1>3, <1>4 DEF FrameOK, Passes, Dropping, Inums, Null
<1>6. \A j \in Inums : Points(f, j) = Points(k[p], j) + Is(Null, j)
  BY <1>2, <1>3, <1>4 DEF Points, Is, Inums, Null
<1>7. {Place(f), Place(k[p])} \cap {"cd", "dead"} = {}
  BY <1>1, <1>2, <1>4
<1> QED BY <1>2, <1>3, <1>4, <1>5, <1>6, <1>7 DEF Follows, f

\* It has found or made the inode i in the directory it is in.
LEMMA TakeIpFollows ==
  ASSUME NEW p \in live, NEW l, NEW i \in Inums, RefsInv,
         ~HasIp(k[p].pc, k[p].op),
         Passes(k[p].op, k[p].pc, l, TRUE, HasDp(k[p].pc, k[p].op))
  PROVE  Follows([k[p] EXCEPT !.pc = l, !.ip = i], p, i)
<1> DEFINE f == [k[p] EXCEPT !.pc = l, !.ip = i]
<1>1. /\ k[p].pc \in Places \ {"cd", "dead"} /\ l \in Places \ {"cd", "dead"}
      /\ k[p].pc \notin Dropping /\ l \notin Dropping
  BY DEF Passes, Places, Dropping
<1>2. /\ k[p] \in Frame /\ FrameOK(k[p]) /\ Place(k[p]) = k[p].pc
      /\ \A j \in Inums : Points(k[p], j) \in Int
  BY <1>1, FrameOf DEF Place
<1>3. k[p].ip = Null
  BY <1>2 DEF FrameOK
<1>4. /\ f \in Frame /\ f.pc = l /\ f.dp = k[p].dp /\ f.ip = i
      /\ f.src = k[p].src /\ f.drop = k[p].drop /\ f.op = k[p].op
      /\ Place(f) = l
  BY <1>1, <1>2 DEF Frame, Place, Pointers
<1> HIDE DEF f
<1>5. FrameOK(f)
  BY <1>1, <1>2, <1>3, <1>4 DEF FrameOK, Passes, Inums, Null
<1>6. \A j \in Inums : Points(f, j) = Points(k[p], j) + Is(i, j)
  BY <1>2, <1>3, <1>4 DEF Points, Is, Inums, Null
<1>7. {Place(f), Place(k[p])} \cap {"cd", "dead"} = {}
  BY <1>1, <1>2, <1>4
<1> QED BY <1>2, <1>4, <1>5, <1>6, <1>7 DEF Follows, f

\* An inode is unlocked and dropped.
LEMMA PutLockedStep ==
  ASSUME NEW p \in live, NEW cache, NEW g, NEW i \in Inums, NEW l, RefsInv,
         SameRefs(cache), PutLocked(p, cache, g, i, l),
         disk' \in [Inums -> Inode], Follows(Drop(g, i, l), p, Null)
  PROVE  RefsInv'
<1>1. icache' = iunlock(cache, i) /\ Become(p, Drop(g, i, l)) /\ Kernel
  BY DEF PutLocked
<1>2. SameRefs(icache')
  BY <1>1, IunlockRefs
<1> QED BY <1>1, <1>2, MoveStep

\* What the disk is after iupdate(), and after an entry is written.
LEMMA DiskType ==
  ASSUME NEW i \in Inums, TypeOK
  PROVE  /\ \A n \in Int : [disk EXCEPT ![i].nlink = n] \in [Inums -> Inode]
         /\ \A n : \A j \in Pointers :
              [disk EXCEPT ![i].ents[n] = j] \in [Inums -> Inode]
BY DEF TypeOK, Inode

\* A call whose path has led somewhere, and that gets the lock.
LEMMA GoLocks ==
  ASSUME NEW p \in Procs, RefsInv, Locks(p, "go")
  PROVE  /\ p \in live /\ k[p].pc = "go" /\ Wants(k[p]) \in Inums
         /\ Wants(k[p]) = IF k[p].op \in ForParent THEN k[p].dp ELSE k[p].ip
         /\ SameRefs(Locked(p)) /\ SameRefs(Visited(p))
<1>1. /\ p \in live /\ k[p] \in Frame /\ k[p].pc = "go"
      /\ Wants(k[p]) \in Inums
      /\ SameRefs(Locked(p)) /\ SameRefs(Visited(p))
  BY LocksRefs DEF RefsInv
<1>2. Wants(k[p]) = IF k[p].op \in ForParent THEN k[p].dp ELSE k[p].ip
  BY <1>1 DEF Wants
<1> QED BY <1>1, <1>2

-----------------------------------------------------------------------------
(* The steps of open() and create().                                       *)

\* open() locks what it has found, or fails.
LEMMA OpenLockStep ==
  ASSUME NEW p \in Procs, RefsInv, OpenLock(p) PROVE RefsInv'
<1>1. /\ p \in live /\ k[p].pc = "go" /\ SameRefs(Locked(p))
      /\ k[p].op \in {"open", "openw"}
      /\ disk' \in [Inums -> Inode]
  BY GoLocks, FrameOf DEF OpenLock, NoDisk
<1>2. CASE Locked(p)[k[p].ip].type = "dir" /\ k[p].op = "openw"
  <2>1. PutLocked(p, Locked(p), [k[p] EXCEPT !.ip = Null], k[p].ip, "user")
    BY <1>2 DEF OpenLock
  <2>2. /\ HasIp(k[p].pc, k[p].op)
        /\ Passes(k[p].op, k[p].pc, "user", FALSE, HasDp(k[p].pc, k[p].op))
    BY <1>1 DEF Passes, HasIp, HasDp, HasSrc, OpAt, Places, ForParent, Making
  <2> QED BY <1>1, <2>1, <2>2, DropIpFollows, PutLockedStep
<1>3. CASE ~(Locked(p)[k[p].ip].type = "dir" /\ k[p].op = "openw")
  <2>1. icache' = Locked(p) /\ Become(p, [k[p] EXCEPT !.pc = "opened"])
        /\ Kernel
    BY <1>3 DEF OpenLock
  <2>2. Passes(k[p].op, k[p].pc, "opened", HasIp(k[p].pc, k[p].op),
                                           HasDp(k[p].pc, k[p].op))
    BY <1>1 DEF Passes, HasIp, HasDp, HasSrc, OpAt, Places, ForParent, Making
  <2> QED BY <1>1, <2>1, <2>2, GoFollows, MoveStep
<1> QED BY <1>2, <1>3

\* open() finds no file or no descriptor.
LEMMA OpenFailsStep ==
  ASSUME NEW p \in Procs, RefsInv, OpenFails(p) PROVE RefsInv'
<1>1. /\ p \in live /\ k[p].pc = "opened" /\ SameRefs(icache)
      /\ disk' \in [Inums -> Inode] /\ FrameOK(k[p])
      /\ PutLocked(p, icache, [k[p] EXCEPT !.ip = Null], k[p].ip, "user")
  BY FrameOf DEF OpenFails, NoDisk, At
<1>2. /\ HasIp(k[p].pc, k[p].op)
      /\ Passes(k[p].op, k[p].pc, "user", FALSE, HasDp(k[p].pc, k[p].op))
  BY <1>1 DEF Passes, HasIp, HasDp, HasSrc, OpAt, Places
<1> QED BY <1>1, <1>2, DropIpFollows, PutLockedStep

\* create() finds the name.
LEMMA CreateFindsStep ==
  ASSUME NEW p \in Procs, RefsInv, CreateFinds(p) PROVE RefsInv'
<1> DEFINE next == dirlookup(k[p].dp, k[p].name)
           f == Drop([k[p] EXCEPT !.ip = next, !.dp = Null], k[p].dp, "found")
<1>1. /\ p \in live /\ k[p].pc = "go" /\ SameRefs(Visited(p))
      /\ k[p].op \in Making /\ k[p].dp \in Inums
  BY GoLocks DEF CreateFinds, ForParent
<1>2. /\ next # Null /\ Get(p, Visited(p), next, f)
      /\ disk' \in [Inums -> Inode]
  BY <1>1, FrameOf DEF CreateFinds, NoDisk
<1>3. /\ k[p] \in Frame /\ FrameOK(k[p]) /\ Place(k[p]) = "go"
      /\ \A j \in Inums : Points(k[p], j) \in Int
  BY <1>1, FrameOf DEF Place, Dropping
<1>4. next \in Inums
  <2>1. k[p].name \in Elements
    BY <1>3 DEF Frame
  <2> QED BY <1>1, <1>2, <2>1, LookupType, FrameOf DEF Pointers
<1> HIDE DEF next
<1>5. k[p].ip = Null /\ k[p].drop = Null /\ k[p].src = Null
  BY <1>1, <1>3 DEF FrameOK, HasIp, HasSrc, Dropping, ForParent, Making
<1>6. /\ f \in Frame /\ f.pc = "put" /\ f.ip = next /\ f.dp = Null
      /\ f.src = Null /\ f.drop = k[p].dp /\ f.op = k[p].op
      /\ Place(f) = "found"
  BY <1>1, <1>3, <1>4, <1>5
     DEF Frame, Places, Place, Dropping, Pointers, Drop
<1> HIDE DEF f
<1>7. FrameOK(f)
  BY <1>1, <1>4, <1>6
     DEF FrameOK, HasIp, HasDp, HasSrc, OpAt, Dropping, Making, Inums, Null
<1>8. \A j \in Inums : Points(f, j) = Points(k[p], j) + Is(next, j)
  BY <1>5, <1>6 DEF Points, Is, Inums, Null
<1>9. Follows(f, p, next)
  BY <1>3, <1>6, <1>7, <1>8 DEF Follows
<1> QED BY <1>1, <1>2, <1>4, <1>9, GetStep DEF f

\* What it finds will do, or is dropped.
LEMMA CreateFoundStep ==
  ASSUME NEW p \in Procs, RefsInv, CreateFound(p) PROVE RefsInv'
<1>1. /\ p \in live /\ k[p].pc = "found" /\ SameRefs(Locked(p))
      /\ disk' \in [Inums -> Inode] /\ FrameOK(k[p])
  BY LocksRefs, FrameOf DEF CreateFound, NoDisk, RefsInv
<1>2. CASE k[p].op = "create" /\ Locked(p)[k[p].ip].type = "file"
  <2>1. icache' = Locked(p) /\ Become(p, [k[p] EXCEPT !.pc = "opened"])
        /\ Kernel
    BY <1>2 DEF CreateFound
  <2>2. Passes(k[p].op, k[p].pc, "opened", HasIp(k[p].pc, k[p].op),
                                           HasDp(k[p].pc, k[p].op))
    BY <1>1, <1>2 DEF Passes, HasIp, HasDp, HasSrc, OpAt, Places
  <2> QED BY <1>1, <2>1, <2>2, GoFollows, MoveStep
<1>3. CASE ~(k[p].op = "create" /\ Locked(p)[k[p].ip].type = "file")
  <2>1. PutLocked(p, Locked(p), [k[p] EXCEPT !.ip = Null], k[p].ip, "user")
    BY <1>3 DEF CreateFound
  <2>2. /\ HasIp(k[p].pc, k[p].op)
        /\ Passes(k[p].op, k[p].pc, "user", FALSE, HasDp(k[p].pc, k[p].op))
    BY <1>1 DEF Passes, HasIp, HasDp, HasSrc, OpAt, Places
  <2> QED BY <1>1, <2>1, <2>2, DropIpFollows, PutLockedStep
<1> QED BY <1>2, <1>3

\* create() gets a new inode, or the kernel stops.
LEMMA CreateAllocStep ==
  ASSUME NEW p \in Procs, RefsInv, CreateAlloc(p) PROVE RefsInv'
<1>1. /\ p \in live /\ k[p].pc = "go" /\ SameRefs(Locked(p))
      /\ k[p].op \in Making /\ TypeOK /\ disk \in [Inums -> Inode]
  BY GoLocks, FrameOf DEF CreateAlloc
<1>2. CASE Panic("ialloc: no inodes")
  BY <1>1, <1>2, StopStep DEF Panic
<1>3. ASSUME NEW i \in FreeInums,
             Get(p, Locked(p), i, [k[p] EXCEPT !.pc = "init", !.ip = i]),
             disk' = [disk EXCEPT ![i] =
                        [FreeInode EXCEPT !.type = TypeMade(k[p].op)]]
      PROVE  RefsInv'
  <2>1. i \in Inums
    BY DEF FreeInums
  <2>2. [FreeInode EXCEPT !.type = TypeMade(k[p].op)] \in Inode
    BY <1>1, FreeInodeType DEF Inode, TypeMade, Types, Making
  <2>3. disk' \in [Inums -> Inode]
    BY <1>1, <1>3, <2>1, <2>2
  <2>4. /\ ~HasIp(k[p].pc, k[p].op)
        /\ Passes(k[p].op, k[p].pc, "init", TRUE, HasDp(k[p].pc, k[p].op))
    BY <1>1 DEF Passes, HasIp, HasDp, HasSrc, OpAt, Places, ForParent, Making
  <2>5. Follows([k[p] EXCEPT !.pc = "init", !.ip = i], p, i)
    BY <1>1, <2>1, <2>4, TakeIpFollows
  <2> QED BY <1>1, <1>3, <2>1, <2>3, <2>5, GetStep
<1> QED BY <1>2, <1>3 DEF CreateAlloc

\* A change of a link count is none of a count of references.
LEMMA RelinkStep ==
  ASSUME NEW p \in live, NEW f, NEW cache, NEW i \in Inums, NEW n \in Int,
         RefsInv, SameRefs(cache), Relink(cache, i, n), Become(p, f), Kernel,
         Follows(f, p, Null)
  PROVE  RefsInv'
<1>1. SameRefs(icache')
  BY RelinkRefs DEF Relink
<1>2. disk' \in [Inums -> Inode]
  BY DiskType, FrameOf DEF Relink
<1> QED BY <1>1, <1>2, MoveStep

\* create() writes the new inode.
LEMMA CreateInitStep ==
  ASSUME NEW p \in Procs, RefsInv, CreateInit(p) PROVE RefsInv'
<1>1. /\ p \in live /\ k[p].pc = "init" /\ SameRefs(Locked(p))
      /\ FrameOK(k[p]) /\ k[p] \in Frame
  BY LocksRefs, FrameOf DEF CreateInit, RefsInv
<1> DEFINE l == IF k[p].op = "mkdir" THEN "dots" ELSE "enter"
<1>2. /\ Relink(Locked(p), k[p].ip, 1) /\ Kernel
      /\ Become(p, [k[p] EXCEPT !.pc = l])
  BY DEF CreateInit
<1>3. k[p].ip \in Inums
  BY <1>1 DEF FrameOK, Frame, Pointers, HasIp, Place, Dropping
<1>4. Passes(k[p].op, k[p].pc, l, HasIp(k[p].pc, k[p].op),
                                  HasDp(k[p].pc, k[p].op))
  BY <1>1 DEF FrameOK, Place, Dropping, Passes, HasIp, HasDp, HasSrc, OpAt,
              Places, Making
<1> HIDE DEF l
<1> QED BY <1>1, <1>2, <1>3, <1>4, GoFollows, RelinkStep

\* mkdir() counts the entry ..
LEMMA CreateCountStep ==
  ASSUME NEW p \in Procs, RefsInv, CreateCount(p) PROVE RefsInv'
<1>1. /\ p \in live /\ k[p].pc = "dots" /\ SameRefs(icache)
      /\ FrameOK(k[p]) /\ k[p] \in Frame /\ icache \in [Inums -> Slot]
  BY FrameOf DEF CreateCount, At
<1>2. /\ Relink(icache, k[p].dp, icache[k[p].dp].nlink + 1) /\ Kernel
      /\ Become(p, [k[p] EXCEPT !.pc = "dots2"])
  BY DEF CreateCount
<1>3. k[p].dp \in Inums
  BY <1>1 DEF FrameOK, Frame, Pointers, HasDp, Place, Dropping
<1>4. icache[k[p].dp].nlink + 1 \in Int
  BY <1>1, <1>3 DEF Slot
<1>5. Passes(k[p].op, k[p].pc, "dots2", HasIp(k[p].pc, k[p].op),
                                        HasDp(k[p].pc, k[p].op))
  BY <1>1 DEF FrameOK, Place, Dropping, Passes, HasIp, HasDp, HasSrc, OpAt,
              Places, Making
<1> QED BY <1>1, <1>2, <1>3, <1>4, <1>5, GoFollows, RelinkStep

\* mkdir() writes it.
LEMMA CreateDotsStep ==
  ASSUME NEW p \in Procs, RefsInv, CreateDots(p) PROVE RefsInv'
<1>1. /\ p \in live /\ k[p].pc = "dots2" /\ SameRefs(icache')
      /\ FrameOK(k[p]) /\ k[p] \in Frame
  BY FrameOf DEF CreateDots, At, SameRefs
<1>2. k[p].ip \in Inums /\ k[p].dp \in Pointers
  BY <1>1 DEF FrameOK, Frame, Pointers, HasIp, Place, Dropping
<1>3. disk' \in [Inums -> Inode]
  BY <1>1, <1>2, DiskType, FrameOf DEF CreateDots
<1>4. Passes(k[p].op, k[p].pc, "enter", HasIp(k[p].pc, k[p].op),
                                        HasDp(k[p].pc, k[p].op))
  BY <1>1 DEF FrameOK, Place, Dropping, Passes, HasIp, HasDp, HasSrc, OpAt,
              Places, Making
<1> QED BY <1>1, <1>3, <1>4, GoFollows, MoveStep DEF CreateDots

\* create() enters the inode, and drops the directory.
LEMMA CreateEnterStep ==
  ASSUME NEW p \in Procs, RefsInv, CreateEnter(p) PROVE RefsInv'
<1>1. /\ p \in live /\ k[p].pc = "enter" /\ SameRefs(icache)
      /\ FrameOK(k[p]) /\ k[p] \in Frame
  BY FrameOf DEF CreateEnter, At
<1> DEFINE l == IF k[p].op = "create" THEN "opened" ELSE "made"
<1>2. /\ disk' = [disk EXCEPT ![k[p].dp].ents[k[p].name] = k[p].ip]
      /\ PutLocked(p, icache, [k[p] EXCEPT !.dp = Null], k[p].dp, l)
  BY DEF CreateEnter
<1>3. k[p].dp \in Inums /\ k[p].ip \in Pointers
  BY <1>1 DEF FrameOK, Frame, Pointers, HasDp, Place, Dropping
<1>4. disk' \in [Inums -> Inode]
  BY <1>1, <1>2, <1>3, DiskType, FrameOf
<1>5. /\ HasDp(k[p].pc, k[p].op)
      /\ Passes(k[p].op, k[p].pc, l, HasIp(k[p].pc, k[p].op), FALSE)
  BY <1>1 DEF FrameOK, Place, Dropping, Passes, HasIp, HasDp, HasSrc, OpAt,
              Places, Making
<1> HIDE DEF l
<1> QED BY <1>1, <1>2, <1>4, <1>5, DropDpFollows, PutLockedStep

\* mkdir() and mknod() drop what they have made.
LEMMA MadeStep == ASSUME NEW p \in Procs, RefsInv, Made(p) PROVE RefsInv'
<1>1. /\ p \in live /\ k[p].pc = "made" /\ SameRefs(icache)
      /\ disk' \in [Inums -> Inode] /\ FrameOK(k[p])
      /\ PutLocked(p, icache, [k[p] EXCEPT !.ip = Null], k[p].ip, "user")
  BY FrameOf DEF Made, NoDisk, At
<1>2. /\ HasIp(k[p].pc, k[p].op)
      /\ Passes(k[p].op, k[p].pc, "user", FALSE, HasDp(k[p].pc, k[p].op))
  BY <1>1 DEF Passes, HasIp, HasDp, HasSrc, OpAt, Places
<1> QED BY <1>1, <1>2, DropIpFollows, PutLockedStep

-----------------------------------------------------------------------------
(* The steps of unlink() and link().                                       *)

\* unlink() does not find the name.
LEMMA UnlinkFailsStep ==
  ASSUME NEW p \in Procs, RefsInv, UnlinkFails(p) PROVE RefsInv'
<1>1. /\ p \in live /\ k[p].pc = "go" /\ SameRefs(Locked(p))
      /\ k[p].op = "unlink" /\ disk' \in [Inums -> Inode]
      /\ PutLocked(p, Locked(p), [k[p] EXCEPT !.dp = Null], k[p].dp, "user")
  BY GoLocks, FrameOf DEF UnlinkFails, NoDisk
<1>2. /\ HasDp(k[p].pc, k[p].op)
      /\ Passes(k[p].op, k[p].pc, "user", HasIp(k[p].pc, k[p].op), FALSE)
  BY <1>1 DEF Passes, HasIp, HasDp, HasSrc, OpAt, Places, ForParent, Making
<1> QED BY <1>1, <1>2, DropDpFollows, PutLockedStep

\* unlink() finds it.
LEMMA UnlinkFindsStep ==
  ASSUME NEW p \in Procs, RefsInv, UnlinkFinds(p) PROVE RefsInv'
<1> DEFINE i == dirlookup(k[p].dp, k[p].name)
<1>1. /\ p \in live /\ k[p].pc = "go" /\ SameRefs(Locked(p))
      /\ k[p].op = "unlink" /\ disk' \in [Inums -> Inode]
      /\ k[p].dp \in Inums /\ i # Null
      /\ Get(p, Locked(p), i, [k[p] EXCEPT !.pc = "unlink", !.ip = i])
  BY GoLocks, FrameOf DEF UnlinkFinds, NoDisk, ForParent
<1>2. i \in Inums
  <2>1. k[p].name \in Elements
    BY <1>1, FrameOf DEF Frame
  <2> QED BY <1>1, <2>1, LookupType, FrameOf DEF Pointers
<1> HIDE DEF i
<1>3. /\ ~HasIp(k[p].pc, k[p].op)
      /\ Passes(k[p].op, k[p].pc, "unlink", TRUE, HasDp(k[p].pc, k[p].op))
  BY <1>1 DEF Passes, HasIp, HasDp, HasSrc, OpAt, Places, ForParent, Making
<1>4. Follows([k[p] EXCEPT !.pc = "unlink", !.ip = i], p, i)
  BY <1>1, <1>2, <1>3, TakeIpFollows
<1> QED BY <1>1, <1>2, <1>4, GetStep

\* unlink() erases the entry, or gives up.
LEMMA UnlinkEraseStep ==
  ASSUME NEW p \in Procs, RefsInv, UnlinkErase(p) PROVE RefsInv'
<1>1. /\ p \in live /\ k[p].pc = "unlink" /\ SameRefs(Locked(p))
      /\ FrameOK(k[p]) /\ k[p] \in Frame /\ disk \in [Inums -> Inode]
  BY LocksRefs, FrameOf DEF UnlinkErase, RefsInv
<1>2. k[p].ip \in Inums /\ k[p].dp \in Inums /\ k[p].op = "unlink"
  BY <1>1 DEF FrameOK, Frame, Pointers, HasIp, HasDp, OpAt, Place, Dropping
<1>3. CASE Panic("unlink: nlink < 1")
  BY <1>1, <1>3, StopStep DEF Panic
<1>4. CASE /\ PutLocked(p, Locked(p), [k[p] EXCEPT !.ip = Null], k[p].ip,
                        "kept")
           /\ NoDisk
  <2>1. /\ HasIp(k[p].pc, k[p].op)
        /\ Passes(k[p].op, k[p].pc, "kept", FALSE, HasDp(k[p].pc, k[p].op))
    BY <1>1, <1>2 DEF Passes, HasIp, HasDp, HasSrc, OpAt, Places
  <2>2. Follows(Drop([k[p] EXCEPT !.ip = Null], k[p].ip, "kept"), p, Null)
    BY <1>1, <2>1, DropIpFollows
  <2> QED BY <1>1, <1>2, <1>4, <2>2, PutLockedStep DEF NoDisk
<1>5. CASE /\ disk' = [disk EXCEPT ![k[p].dp].ents[k[p].name] = Null]
           /\ icache' = Locked(p)
           /\ Become(p, [k[p] EXCEPT !.pc = "erased"]) /\ Kernel
  <2>1. disk' \in [Inums -> Inode]
    BY <1>2, <1>5, DiskType, FrameOf, <1>1 DEF Pointers
  <2>2. Passes(k[p].op, k[p].pc, "erased", HasIp(k[p].pc, k[p].op),
                                           HasDp(k[p].pc, k[p].op))
    BY <1>1, <1>2 DEF Passes, HasIp, HasDp, HasSrc, OpAt, Places
  <2> QED BY <1>1, <1>5, <2>1, <2>2, GoFollows, MoveStep
<1>6. LET ip == Locked(p)[k[p].ip] IN
      \/ ip.nlink < 1
      \/ ip.nlink >= 1 /\ ip.type = "dir" /\ ~isdirempty(k[p].ip)
      \/ ip.nlink >= 1 /\ (ip.type = "dir" => isdirempty(k[p].ip))
  <2>1. Locked(p)[k[p].ip].nlink \in Int
    BY <1>1, <1>2 DEF SameRefs, Slot
  <2> QED BY <2>1
<1> QED BY <1>3, <1>4, <1>5, <1>6 DEF UnlinkErase

\* unlink() that gives up drops the directory,
LEMMA UnlinkGivesUpStep ==
  ASSUME NEW p \in Procs, RefsInv, UnlinkGivesUp(p) PROVE RefsInv'
<1>1. /\ p \in live /\ k[p].pc = "kept" /\ SameRefs(icache)
      /\ disk' \in [Inums -> Inode] /\ FrameOK(k[p])
      /\ PutLocked(p, icache, [k[p] EXCEPT !.dp = Null], k[p].dp, "user")
  BY FrameOf DEF UnlinkGivesUp, NoDisk, At
<1>2. /\ HasDp(k[p].pc, k[p].op)
      /\ Passes(k[p].op, k[p].pc, "user", HasIp(k[p].pc, k[p].op), FALSE)
  BY <1>1 DEF FrameOK, Place, Dropping, Passes, HasIp, HasDp, HasSrc, OpAt,
              Places
<1> QED BY <1>1, <1>2, DropDpFollows, PutLockedStep

\* and so does unlink() that has erased the entry.
LEMMA UnlinkCountStep ==
  ASSUME NEW p \in Procs, RefsInv, UnlinkCount(p) PROVE RefsInv'
<1>1. /\ p \in live /\ k[p].pc = "erased" /\ SameRefs(icache)
      /\ FrameOK(k[p]) /\ k[p] \in Frame /\ icache \in [Inums -> Slot]
  BY FrameOf DEF UnlinkCount, At
<1> DEFINE n == icache[k[p].dp].nlink
                - (IF icache[k[p].ip].type = "dir" THEN 1 ELSE 0)
<1>2. /\ disk' = [disk EXCEPT ![k[p].dp].nlink = n]
      /\ PutLocked(p, [icache EXCEPT ![k[p].dp].nlink = n],
                   [k[p] EXCEPT !.dp = Null], k[p].dp, "unlinked")
  BY DEF UnlinkCount
<1>3. k[p].dp \in Inums
  BY <1>1 DEF FrameOK, Frame, Pointers, HasDp, Place, Dropping
<1>4. n \in Int
  BY <1>1, <1>3 DEF Slot
<1> HIDE DEF n
<1>5. /\ disk' \in [Inums -> Inode]
      /\ SameRefs([icache EXCEPT ![k[p].dp].nlink = n])
  BY <1>1, <1>2, <1>3, <1>4, DiskType, RelinkRefs, FrameOf
<1>6. /\ HasDp(k[p].pc, k[p].op)
      /\ Passes(k[p].op, k[p].pc, "unlinked", HasIp(k[p].pc, k[p].op), FALSE)
  BY <1>1 DEF FrameOK, Place, Dropping, Passes, HasIp, HasDp, HasSrc, OpAt,
              Places
<1> QED BY <1>1, <1>2, <1>5, <1>6, DropDpFollows, PutLockedStep

\* unlink() drops the inode.
LEMMA UnlinkDoneStep ==
  ASSUME NEW p \in Procs, RefsInv, UnlinkDone(p) PROVE RefsInv'
<1>1. /\ p \in live /\ k[p].pc = "unlinked" /\ SameRefs(icache)
      /\ FrameOK(k[p]) /\ k[p] \in Frame /\ icache \in [Inums -> Slot]
  BY FrameOf DEF UnlinkDone, At
<1> DEFINE n == icache[k[p].ip].nlink - 1
<1>2. /\ disk' = [disk EXCEPT ![k[p].ip].nlink = n]
      /\ PutLocked(p, [icache EXCEPT ![k[p].ip].nlink = n],
                   [k[p] EXCEPT !.ip = Null], k[p].ip, "user")
  BY DEF UnlinkDone
<1>3. k[p].ip \in Inums
  BY <1>1 DEF FrameOK, Frame, Pointers, HasIp, Place, Dropping
<1>4. n \in Int
  BY <1>1, <1>3 DEF Slot
<1> HIDE DEF n
<1>5. /\ disk' \in [Inums -> Inode]
      /\ SameRefs([icache EXCEPT ![k[p].ip].nlink = n])
  BY <1>1, <1>2, <1>3, <1>4, DiskType, RelinkRefs, FrameOf
<1>6. /\ HasIp(k[p].pc, k[p].op)
      /\ Passes(k[p].op, k[p].pc, "user", FALSE, HasDp(k[p].pc, k[p].op))
  BY <1>1 DEF FrameOK, Place, Dropping, Passes, HasIp, HasDp, HasSrc, OpAt,
              Places
<1> QED BY <1>1, <1>2, <1>5, <1>6, DropIpFollows, PutLockedStep

\* What a frame is that drops its last inode.
LEMMA DropEnds ==
  ASSUME NEW f, NEW i \in Inums, f \in Frame
  PROVE  /\ Drop(f, i, "user") \in Frame
         /\ Drop(f, i, "user").pc = "put" /\ Drop(f, i, "user").drop = i
         /\ Drop(f, i, "user").ip = f.ip /\ Drop(f, i, "user").dp = f.dp
         /\ Drop(f, i, "user").src = f.src /\ Drop(f, i, "user").op = f.op
         /\ Place(Drop(f, i, "user")) = "user"
<1> DEFINE g == Drop(f, i, "user")
<1>1. g = [f EXCEPT !.pc = "put", !.drop = i, !.back = "user"]
  BY DEF Drop
<1>2. i \in Pointers /\ "user" \in Places /\ "put" \in Dropping
  BY DEF Pointers, Places, Dropping
<1> HIDE DEF g
<1>3. g \in Frame
  BY <1>1, <1>2 DEF Frame
<1>4. /\ g.pc = "put" /\ g.drop = i /\ g.ip = f.ip /\ g.dp = f.dp
      /\ g.src = f.src /\ g.op = f.op /\ g.back = "user"
  BY <1>1 DEF Frame
<1>5. Place(g) = "user"
  BY <1>2, <1>4 DEF Place
<1> QED BY <1>3, <1>4, <1>5 DEF g

\* The other inode is dropped.
LEMMA RestStep == ASSUME NEW p \in Procs, RefsInv, Rest(p) PROVE RefsInv'
<1> DEFINE i == k[p].src
           f == Drop([k[p] EXCEPT !.src = Null], i, "user")
<1>1. /\ p \in live /\ k[p].pc = "rest" /\ SameRefs(icache')
      /\ Become(p, f) /\ Kernel /\ disk' \in [Inums -> Inode]
  BY FrameOf DEF Rest, At, SameRefs, NoDisk
<1>2. /\ k[p] \in Frame /\ FrameOK(k[p]) /\ Place(k[p]) = "rest"
      /\ \A j \in Inums : Points(k[p], j) \in Int
  BY <1>1, FrameOf DEF Place, Dropping
<1>3. /\ k[p].ip = Null /\ k[p].dp = Null /\ k[p].drop = Null
      /\ i # Null
  BY <1>1, <1>2 DEF FrameOK, HasIp, HasDp, HasSrc, OpAt, Dropping
<1>4. i \in Inums
  BY <1>2, <1>3 DEF Frame, Pointers
<1> HIDE DEF i
<1>5. /\ f \in Frame /\ f.pc = "put" /\ f.ip = Null /\ f.dp = Null
      /\ f.src = Null /\ f.drop = i /\ f.op = k[p].op /\ Place(f) = "user"
  <2> DEFINE h == [k[p] EXCEPT !.src = Null]
  <2>1. h \in Frame
    BY <1>2 DEF Frame, Pointers
  <2>2. h.ip = Null /\ h.dp = Null /\ h.src = Null /\ h.op = k[p].op
    BY <1>2, <1>3 DEF Frame
  <2>3. f = Drop(h, i, "user")
    OBVIOUS
  <2> HIDE DEF f, h
  <2> QED BY <1>4, <2>1, <2>2, <2>3, DropEnds
<1> HIDE DEF f
<1>6. FrameOK(f)
  BY <1>3, <1>5 DEF FrameOK, HasIp, HasDp, HasSrc, OpAt, Dropping
<1>7. \A j \in Inums : Points(f, j) = Points(k[p], j) + Is(Null, j)
  BY <1>3, <1>5 DEF Points, Is, Inums, Null, i
<1>8. Follows(f, p, Null)
  BY <1>2, <1>5, <1>6, <1>7 DEF Follows
<1> QED BY <1>1, <1>8, MoveStep

\* link() of a directory.
LEMMA LinkFailsStep ==
  ASSUME NEW p \in Procs, RefsInv, LinkFails(p) PROVE RefsInv'
<1>1. /\ p \in live /\ k[p].pc = "go" /\ SameRefs(Locked(p))
      /\ k[p].op = "link" /\ disk' \in [Inums -> Inode]
      /\ PutLocked(p, Locked(p), [k[p] EXCEPT !.ip = Null], k[p].ip, "user")
  BY GoLocks, FrameOf DEF LinkFails, NoDisk
<1>2. /\ HasIp(k[p].pc, k[p].op)
      /\ Passes(k[p].op, k[p].pc, "user", FALSE, HasDp(k[p].pc, k[p].op))
  BY <1>1 DEF Passes, HasIp, HasDp, HasSrc, OpAt, Places, ForParent, Making
<1> QED BY <1>1, <1>2, DropIpFollows, PutLockedStep

\* A sequence is one of its elements.
LEMMA SeqOf ==
  ASSUME NEW S, NEW T, NEW s, s \in Seq(S), \A n \in 1..Len(s) : s[n] \in T
  PROVE  s \in Seq(T)
<1>1. Len(s) \in Nat /\ s \in [1..Len(s) -> T]
  OBVIOUS
<1>2. \A n \in Nat : [1..n -> T] \subseteq Seq(T)
  BY SeqDef
<1> QED BY <1>1, <1>2

\* A walk along a path begins at an inode, with elements to look for.
LEMMA StartIn ==
  ASSUME NEW p \in live, NEW s \in Paths, RefsInv,
         Place(k[p]) \notin {"cd", "dead"}
  PROVE  /\ Start(p, s) \in Inums
         /\ (IF s # <<>> /\ s[1] = "/" THEN Tail(s) ELSE s) \in Seq(Elements)
<1>1. Start(p, s) \in Inums
  <2>1. cwd[p] \in Inums
    BY DEF RefsInv, ProcsOK, TypeOK, Pointers
  <2>2. Root \in Inums
    BY NumberAssumption DEF Root, Inums
  <2> QED BY <2>1, <2>2 DEF Start
<1>2. s \in Seq(Elements \cup {"/"}) /\ \A n \in 2..Len(s) : s[n] # "/"
  BY DEF Paths, IsPath
<1>3. CASE s # <<>> /\ s[1] = "/"
  <2>1. /\ Tail(s) \in Seq(Elements \cup {"/"}) /\ Len(Tail(s)) = Len(s) - 1
        /\ \A n \in 1..Len(Tail(s)) : Tail(s)[n] = s[n + 1]
    BY <1>2, <1>3
  <2>2. \A n \in 1..Len(Tail(s)) : Tail(s)[n] \in Elements
    BY <1>2, <2>1
  <2>3. Tail(s) \in Seq(Elements)
    BY <2>1, <2>2, SeqOf
  <2> QED BY <1>1, <1>3, <2>3
<1>4. CASE ~(s # <<>> /\ s[1] = "/")
  <2>1. \A n \in 1..Len(s) : s[n] \in Elements
    BY <1>2, <1>4
  <2>2. s \in Seq(Elements)
    BY <1>2, <2>1, SeqOf
  <2> QED BY <1>1, <1>4, <2>2
<1> QED BY <1>1, <1>3, <1>4

\* link() keeps the inode, and looks for the new name.
LEMMA LinkCountStep ==
  ASSUME NEW p \in Procs, RefsInv, LinkCount(p) PROVE RefsInv'
<1>1. /\ p \in live /\ k[p].pc = "go" /\ SameRefs(Visited(p))
      /\ k[p].op = "link" /\ k[p].ip \in Inums
  BY GoLocks DEF LinkCount, ForParent, Making
<1>2. /\ k[p] \in Frame /\ FrameOK(k[p]) /\ Place(k[p]) = "go"
      /\ \A j \in Inums : Points(k[p], j) \in Int
  BY <1>1, FrameOf DEF Place, Dropping
<1> DEFINE i == Start(p, k[p].new)
           n == Visited(p)[k[p].ip].nlink + 1
           path == IF k[p].new # <<>> /\ k[p].new[1] = "/" THEN Tail(k[p].new)
                   ELSE k[p].new
           f == Walking([k[p] EXCEPT !.op = "link2", !.src = k[p].ip], i,
                        k[p].new)
<1>3. /\ disk' = [disk EXCEPT ![k[p].ip].nlink = n]
      /\ Get(p, [Visited(p) EXCEPT ![k[p].ip].nlink = n], i, f)
  BY DEF LinkCount
<1>4. i \in Inums /\ path \in Seq(Elements)
  <2>1. k[p].new \in Paths
    BY <1>2 DEF Frame
  <2> QED BY <1>1, <1>2, <2>1, StartIn
<1>5. n \in Int
  BY <1>1 DEF SameRefs, Slot
<1>6. f = [k[p] EXCEPT !.op = "link2", !.src = k[p].ip, !.pc = "walk",
                       !.ip = i, !.path = path]
  BY DEF Walking
<1> HIDE DEF n, i, path
<1>7. /\ disk' \in [Inums -> Inode]
      /\ SameRefs([Visited(p) EXCEPT ![k[p].ip].nlink = n])
  BY <1>1, <1>3, <1>5, DiskType, RelinkRefs, FrameOf
<1>8. k[p].src = Null /\ k[p].dp = Null /\ k[p].drop = Null
  BY <1>1, <1>2 DEF FrameOK, HasSrc, HasDp, Dropping, ForParent, Making
<1>9. /\ f \in Frame /\ f.pc = "walk" /\ f.ip = i /\ f.dp = Null
      /\ f.src = k[p].ip /\ f.drop = Null /\ f.op = "link2"
      /\ Place(f) = "walk"
  BY <1>1, <1>2, <1>4, <1>6, <1>8
     DEF Frame, Places, Place, Dropping, Pointers, Ops
<1> HIDE DEF f
<1>10. FrameOK(f)
  BY <1>1, <1>4, <1>9
     DEF FrameOK, HasIp, HasDp, HasSrc, OpAt, Dropping, Inums, Null
<1>11. \A j \in Inums : Points(f, j) = Points(k[p], j) + Is(i, j)
  BY <1>8, <1>9 DEF Points, Is, Inums, Null
<1>12. Follows(f, p, i)
  BY <1>2, <1>9, <1>10, <1>11 DEF Follows
<1> QED BY <1>1, <1>3, <1>4, <1>7, <1>12, GetStep DEF i

\* link() writes the entry.
LEMMA LinkEnterStep ==
  ASSUME NEW p \in Procs, RefsInv, LinkEnter(p) PROVE RefsInv'
<1>1. /\ p \in live /\ k[p].pc = "go" /\ SameRefs(Locked(p))
      /\ k[p].op = "link2" /\ k[p].dp \in Inums /\ k[p] \in Frame
      /\ disk' = [disk EXCEPT ![k[p].dp].ents[k[p].name] = k[p].src]
      /\ PutLocked(p, Locked(p), [k[p] EXCEPT !.dp = Null], k[p].dp, "rest")
  BY GoLocks, FrameOf DEF LinkEnter, ForParent
<1>2. disk' \in [Inums -> Inode]
  <2>1. k[p].src \in Pointers
    BY <1>1 DEF Frame
  <2> QED BY <1>1, <2>1, DiskType, FrameOf
<1>3. /\ HasDp(k[p].pc, k[p].op)
      /\ Passes(k[p].op, k[p].pc, "rest", HasIp(k[p].pc, k[p].op), FALSE)
  BY <1>1 DEF Passes, HasIp, HasDp, HasSrc, OpAt, Places, ForParent, Making
<1> QED BY <1>1, <1>2, <1>3, DropDpFollows, PutLockedStep

\* link() finds the name taken.
LEMMA LinkExistsStep ==
  ASSUME NEW p \in Procs, RefsInv, LinkExists(p) PROVE RefsInv'
<1> DEFINE i == dirlookup(k[p].dp, k[p].name)
           f == Drop(k[p], i, "exists")
<1>1. /\ p \in live /\ k[p].pc = "go" /\ SameRefs(Locked(p))
      /\ k[p].op = "link2" /\ disk' \in [Inums -> Inode]
      /\ k[p].dp \in Inums /\ i # Null /\ Get(p, Locked(p), i, f)
  BY GoLocks, FrameOf DEF LinkExists, NoDisk, ForParent
<1>2. /\ k[p] \in Frame /\ FrameOK(k[p]) /\ Place(k[p]) = "go"
      /\ \A j \in Inums : Points(k[p], j) \in Int
  BY <1>1, FrameOf DEF Place, Dropping
<1>3. i \in Inums
  <2>1. k[p].name \in Elements
    BY <1>2 DEF Frame
  <2> QED BY <1>1, <2>1, LookupType, FrameOf DEF Pointers
<1> HIDE DEF i
<1>4. k[p].ip = Null /\ k[p].drop = Null /\ k[p].src # Null
  BY <1>1, <1>2 DEF FrameOK, HasIp, HasSrc, Dropping, ForParent, Making
<1>5. /\ f \in Frame /\ f.pc = "put" /\ f.ip = Null /\ f.dp = k[p].dp
      /\ f.src = k[p].src /\ f.drop = i /\ f.op = "link2"
      /\ Place(f) = "exists"
  BY <1>1, <1>2, <1>3, <1>4
     DEF Frame, Places, Place, Dropping, Pointers, Drop
<1> HIDE DEF f
<1>6. FrameOK(f)
  BY <1>1, <1>3, <1>4, <1>5
     DEF FrameOK, HasIp, HasDp, HasSrc, OpAt, Dropping, Inums, Null
<1>7. \A j \in Inums : Points(f, j) = Points(k[p], j) + Is(i, j)
  BY <1>4, <1>5 DEF Points, Is, Inums, Null
<1>8. Follows(f, p, i)
  BY <1>2, <1>5, <1>6, <1>7 DEF Follows
<1> QED BY <1>1, <1>3, <1>8, GetStep DEF f

\* Then it drops the directory,
LEMMA LinkGivesUpStep ==
  ASSUME NEW p \in Procs, RefsInv, LinkGivesUp(p) PROVE RefsInv'
<1>1. /\ p \in live /\ k[p].pc = "exists" /\ SameRefs(icache)
      /\ disk' \in [Inums -> Inode] /\ FrameOK(k[p])
      /\ PutLocked(p, icache, [k[p] EXCEPT !.dp = Null], k[p].dp, "bad")
  BY FrameOf DEF LinkGivesUp, NoDisk, At
<1>2. /\ HasDp(k[p].pc, k[p].op)
      /\ Passes(k[p].op, k[p].pc, "bad", HasIp(k[p].pc, k[p].op), FALSE)
  BY <1>1 DEF FrameOK, Place, Dropping, Passes, HasIp, HasDp, HasSrc, OpAt,
              Places
<1> QED BY <1>1, <1>2, DropDpFollows, PutLockedStep

\* and takes the count back.
LEMMA LinkBadStep ==
  ASSUME NEW p \in Procs, RefsInv, LinkBad(p) PROVE RefsInv'
<1> DEFINE n == Visited(p)[k[p].src].nlink - 1
           f == Drop([k[p] EXCEPT !.src = Null], k[p].src, "user")
<1>1. /\ p \in live /\ k[p].pc = "bad" /\ SameRefs(Visited(p))
      /\ disk' = [disk EXCEPT ![k[p].src].nlink = n]
      /\ icache' = [Visited(p) EXCEPT ![k[p].src].nlink = n]
      /\ Become(p, f) /\ Kernel
  BY LocksRefs DEF LinkBad, RefsInv
<1>2. /\ k[p] \in Frame /\ FrameOK(k[p]) /\ Place(k[p]) = "bad"
      /\ \A j \in Inums : Points(k[p], j) \in Int
  BY <1>1, FrameOf DEF Place, Dropping
<1>3. /\ k[p].ip = Null /\ k[p].dp = Null /\ k[p].drop = Null
      /\ k[p].src \in Inums
  BY <1>1, <1>2
     DEF FrameOK, HasIp, HasDp, HasSrc, OpAt, Dropping, Frame, Pointers
<1>4. n \in Int
  BY <1>1, <1>3 DEF SameRefs, Slot
<1> HIDE DEF n
<1>5. disk' \in [Inums -> Inode] /\ SameRefs(icache')
  BY <1>1, <1>3, <1>4, DiskType, RelinkRefs, FrameOf
<1>6. /\ f \in Frame /\ f.pc = "put" /\ f.ip = Null /\ f.dp = Null
      /\ f.src = Null /\ f.drop = k[p].src /\ f.op = k[p].op
      /\ Place(f) = "user"
  <2> DEFINE h == [k[p] EXCEPT !.src = Null]
  <2>1. h \in Frame
    BY <1>2 DEF Frame, Pointers
  <2>2. h.ip = Null /\ h.dp = Null /\ h.src = Null /\ h.op = k[p].op
    BY <1>2, <1>3 DEF Frame
  <2>3. f = Drop(h, k[p].src, "user")
    OBVIOUS
  <2> HIDE DEF f, h
  <2> QED BY <1>3, <2>1, <2>2, <2>3, DropEnds
<1> HIDE DEF f
<1>7. FrameOK(f)
  BY <1>3, <1>6 DEF FrameOK, HasIp, HasDp, HasSrc, OpAt, Dropping, Inums, Null
<1>8. \A j \in Inums : Points(f, j) = Points(k[p], j) + Is(Null, j)
  BY <1>3, <1>6 DEF Points, Is, Inums, Null
<1>9. Follows(f, p, Null)
  BY <1>2, <1>6, <1>7, <1>8 DEF Follows
<1> QED BY <1>1, <1>5, <1>9, MoveStep

-----------------------------------------------------------------------------
(* The steps of chdir(), exec() and the calls of one process on files.     *)

\* exec() drops the program.
LEMMA ExecStep == ASSUME NEW p \in Procs, RefsInv, Exec(p) PROVE RefsInv'
<1>1. /\ p \in live /\ k[p].pc = "go" /\ SameRefs(Locked(p))
      /\ k[p].op = "exec" /\ disk' \in [Inums -> Inode]
      /\ PutLocked(p, Locked(p), [k[p] EXCEPT !.ip = Null], k[p].ip, "user")
  BY GoLocks, FrameOf DEF Exec, NoDisk
<1>2. /\ HasIp(k[p].pc, k[p].op)
      /\ Passes(k[p].op, k[p].pc, "user", FALSE, HasDp(k[p].pc, k[p].op))
  BY <1>1 DEF Passes, HasIp, HasDp, HasSrc, OpAt, Places, ForParent, Making
<1> QED BY <1>1, <1>2, DropIpFollows, PutLockedStep

\* chdir() drops the old directory, or what is none.
LEMMA ChdirStep == ASSUME NEW p \in Procs, RefsInv, Chdir(p) PROVE RefsInv'
<1>1. /\ p \in live /\ k[p].pc = "go" /\ SameRefs(Locked(p))
      /\ SameRefs(Visited(p))
      /\ k[p].op = "chdir" /\ disk' \in [Inums -> Inode]
  BY GoLocks, FrameOf DEF Chdir, NoDisk
<1>2. CASE Locked(p)[k[p].ip].type # "dir"
  <2>1. PutLocked(p, Locked(p), [k[p] EXCEPT !.ip = Null], k[p].ip, "user")
    BY <1>2 DEF Chdir
  <2>2. /\ HasIp(k[p].pc, k[p].op)
        /\ Passes(k[p].op, k[p].pc, "user", FALSE, HasDp(k[p].pc, k[p].op))
    BY <1>1 DEF Passes, HasIp, HasDp, HasSrc, OpAt, Places, ForParent, Making
  <2> QED BY <1>1, <2>1, <2>2, DropIpFollows, PutLockedStep
<1>3. CASE Locked(p)[k[p].ip].type = "dir"
  <2> DEFINE f == Drop(k[p], cwd[p], "cd")
  <2>1. /\ icache' = Visited(p) /\ k' = [k EXCEPT ![p] = f]
        /\ cwd' = [cwd EXCEPT ![p] = Null]
        /\ UNCHANGED <<ftable, live, ofile>>
    BY <1>3 DEF Chdir, Become
  <2>2. /\ k[p] \in Frame /\ FrameOK(k[p]) /\ Place(k[p]) = "go"
        /\ \A j \in Inums : Points(k[p], j) \in Int
    BY <1>1, FrameOf DEF Place, Dropping
  <2>3. cwd[p] \in Inums
    BY <1>1, <2>2 DEF RefsInv, ProcsOK, TypeOK, Pointers
  <2>4. /\ k[p].drop = Null /\ k[p].ip # Null /\ k[p].dp = Null
        /\ k[p].src = Null
    BY <1>1, <2>2
       DEF FrameOK, HasIp, HasDp, HasSrc, Dropping, ForParent, Making
  <2>5. /\ f \in Frame /\ f.pc = "put" /\ f.ip = k[p].ip /\ f.dp = Null
        /\ f.src = Null /\ f.drop = cwd[p] /\ f.op = "chdir"
        /\ Place(f) = "cd"
    BY <1>1, <2>2, <2>3, <2>4
       DEF Frame, Places, Place, Dropping, Pointers, Drop
  <2> HIDE DEF f
  <2>6. FrameOK(f)
    BY <2>3, <2>4, <2>5
       DEF FrameOK, HasIp, HasDp, HasSrc, OpAt, Dropping, Inums, Null
  <2>7. \A j \in Inums : icache'[j].ref = icache[j].ref + Is(Null, j)
                           - Is(cwd[p], j) + Points(f, j) - Points(k[p], j)
    <3>1. \A j \in Inums : icache'[j].ref = icache[j].ref
                           /\ icache[j].ref \in Int /\ Is(Null, j) = 0
      BY <1>1, <2>1, FrameOf DEF SameRefs, Slot, Is, Inums, Null
    <3>2. \A j \in Inums : Points(f, j) = Points(k[p], j) + Is(cwd[p], j)
      BY <2>4, <2>5 DEF Points, Is, Inums, Null
    <3>3. \A j \in Inums : Is(cwd[p], j) \in Int
      BY DEF Is
    <3> QED BY <2>2, <3>1, <3>2, <3>3
  <2>8. icache' \in [Inums -> Slot]
    BY <1>1, <2>1 DEF SameRefs
  <2>9. Null \in Pointers
    BY DEF Pointers
  <2> QED BY <1>1, <2>1, <2>5, <2>6, <2>7, <2>8, <2>9, ProcStep
<1> QED BY <1>2, <1>3

\* chdir() has the new one.
LEMMA ChdirDoneStep ==
  ASSUME NEW p \in Procs, RefsInv, ChdirDone(p) PROVE RefsInv'
<1>1. /\ p \in live /\ k[p].pc = "cd" /\ SameRefs(icache)
      /\ cwd' = [cwd EXCEPT ![p] = k[p].ip] /\ k' = [k EXCEPT ![p] = User]
      /\ disk' \in [Inums -> Inode] /\ icache' = icache
      /\ UNCHANGED <<ftable, live, ofile>>
  BY FrameOf DEF ChdirDone, At, Become
<1>2. /\ k[p] \in Frame /\ FrameOK(k[p]) /\ Place(k[p]) = "cd"
  BY <1>1, FrameOf DEF Place, Dropping
<1>3. /\ k[p].drop = Null /\ k[p].ip \in Inums /\ k[p].dp = Null
      /\ k[p].src = Null
  BY <1>1, <1>2
     DEF FrameOK, HasIp, HasDp, HasSrc, Dropping, Frame, Pointers
<1>4. cwd[p] = Null
  BY <1>1, <1>2 DEF RefsInv, ProcsOK
<1>5. \A j \in Inums :
        icache'[j].ref = icache[j].ref + Is(k[p].ip, j) - Is(cwd[p], j)
                           + Points(User, j) - Points(k[p], j)
  <2>1. \A j \in Inums : icache[j].ref \in Int
    BY FrameOf, <1>1 DEF Slot
  <2> QED BY <1>1, <1>3, <1>4, <2>1, UserFrame DEF Points, Is, Inums, Null
<1>6. /\ k[p].ip \in Pointers /\ User \in Frame /\ FrameOK(User)
      /\ icache' \in [Inums -> Slot]
      /\ k[p].ip = Null <=> Place(User) \in {"cd", "dead"}
      /\ Place(User) # "dead"
  BY <1>1, <1>3, UserFrame DEF SameRefs, Pointers, Inums, Null
<1> QED BY <1>1, <1>5, <1>6, ProcStep

\* A call begins.
LEMMA CallStep ==
  ASSUME NEW p \in Procs, NEW r \in Requests, RefsInv, Call(p, r)
  PROVE  RefsInv'
<1> DEFINE i == Start(p, r.path)
           path == IF r.path # <<>> /\ r.path[1] = "/" THEN Tail(r.path)
                   ELSE r.path
           f == Walking([User EXCEPT !.op = r.op, !.new = r.new], i, r.path)
<1>1. /\ p \in live /\ k[p].pc = "user" /\ SameRefs(icache)
      /\ disk \in [Inums -> Inode]
  BY FrameOf DEF Call, At, RefsInv, TypeOK
<1>2. CASE NoSlot(i)
  BY <1>1, <1>2, StopStep DEF Call, Panic
<1>3. CASE ~NoSlot(i)
  <2>1. /\ icache' = iget(icache, i) /\ k' = [k EXCEPT ![p] = f]
        /\ UNCHANGED <<disk, ftable, procVars>>
    BY <1>3 DEF Call, Become
  <2>2. /\ k[p] \in Frame /\ FrameOK(k[p]) /\ Place(k[p]) = "user"
        /\ \A j \in Inums : Points(k[p], j) = 0
    <3>1. k[p] \in Frame /\ FrameOK(k[p]) /\ Place(k[p]) = "user"
      BY <1>1, FrameOf DEF Place, Dropping
    <3>2. /\ k[p].ip = Null /\ k[p].dp = Null /\ k[p].src = Null
          /\ k[p].drop = Null
      BY <3>1, <1>1 DEF FrameOK, HasIp, HasDp, HasSrc, Dropping
    <3> QED BY <3>1, <3>2 DEF Points, Is, Inums, Null
  <2>3. r.op \in Ops /\ r.path \in Paths /\ r.new \in Paths
    BY RequestAssumption DEF Ops, Paths, IsPath
  <2>4. i \in Inums /\ path \in Seq(Elements)
    BY <1>1, <2>2, <2>3, StartIn
  <2>5. f = [User EXCEPT !.op = r.op, !.new = r.new, !.pc = "walk",
                         !.ip = i, !.path = path]
    BY DEF Walking
  <2> HIDE DEF i, path
  <2>6. /\ f \in Frame /\ f.pc = "walk" /\ f.ip = i /\ f.dp = Null
        /\ f.src = Null /\ f.drop = Null /\ f.op = r.op
        /\ Place(f) = "walk"
    <3>1. User \in Frame
      BY UserFrame
    <3>2. f.pc = "walk" /\ f.ip = i /\ f.op = r.op
      BY <2>5, <3>1 DEF Frame
    <3>3. f.dp = Null /\ f.src = Null /\ f.drop = Null
      BY <2>5, <3>1 DEF User, Frame
    <3>4. i \in Pointers /\ "walk" \in Places /\ "walk" \notin Dropping
      BY <2>4 DEF Pointers, Places, Dropping
    <3>5. f \in Frame
      BY <2>3, <2>4, <2>5, <3>1, <3>4 DEF Frame, Ops
    <3> QED BY <3>2, <3>3, <3>4, <3>5 DEF Place
  <2> HIDE DEF f
  <2>7. FrameOK(f)
    BY <2>3, <2>4, <2>6
       DEF FrameOK, HasIp, HasDp, HasSrc, OpAt, Dropping, Inums, Null, Ops
  <2>8. icache' \in [Inums -> Slot]
        /\ \A j \in Inums : icache'[j].ref = icache[j].ref + Is(i, j)
    BY <1>1, <2>1, <2>4, IgetRefs
  <2>9. \A j \in Inums :
          icache'[j].ref = icache[j].ref + Points(f, j) - Points(k[p], j)
    <3>1. \A j \in Inums : Points(f, j) = Is(i, j)
      BY <2>6 DEF Points, Is, Inums, Null
    <3>2. \A j \in Inums : icache[j].ref \in Int /\ Is(i, j) \in Int
      BY <1>1, FrameOf DEF Slot, Is
    <3> QED BY <2>2, <2>8, <3>1, <3>2
  <2> QED BY <1>1, <2>1, <2>2, <2>6, <2>7, <2>8, <2>9, FrameStep
<1> QED BY <1>2, <1>3

\* ilock() stops the kernel.
LEMMA IlockPanicStep ==
  ASSUME NEW p \in Procs, RefsInv, IlockPanic(p) PROVE RefsInv'
BY StopStep DEF IlockPanic, Panic, RefsInv, TypeOK

\* exit() begins.
LEMMA ExitCallStep ==
  ASSUME NEW p \in Procs, RefsInv, ExitCall(p) PROVE RefsInv'
<1> DEFINE f == [User EXCEPT !.pc = "exit"]
<1>1. /\ p \in live /\ k[p].pc = "user" /\ SameRefs(icache')
      /\ disk' \in [Inums -> Inode] /\ Become(p, f) /\ Kernel
  BY FrameOf DEF ExitCall, At, SameRefs, NoDisk
<1>2. /\ k[p] \in Frame /\ FrameOK(k[p]) /\ Place(k[p]) = "user"
  BY <1>1, FrameOf DEF Place, Dropping
<1>3. /\ k[p].ip = Null /\ k[p].dp = Null /\ k[p].src = Null
      /\ k[p].drop = Null
  BY <1>1, <1>2 DEF FrameOK, HasIp, HasDp, HasSrc, Dropping
<1>4. /\ f \in Frame /\ f.pc = "exit" /\ f.ip = Null /\ f.dp = Null
      /\ f.src = Null /\ f.drop = Null /\ Place(f) = "exit"
  BY UserFrame DEF User, Frame, Places, Place, Dropping
<1> HIDE DEF f
<1>5. FrameOK(f)
  BY <1>4 DEF FrameOK, HasIp, HasDp, HasSrc, OpAt, Dropping
<1>6. \A j \in Inums : Points(f, j) = Points(k[p], j) + Is(Null, j)
  BY <1>3, <1>4 DEF Points, Is, Inums, Null
<1>7. Follows(f, p, Null)
  BY <1>2, <1>4, <1>5, <1>6 DEF Follows
<1> QED BY <1>1, <1>7, MoveStep

\* exit() drops the directory.
LEMMA ExitDropStep ==
  ASSUME NEW p \in Procs, RefsInv, ExitDrop(p) PROVE RefsInv'
<1> DEFINE f == Drop(User, cwd[p], "dead")
<1>1. /\ p \in live /\ k[p].pc = "exit" /\ k' = [k EXCEPT ![p] = f]
      /\ cwd' = [cwd EXCEPT ![p] = Null] /\ icache' = icache
      /\ disk' \in [Inums -> Inode] /\ icache' \in [Inums -> Slot]
      /\ UNCHANGED <<ftable, live, ofile>>
      /\ \A d \in 1..NOFILE : ofile[p][d] = Null
  BY FrameOf DEF ExitDrop, At, Become
<1>2. /\ k[p] \in Frame /\ FrameOK(k[p]) /\ Place(k[p]) = "exit"
  BY <1>1, FrameOf DEF Place, Dropping
<1>3. cwd[p] \in Inums
  BY <1>1, <1>2 DEF RefsInv, ProcsOK, TypeOK, Pointers
<1>4. /\ k[p].ip = Null /\ k[p].dp = Null /\ k[p].src = Null
      /\ k[p].drop = Null
  BY <1>1, <1>2 DEF FrameOK, HasIp, HasDp, HasSrc, Dropping
<1>5. /\ f \in Frame /\ f.pc = "put" /\ f.ip = Null /\ f.dp = Null
      /\ f.src = Null /\ f.drop = cwd[p] /\ Place(f) = "dead"
  BY <1>3, UserFrame
     DEF User, Drop, Frame, Places, Place, Dropping, Pointers
<1> HIDE DEF f
<1>6. FrameOK(f)
  BY <1>3, <1>5
     DEF FrameOK, HasIp, HasDp, HasSrc, OpAt, Dropping, Inums, Null
<1>7. \A j \in Inums : icache'[j].ref = icache[j].ref + Is(Null, j)
                         - Is(cwd[p], j) + Points(f, j) - Points(k[p], j)
  <2>1. \A j \in Inums : icache[j].ref \in Int
    BY FrameOf, <1>1 DEF Slot
  <2> QED BY <1>1, <1>3, <1>4, <1>5, <2>1 DEF Points, Is, Inums, Null
<1>8. /\ Null \in Pointers /\ Place(f) \in {"cd", "dead"}
  BY <1>5 DEF Pointers
<1> QED BY <1>1, <1>5, <1>6, <1>7, <1>8, ProcStep

\* The descriptors of a file are finitely many.
LEMMA DescriptorsFinite ==
  ASSUME TypeOK, NEW h
  PROVE  IsFiniteSet(Descriptors(h)) /\ Cardinality(Descriptors(h)) \in Nat
<1>1. IsFiniteSet(live) /\ IsFiniteSet(1..NOFILE)
  BY ProcAssumption, NumberAssumption, FS_Subset, FS_Interval DEF TypeOK
<1>2. IsFiniteSet(live \X (1..NOFILE))
  BY <1>1, FS_Product
<1>3. Descriptors(h) \subseteq live \X (1..NOFILE)
  BY DEF Descriptors
<1> QED BY <1>2, <1>3, FS_Subset, FS_CardinalityType

\* A process moves on to frame f; file g becomes file, and e is the file of
\* its descriptor d.
Moves(p, f, g, file, d, e) ==
  /\ p \in live /\ f \in Frame /\ g \in 1..NFILE /\ d \in 1..NOFILE
  /\ e \in 0..NFILE /\ file \in [ref : Int, ip : Pointers]
  /\ FrameOK(f) /\ k' = [k EXCEPT ![p] = f]
  /\ ftable' = [ftable EXCEPT ![g] = file]
  /\ ofile' = [ofile EXCEPT ![p][d] = e]
  /\ UNCHANGED <<live, cwd>>
  /\ disk' \in [Inums -> Inode] /\ icache' \in [Inums -> Slot]
  /\ {Place(f), Place(k[p])} \cap {"cd", "dead"} = {}
  /\ file.ref > 0 <=> file.ip # Null
  /\ \A h \in 1..NFILE :
       ftable'[h].ref = ftable[h].ref + Is(e, h) - Is(ofile[p][d], h)
  /\ \A i \in Inums :
       icache'[i].ref = icache[i].ref + Is(file.ip, i) - Is(ftable[g].ip, i)
                          + Points(f, i) - Points(k[p], i)

\* That changes no more references than it counts.
LEMMA FileStep ==
  ASSUME NEW p, NEW f, NEW g, NEW file, NEW d, NEW e, RefsInv,
         Moves(p, f, g, file, d, e)
  PROVE  RefsInv'
<1>1. /\ p \in Procs /\ k \in [Procs -> Frame] /\ k'[p] = f
      /\ TypeOK /\ ProcsOK /\ FilesOK
      /\ \A q \in Procs \ {p} : k'[q] = k[q] /\ ofile'[q] = ofile[q]
      /\ ftable'[g] = file /\ \A h \in 1..NFILE \ {g} : ftable'[h] = ftable[h]
      /\ ofile'[p][d] = e
      /\ \A c \in 1..NOFILE \ {d} : ofile'[p][c] = ofile[p][c]
  BY DEF RefsInv, TypeOK, Moves
<1>8. /\ p \in live /\ f \in Frame /\ g \in 1..NFILE /\ d \in 1..NOFILE
      /\ e \in 0..NFILE /\ file \in [ref : Int, ip : Pointers]
      /\ FrameOK(f) /\ live' = live /\ cwd' = cwd
      /\ disk' \in [Inums -> Inode] /\ icache' \in [Inums -> Slot]
      /\ {Place(f), Place(k[p])} \cap {"cd", "dead"} = {}
      /\ file.ref > 0 <=> file.ip # Null
  BY DEF Moves
<1>2. TypeOK'
  <2>1. ofile' \in [Procs -> [1..NOFILE -> 0..NFILE]]
    BY <1>1, <1>8 DEF TypeOK, Moves
  <2>2. ftable' \in [1..NFILE -> [ref : Int, ip : Pointers]]
    BY <1>1, <1>8 DEF TypeOK, Moves
  <2>3. k' \in [Procs -> Frame]
    BY <1>1, <1>8 DEF Moves
  <2> QED BY <1>1, <1>8, <2>1, <2>2, <2>3 DEF TypeOK
<1>3. FramesOK'
  <2>1. \A q \in Procs : FrameOK(k'[q])
    BY <1>1, <1>8 DEF RefsInv, FramesOK
  <2> QED BY <2>1 DEF FramesOK, FrameOK, Place, HasIp, HasDp, HasSrc, OpAt
<1>4. ProcsOK'
  <2> SUFFICES ASSUME NEW q \in Procs
               PROVE  /\ q \notin live => k'[q] = User
                      /\ cwd[q] = Null <=>
                           q \notin live \/ Place(k'[q]) \in {"cd", "dead"}
                      /\ q \notin live \/ Place(k'[q]) = "dead" =>
                           \A c \in 1..NOFILE : ofile'[q][c] = Null
    BY <1>8 DEF ProcsOK, Place, User
  <2>1. CASE q = p
    BY <2>1, <1>1, <1>8 DEF ProcsOK
  <2>2. CASE q # p
    BY <2>2, <1>1, <1>8 DEF ProcsOK
  <2> QED BY <2>1, <2>2
<1>5. FilesOK'
  <2>1. \A h \in 1..NFILE : ftable'[h].ref > 0 <=> ftable'[h].ip # Null
    BY <1>1, <1>8 DEF FilesOK
  <2> QED BY <2>1 DEF FilesOK
<1>6. FileRefs'
  <2> SUFFICES ASSUME NEW h \in 1..NFILE
               PROVE  ftable'[h].ref = Cardinality(Descriptors(h)')
    BY DEF FileRefs
  <2>1. ftable[h].ref = Cardinality(Descriptors(h))
    BY DEF RefsInv, FileRefs
  <2>2. IsFiniteSet(Descriptors(h))
    BY <1>1, DescriptorsFinite
  <2> DEFINE x == <<p, d>>
  <2>3. Descriptors(h) \ {x} = Descriptors(h)' \ {x}
    BY <1>1, <1>8 DEF Descriptors, TypeOK
  <2>4. /\ In(x, Descriptors(h)) = Is(ofile[p][d], h)
        /\ In(x, Descriptors(h)') = Is(e, h)
    BY <1>1, <1>8 DEF Descriptors, In, Is
  <2> HIDE DEF x
  <2>5. /\ Cardinality(Descriptors(h)) \in Nat
        /\ Cardinality(Descriptors(h)') =
             Cardinality(Descriptors(h)) + In(x, Descriptors(h)')
               - In(x, Descriptors(h))
    BY <2>2, <2>3, CountOne
  <2>6. ftable'[h].ref = ftable[h].ref + Is(e, h) - Is(ofile[p][d], h)
    BY DEF Moves
  <2> QED BY <2>1, <2>4, <2>5, <2>6
<1>7. InodeRefs'
  <2> SUFFICES ASSUME NEW i \in Inums
               PROVE  icache'[i].ref = References(i)'
    BY DEF InodeRefs
  <2>1. References(i) \in Nat /\ icache[i].ref = References(i)
    BY RefsNat DEF RefsInv, InodeRefs
  <2>2. /\ Differ(Procs, k, k', p) /\ Differ(Procs, cwd, cwd', p)
        /\ Differ(Slots, ftable, ftable', g)
    BY <1>1, <1>8 DEF Differ, Slots
  <2>3. References(i)' =
          References(i)
            + Is(Field(ftable', g, "ip"), i) - Is(Field(ftable, g, "ip"), i)
            + Is(Val(cwd', p), i) - Is(Val(cwd, p), i)
            + Points(Val(k', p), i) - Points(Val(k, p), i)
    BY ONLY <1>1, <1>2, <1>4, <1>5, <2>2, RefsChange
  <2>4. /\ Field(ftable', g, "ip") = file.ip
        /\ Field(ftable, g, "ip") = ftable[g].ip
        /\ Val(cwd', p) = cwd[p] /\ Val(cwd, p) = cwd[p]
        /\ Val(k', p) = f /\ Val(k, p) = k[p]
    BY <1>1, <1>8 DEF Field, Val
  <2>5. \A x : Is(x, i) \in Int /\ Points(x, i) \in Int
    BY DEF Is, Points
  <2>6. icache'[i].ref = icache[i].ref + Is(file.ip, i)
             - Is(ftable[g].ip, i) + Points(f, i) - Points(k[p], i)
    BY DEF Moves
  <2> HIDE DEF Slots
  <2> QED BY <2>1, <2>3, <2>4, <2>5, <2>6
<1> QED BY <1>2, <1>3, <1>4, <1>5, <1>6, <1>7 DEF RefsInv

\* What is known of a file that somebody has a descriptor of.
LEMMA OpenFile ==
  ASSUME NEW p \in live, NEW d \in 1..NOFILE, RefsInv, ofile[p][d] # Null
  PROVE  /\ ofile[p][d] \in 1..NFILE
         /\ ftable[ofile[p][d]].ref \in Nat /\ ftable[ofile[p][d]].ref >= 1
         /\ ftable[ofile[p][d]].ip \in Inums
<1>1. ofile[p][d] \in 1..NFILE
  <2>1. ofile[p] \in [1..NOFILE -> 0..NFILE]
    BY DEF RefsInv, TypeOK
  <2>2. ofile[p][d] \in 0..NFILE
    BY <2>1
  <2> QED BY <2>2, NumberAssumption DEF Null
<1>2. PICK g : g = ofile[p][d]
  OBVIOUS
<1>3. /\ ftable[g].ref = Cardinality(Descriptors(g))
      /\ ftable[g].ref > 0 <=> ftable[g].ip # Null
      /\ ftable[g].ip \in Pointers
  BY <1>1, <1>2 DEF RefsInv, FileRefs, FilesOK, TypeOK
<1>4. IsFiniteSet(Descriptors(g)) /\ <<p, d>> \in Descriptors(g)
  BY <1>2, DescriptorsFinite DEF RefsInv, Descriptors
<1>5. Cardinality(Descriptors(g)) \in Nat /\ Cardinality(Descriptors(g)) >= 1
  BY <1>4, CountMember
<1> QED BY <1>1, <1>2, <1>3, <1>5 DEF Pointers

\* open() hands its inode over to a file.
LEMMA OpenDoneStep ==
  ASSUME NEW p \in Procs, RefsInv, OpenDone(p) PROVE RefsInv'
<1>1. /\ p \in live /\ k[p].pc = "opened" /\ icache' = iunlock(icache, k[p].ip)
      /\ k' = [k EXCEPT ![p] = User] /\ UNCHANGED <<live, cwd>>
      /\ disk' \in [Inums -> Inode]
  BY FrameOf DEF OpenDone, At, Become
<1>2. PICK g \in FreeFiles, d \in FreeFds(p) :
        /\ ftable' = [ftable EXCEPT ![g] = [ref |-> 1, ip |-> k[p].ip]]
        /\ ofile' = [ofile EXCEPT ![p][d] = g]
  BY DEF OpenDone
<1>3. /\ g \in 1..NFILE /\ g \in 0..NFILE /\ d \in 1..NOFILE
      /\ ftable[g].ref = 0 /\ ofile[p][d] = Null
  BY DEF FreeFiles, FreeFds
<1>4. /\ k[p] \in Frame /\ FrameOK(k[p]) /\ Place(k[p]) = "opened"
      /\ TypeOK /\ SameRefs(icache)
  BY <1>1, FrameOf DEF Place, Dropping
<1>5. /\ k[p].ip \in Inums /\ k[p].dp = Null /\ k[p].src = Null
      /\ k[p].drop = Null
  BY <1>1, <1>4
     DEF FrameOK, HasIp, HasDp, HasSrc, OpAt, Dropping, Frame, Pointers
<1>6. ftable[g].ip = Null
  BY <1>3 DEF RefsInv, FilesOK
<1> DEFINE file == [ref |-> 1, ip |-> k[p].ip]
<1>7. /\ file \in [ref : Int, ip : Pointers] /\ file.ip = k[p].ip
      /\ file.ref > 0 <=> file.ip # Null
  BY <1>5 DEF Pointers, Inums, Null
<1>8. \A h \in 1..NFILE :
        ftable'[h].ref = ftable[h].ref + Is(g, h) - Is(ofile[p][d], h)
  BY <1>2, <1>3, <1>4 DEF TypeOK, Is, Null
<1>9. SameRefs(icache')
  BY <1>1, <1>4, <1>5, IunlockRefs
<1> HIDE DEF file
<1>10. \A i \in Inums :
         icache'[i].ref = icache[i].ref + Is(file.ip, i) - Is(ftable[g].ip, i)
           + Points(User, i) - Points(k[p], i)
  <2>1. \A i \in Inums :
          icache[i].ref \in Int /\ icache'[i].ref = icache[i].ref
    BY <1>4, <1>9 DEF TypeOK, Slot, SameRefs
  <2>2. \A i \in Inums : Points(k[p], i) = Is(file.ip, i)
    BY <1>5, <1>7 DEF Points, Is, Inums, Null
  <2>3. \A i \in Inums : Is(ftable[g].ip, i) = 0 /\ Is(file.ip, i) \in Int
    BY <1>6 DEF Is, Inums, Null
  <2> QED BY <2>1, <2>2, <2>3, UserFrame
<1>11. {Place(User), Place(k[p])} \cap {"cd", "dead"} = {}
  BY <1>4, UserFrame
<1>12. /\ icache' \in [Inums -> Slot] /\ User \in Frame /\ FrameOK(User)
       /\ ftable' = [ftable EXCEPT ![g] = file]
       /\ ofile' = [ofile EXCEPT ![p][d] = g]
  BY <1>2, <1>9, UserFrame DEF SameRefs, file
<1>13. Moves(p, User, g, file, d, g)
  BY <1>1, <1>3, <1>7, <1>8, <1>10, <1>11, <1>12 DEF Moves
<1> QED BY <1>13, FileStep

\* dup() counts one more descriptor.
LEMMA DupStep == ASSUME NEW p \in Procs, RefsInv, Dup(p) PROVE RefsInv'
<1>1. /\ p \in live /\ k[p].pc = "user" /\ UNCHANGED <<icache, k, live, cwd>>
      /\ disk' \in [Inums -> Inode]
  BY FrameOf DEF Dup, At
<1>2. PICK d \in 1..NOFILE, e \in 1..NOFILE :
        /\ ofile[p][d] # Null /\ IsFirst(e, FreeFds(p))
        /\ ofile' = [ofile EXCEPT ![p][e] = ofile[p][d]]
        /\ ftable' = [ftable EXCEPT ![ofile[p][d]].ref = @ + 1]
  BY DEF Dup
<1>3. PICK g : g = ofile[p][d]
  OBVIOUS
<1>4. /\ g \in 1..NFILE /\ ftable[g].ref \in Nat /\ ftable[g].ref >= 1
      /\ ftable[g].ip \in Inums
  BY <1>1, <1>2, <1>3, OpenFile
<1> DEFINE file == [ftable[g] EXCEPT !.ref = @ + 1]
<1>5. /\ k[p] \in Frame /\ FrameOK(k[p]) /\ Place(k[p]) = "user"
      /\ TypeOK /\ SameRefs(icache) /\ \A j \in Inums : Points(k[p], j) \in Int
  BY <1>1, FrameOf DEF Place, Dropping
<1>6. /\ file \in [ref : Int, ip : Pointers] /\ file.ip = ftable[g].ip
      /\ file.ref = ftable[g].ref + 1
      /\ file.ref > 0 <=> file.ip # Null
  <2>1. ftable[g] \in [ref : Int, ip : Pointers]
    BY <1>4, <1>5 DEF TypeOK
  <2>2. /\ file \in [ref : Int, ip : Pointers]
        /\ file.ip = ftable[g].ip /\ file.ref = ftable[g].ref + 1
    BY <1>4, <2>1
  <2>3. file.ref > 0 /\ file.ip # Null
    BY <1>4, <2>2 DEF Inums, Null
  <2> QED BY <2>2, <2>3
<1>7. ftable' = [ftable EXCEPT ![g] = file]
  BY <1>2, <1>3, <1>4
<1> HIDE DEF file
<1>8. ofile[p][e] = Null
  BY <1>2 DEF IsFirst, FreeFds
<1>9. \A h \in 1..NFILE :
        ftable'[h].ref = ftable[h].ref + Is(g, h) - Is(ofile[p][e], h)
  BY <1>4, <1>5, <1>6, <1>7, <1>8 DEF TypeOK, Is, Null
<1>10. \A i \in Inums :
         icache'[i].ref = icache[i].ref + Is(file.ip, i) - Is(ftable[g].ip, i)
           + Points(k[p], i) - Points(k[p], i)
  <2>1. \A i \in Inums :
          icache[i].ref \in Int /\ icache'[i].ref = icache[i].ref
    BY <1>1, <1>5 DEF TypeOK, Slot
  <2>2. \A x, i : Is(x, i) \in Int
    BY DEF Is
  <2> QED BY <1>5, <1>6, <2>1, <2>2
<1>11. /\ k' = [k EXCEPT ![p] = k[p]] /\ icache' \in [Inums -> Slot]
       /\ {Place(k[p])} \cap {"cd", "dead"} = {} /\ g \in 0..NFILE
       /\ ofile' = [ofile EXCEPT ![p][e] = g]
  BY <1>1, <1>2, <1>3, <1>4, <1>5 DEF TypeOK
<1>12. {Place(k[p]), Place(k[p])} \cap {"cd", "dead"} = {}
  BY <1>5
<1>13. Moves(p, k[p], g, file, e, g)
  BY <1>1, <1>4, <1>5, <1>6, <1>7, <1>9, <1>10, <1>11, <1>12 DEF Moves
<1> QED BY <1>13, FileStep

\* fileclose() of one descriptor, by close() or exit().
LEMMA CloseStep ==
  ASSUME NEW p \in live, NEW d \in 1..NOFILE, NEW l \in {"user", "exit"},
         RefsInv, k[p].pc \in {"user", "exit"}, ofile[p][d] # Null,
         Close(p, d, l)
  PROVE  RefsInv'
<1>1. PICK g : g = ofile[p][d]
  OBVIOUS
<1>2. /\ g \in 1..NFILE /\ ftable[g].ref \in Nat /\ ftable[g].ref >= 1
      /\ ftable[g].ip \in Inums
  BY <1>1, OpenFile
<1>3. /\ k[p] \in Frame /\ FrameOK(k[p]) /\ Place(k[p]) \in {"user", "exit"}
      /\ TypeOK /\ disk \in [Inums -> Inode] /\ icache \in [Inums -> Slot]
  BY FrameOf DEF Place, Dropping
<1>4. \A j \in Inums : Points(k[p], j) = 0
  <2>1. /\ k[p].ip = Null /\ k[p].dp = Null /\ k[p].src = Null
        /\ k[p].drop = Null
    BY <1>3 DEF FrameOK, HasIp, HasDp, HasSrc, Dropping
  <2> QED BY <2>1 DEF Points, Is, Inums, Null
<1> DEFINE file == IF ftable[g].ref > 1 THEN [ftable[g] EXCEPT !.ref = @ - 1]
                   ELSE NoFile
           f == IF ftable[g].ref > 1
                THEN IF l = "user" THEN User ELSE [User EXCEPT !.pc = l]
                ELSE Drop(User, ftable[g].ip, l)
<1>5. /\ ofile' = [ofile EXCEPT ![p][d] = Null]
      /\ UNCHANGED <<disk, icache, live, cwd>>
  BY DEF Close
<1>6. /\ ftable' = [ftable EXCEPT ![g] = file] /\ k' = [k EXCEPT ![p] = f]
  BY <1>1, <1>2 DEF Close, Become
<1>7. /\ file \in [ref : Int, ip : Pointers]
      /\ file.ref = ftable[g].ref - 1
      /\ file.ref > 0 <=> file.ip # Null
      /\ ftable[g].ref > 1 => file.ip = ftable[g].ip
      /\ ~(ftable[g].ref > 1) => file.ip = Null
  BY <1>2, <1>3 DEF TypeOK, NoFile, Pointers, Inums, Null
<1>8. /\ f \in Frame /\ f.ip = Null /\ f.dp = Null /\ f.src = Null
      /\ f.pc \in {"user", "exit", "put"} /\ Place(f) = l
      /\ ftable[g].ref > 1 => f.pc = l /\ f.drop = Null
      /\ ~(ftable[g].ref > 1) => f.pc = "put" /\ f.drop = ftable[g].ip
  BY <1>2, UserFrame
     DEF User, Drop, Frame, Places, Place, Dropping, Pointers
<1> HIDE DEF file, f
<1>9. FrameOK(f)
  BY <1>2, <1>8
     DEF FrameOK, HasIp, HasDp, HasSrc, OpAt, Dropping, Inums, Null
<1>10. \A h \in 1..NFILE :
         ftable'[h].ref = ftable[h].ref + Is(Null, h) - Is(ofile[p][d], h)
  BY <1>1, <1>2, <1>3, <1>6, <1>7 DEF TypeOK, Is, Null
<1>11. \A i \in Inums :
         icache'[i].ref = icache[i].ref + Is(file.ip, i) - Is(ftable[g].ip, i)
           + Points(f, i) - Points(k[p], i)
  <2>1. \A i \in Inums :
          icache[i].ref \in Int /\ icache'[i].ref = icache[i].ref
    BY <1>3, <1>5 DEF Slot
  <2>2. \A i \in Inums : Points(f, i) + Is(file.ip, i) = Is(ftable[g].ip, i)
    BY <1>7, <1>8 DEF Points, Is, Inums, Null
  <2>3. \A x, i : Is(x, i) \in Int /\ Points(x, i) \in Int
    BY DEF Is, Points
  <2> QED BY <1>4, <2>1, <2>2, <2>3
<1>12. {Place(f), Place(k[p])} \cap {"cd", "dead"} = {}
  BY <1>3, <1>8
<1>13. Null \in 0..NFILE
  BY NumberAssumption DEF Null
<1>14. Moves(p, f, g, file, d, Null)
  BY <1>2, <1>3, <1>5, <1>6, <1>7, <1>8, <1>9, <1>10, <1>11, <1>12, <1>13
     DEF Moves
<1> QED BY <1>14, FileStep

\* close().
LEMMA SysCloseStep ==
  ASSUME NEW p \in Procs, RefsInv, SysClose(p) PROVE RefsInv'
<1>1. p \in live /\ k[p].pc \in {"user", "exit"}
  BY DEF SysClose, At
<1>2. PICK d \in 1..NOFILE : ofile[p][d] # Null /\ Close(p, d, "user")
  BY DEF SysClose
<1> QED BY <1>1, <1>2, CloseStep

\* exit() closes a file.
LEMMA ExitCloseStep ==
  ASSUME NEW p \in Procs, RefsInv, ExitClose(p) PROVE RefsInv'
<1>1. p \in live /\ k[p].pc \in {"user", "exit"}
  BY DEF ExitClose, At
<1>2. PICK d \in 1..NOFILE : ofile[p][d] # Null /\ Close(p, d, "exit")
  BY DEF ExitClose, IsFirst
<1> QED BY <1>1, <1>2, CloseStep

-----------------------------------------------------------------------------
(* Processes come and go.                                                  *)

\* Files and descriptors are finitely many.
LEMMA TablesFinite == IsFiniteSet(1..NFILE) /\ IsFiniteSet(1..NOFILE)
<1>1. 1 \in Int /\ NFILE \in Int /\ NOFILE \in Int
  BY NumberAssumption
<1> QED BY ONLY <1>1, FS_Interval

\* fork() adds the descriptors of the child to those of the parent.
LEMMA ForkedFiles ==
  ASSUME TypeOK, ProcsOK, NEW p \in live, NEW q \in Procs, q \notin live,
         live' = live \cup {q}, ofile' = [ofile EXCEPT ![q] = ofile[p]],
         NEW h \in 1..NFILE
  PROVE  Cardinality(Descriptors(h)') =
           Cardinality(Descriptors(h))
             + Cardinality({d \in 1..NOFILE : ofile[p][d] = h})
<1> DEFINE D == {d \in 1..NOFILE : ofile[p][d] = h}
           A == Descriptors(h)
           B == {q} \X D
<1>1. /\ ofile'[q] = ofile[p] /\ \A r \in live : ofile'[r] = ofile[r]
      /\ live \subseteq Procs
  BY DEF TypeOK
<1>2. Descriptors(h)' = A \cup B
  BY <1>1 DEF Descriptors
<1>3. A \cap B = {}
  BY DEF Descriptors
<1>4. IsFiniteSet(A) /\ Cardinality(A) \in Nat
  BY DescriptorsFinite
<1>5. IsFiniteSet(D) /\ Cardinality(D) \in Nat
  <2>1. IsFiniteSet(1..NOFILE)
    BY TablesFinite
  <2> QED BY <2>1, FS_Subset, FS_CardinalityType
<1> HIDE DEF A, D
<1>6. IsFiniteSet(B) /\ Cardinality(B) = Cardinality(D)
  <2>1. IsFiniteSet({q}) /\ Cardinality({q}) = 1
    BY FS_Singleton
  <2>2. IsFiniteSet(B) /\ Cardinality(B) = Cardinality({q}) * Cardinality(D)
    BY <1>5, <2>1, FS_Product
  <2> QED BY <1>5, <2>1, <2>2
<1> HIDE DEF B
<1>7. Cardinality(A \cup B) =
        Cardinality(A) + Cardinality(B) - Cardinality(A \cap B)
  BY <1>4, <1>6, FS_Union
<1>8. Cardinality(A \cap B) = 0
  BY <1>3, FS_EmptySet
<1>9. Cardinality(Descriptors(h)') = Cardinality(A) + Cardinality(D)
  BY <1>2, <1>4, <1>5, <1>6, <1>7, <1>8
<1> QED BY <1>9 DEF A, D

\* And a directory.
LEMMA ForkedRefs ==
  ASSUME TypeOK, ProcsOK, FilesOK, TypeOK', ProcsOK', FilesOK',
         NEW q \in Procs, k' = k, Differ(Procs, cwd, cwd', q), cwd[q] = Null,
         \A f \in 1..NFILE : ftable'[f].ip = ftable[f].ip
  PROVE  \A i \in Inums : References(i)' = References(i) + Is(cwd'[q], i)
<1> TAKE i \in Inums
<1>1. References(i) = Total(ftable, cwd, k, i)
  BY Totals DEF TotalsOK
<1>2. References(i)' = Total(ftable', cwd', k', i)
  <2>1. TotalsOK'
    BY Totals, PTL
  <2> QED BY <2>1 DEF TotalsOK
<1>3. Held(Slots, ftable', "ip", i) = Held(Slots, ftable, "ip", i)
  BY DEF Held, Slots
<1>4. Holders(Procs, cwd', i) =
        Holders(Procs, cwd, i) + Is(Val(cwd', q), i) - Is(Val(cwd, q), i)
  BY ProcAssumption, HolderCounts
<1>5. /\ Is(Val(cwd, q), i) = 0 /\ Is(Val(cwd', q), i) = Is(cwd'[q], i)
      /\ Is(cwd'[q], i) \in Int
  BY DEF Is, Val, Inums, Null
<1>6. /\ Held(Slots, ftable, "ip", i) \in Nat /\ Holders(Procs, cwd, i) \in Nat
      /\ \A v : Held(Procs, k, v, i) \in Nat
  <2>1. IsFiniteSet(Procs) /\ IsFiniteSet(Slots)
    BY ProcAssumption, TablesFinite DEF Slots
  <2> QED BY <2>1, HolderNat
<1>7. /\ Held(Procs, k, "ip", i) \in Nat /\ Held(Procs, k, "dp", i) \in Nat
      /\ Held(Procs, k, "src", i) \in Nat /\ Held(Procs, k, "drop", i) \in Nat
  BY <1>6
<1>8. /\ References(i) =
           Held(Slots, ftable, "ip", i) + Holders(Procs, cwd, i)
             + Held(Procs, k, "ip", i) + Held(Procs, k, "dp", i)
             + Held(Procs, k, "src", i) + Held(Procs, k, "drop", i)
      /\ References(i)' =
           Held(Slots, ftable, "ip", i) + Holders(Procs, cwd', i)
             + Held(Procs, k, "ip", i) + Held(Procs, k, "dp", i)
             + Held(Procs, k, "src", i) + Held(Procs, k, "drop", i)
  BY <1>1, <1>2, <1>3 DEF Total
<1> QED BY <1>4, <1>5, <1>6, <1>7, <1>8

\* fork().
LEMMA ForkStep ==
  ASSUME NEW p \in Procs, NEW q \in Procs, RefsInv, Fork(p, q)
  PROVE  RefsInv'
<1> DEFINE Count(f) == Cardinality({d \in 1..NOFILE : ofile[p][d] = f})
<1>1. /\ p \in live /\ k[p].pc = "user" /\ q \notin live
      /\ live' = live \cup {q} /\ cwd' = [cwd EXCEPT ![q] = cwd[p]]
      /\ ofile' = [ofile EXCEPT ![q] = ofile[p]]
      /\ ftable' = [f \in 1..NFILE |->
                      [ftable[f] EXCEPT !.ref = @ + Count(f)]]
      /\ icache' = iget(icache, cwd[p]) /\ disk' = disk /\ k' = k
  BY DEF Fork, At
<1>2. /\ TypeOK /\ ProcsOK /\ FilesOK /\ FramesOK /\ SameRefs(icache)
      /\ Place(k[p]) = "user" /\ Place(k[q]) = "user" /\ k[q] = User
      /\ cwd[q] = Null
  <2>1. /\ TypeOK /\ ProcsOK /\ FilesOK /\ FramesOK /\ SameRefs(icache)
    BY <1>1, FrameOf DEF RefsInv
  <2> QED BY <1>1, <2>1, UserFrame DEF ProcsOK, Place, Dropping
<1>3. cwd[p] \in Inums
  BY <1>1, <1>2 DEF ProcsOK, TypeOK, Pointers
<1>4. /\ icache' \in [Inums -> Slot]
      /\ \A i \in Inums : icache'[i].ref = icache[i].ref + Is(cwd[p], i)
  BY <1>1, <1>2, <1>3, IgetRefs
<1>5. \A f \in 1..NFILE :
        /\ Count(f) \in Nat
        /\ Count(f) > 0 => ftable[f].ref > 0
  <2> TAKE f \in 1..NFILE
  <2>1. IsFiniteSet(1..NOFILE)
    BY TablesFinite
  <2> DEFINE D == {d \in 1..NOFILE : ofile[p][d] = f}
  <2>2. IsFiniteSet(D) /\ Cardinality(D) \in Nat
    BY <2>1, FS_Subset, FS_CardinalityType
  <2>3. ASSUME Count(f) > 0 PROVE ftable[f].ref > 0
    <3>1. D # {}
      BY <2>3, FS_EmptySet
    <3>2. PICK d \in 1..NOFILE : ofile[p][d] = f
      BY <3>1
    <3>3. ofile[p][d] # Null
      BY <3>2 DEF Null
    <3>4. ftable[ofile[p][d]].ref \in Nat /\ ftable[ofile[p][d]].ref >= 1
      BY <1>1, <3>3, OpenFile
    <3> QED BY <3>2, <3>4
  <2> QED BY <2>2, <2>3
<1> HIDE DEF Count
<1>6. \A f \in 1..NFILE :
        /\ ftable[f].ref \in Int /\ ftable'[f].ip = ftable[f].ip
        /\ ftable'[f].ref = ftable[f].ref + Count(f)
        /\ ftable'[f] \in [ref : Int, ip : Pointers]
  BY <1>1, <1>2, <1>5 DEF TypeOK
<1>7. TypeOK'
  <2>1. ftable' \in [1..NFILE -> [ref : Int, ip : Pointers]]
    BY <1>1, <1>6
  <2>2. /\ cwd' \in [Procs -> Pointers]
        /\ ofile' \in [Procs -> [1..NOFILE -> 0..NFILE]]
        /\ live' \in SUBSET Procs
    BY <1>1, <1>2 DEF TypeOK
  <2> QED BY <1>1, <1>2, <1>4, <2>1, <2>2 DEF TypeOK
<1>8. FramesOK'
  BY <1>1, <1>2 DEF FramesOK, FrameOK, Place, HasIp, HasDp, HasSrc, OpAt
<1>9. ProcsOK'
  <2> SUFFICES ASSUME NEW r \in Procs
               PROVE  /\ r \notin live' => k[r] = User
                      /\ cwd'[r] = Null <=>
                           r \notin live' \/ Place(k[r]) \in {"cd", "dead"}
                      /\ r \notin live' \/ Place(k[r]) = "dead" =>
                           \A d \in 1..NOFILE : ofile'[r][d] = Null
    BY <1>1 DEF ProcsOK, Place, User
  <2>1. CASE r = q
    <3>1. r \in live' /\ cwd'[r] = cwd[p] /\ Place(k[r]) = "user"
      BY <2>1, <1>1, <1>2 DEF TypeOK
    <3> QED BY <1>3, <3>1 DEF Inums, Null
  <2>2. CASE r # q
    <3>1. /\ r \in live' <=> r \in live
          /\ cwd'[r] = cwd[r] /\ ofile'[r] = ofile[r]
      BY <2>2, <1>1, <1>2 DEF TypeOK
    <3> QED BY <1>2, <3>1 DEF ProcsOK
  <2> QED BY <2>1, <2>2
<1>10. FilesOK'
  <2>1. \A f \in 1..NFILE : ftable'[f].ref > 0 <=> ftable'[f].ip # Null
    BY <1>2, <1>5, <1>6 DEF FilesOK
  <2> QED BY <2>1 DEF FilesOK
<1>11. FileRefs'
  <2> SUFFICES ASSUME NEW f \in 1..NFILE
               PROVE  ftable'[f].ref = Cardinality(Descriptors(f)')
    BY DEF FileRefs
  <2>1. Cardinality(Descriptors(f)') = Cardinality(Descriptors(f)) + Count(f)
    BY <1>1, <1>2, ForkedFiles DEF Count
  <2>2. ftable[f].ref = Cardinality(Descriptors(f))
    BY DEF RefsInv, FileRefs
  <2> QED BY <1>6, <2>1, <2>2
<1>12. InodeRefs'
  <2>1. Differ(Procs, cwd, cwd', q) /\ cwd'[q] = cwd[p]
    BY <1>1, <1>2 DEF Differ, TypeOK
  <2>2. \A i \in Inums : References(i)' = References(i) + Is(cwd'[q], i)
    BY <1>1, <1>2, <1>6, <1>7, <1>9, <1>10, <2>1, ForkedRefs
  <2>3. \A i \in Inums : icache[i].ref = References(i)
    BY DEF RefsInv, InodeRefs
  <2>4. \A i \in Inums : icache'[i].ref = References(i)'
    BY <1>4, <2>1, <2>2, <2>3
  <2> QED BY <2>4 DEF InodeRefs
<1> QED BY <1>7, <1>8, <1>9, <1>10, <1>11, <1>12 DEF RefsInv

\* The process is gone.
LEMMA ExitDoneStep ==
  ASSUME NEW p \in Procs, RefsInv, ExitDone(p) PROVE RefsInv'
<1>1. /\ p \in live /\ k[p].pc = "dead" /\ live' = live \ {p}
      /\ k' = [k EXCEPT ![p] = User]
      /\ UNCHANGED <<disk, icache, ftable, cwd, ofile>>
  BY DEF ExitDone, At, Become
<1>2. /\ k[p] \in Frame /\ FrameOK(k[p]) /\ Place(k[p]) = "dead"
      /\ TypeOK /\ ProcsOK /\ FilesOK /\ FramesOK
  BY <1>1, FrameOf DEF Place, Dropping, RefsInv
<1>3. /\ cwd[p] = Null /\ \A d \in 1..NOFILE : ofile[p][d] = Null
      /\ k'[p] = User /\ \A q \in Procs \ {p} : k'[q] = k[q]
      /\ k' \in [Procs -> Frame]
  BY <1>1, <1>2, UserFrame DEF ProcsOK, TypeOK
<1>4. TypeOK'
  BY <1>1, <1>2, <1>3 DEF TypeOK
<1>5. FramesOK'
  <2>1. \A q \in Procs : FrameOK(k'[q])
    BY <1>2, <1>3, UserFrame DEF FramesOK
  <2> QED BY <2>1 DEF FramesOK, FrameOK, Place, HasIp, HasDp, HasSrc, OpAt
<1>6. ProcsOK'
  <2> SUFFICES ASSUME NEW q \in Procs
               PROVE  /\ q \notin live' => k'[q] = User
                      /\ cwd[q] = Null <=>
                           q \notin live' \/ Place(k'[q]) \in {"cd", "dead"}
                      /\ q \notin live' \/ Place(k'[q]) = "dead" =>
                           \A d \in 1..NOFILE : ofile[q][d] = Null
    BY <1>1 DEF ProcsOK, Place, User
  <2>1. CASE q = p
    BY <2>1, <1>1, <1>3
  <2>2. CASE q # p
    BY <2>2, <1>1, <1>2, <1>3 DEF ProcsOK
  <2> QED BY <2>1, <2>2
<1>7. FilesOK'
  BY <1>1, <1>2 DEF FilesOK
<1>8. FileRefs'
  <2> SUFFICES ASSUME NEW h \in 1..NFILE
               PROVE  ftable[h].ref = Cardinality(Descriptors(h)')
    BY <1>1 DEF FileRefs
  <2>1. Descriptors(h)' = Descriptors(h)
    BY <1>1, <1>3 DEF Descriptors, Null
  <2> QED BY <2>1 DEF RefsInv, FileRefs
<1>9. InodeRefs'
  <2> SUFFICES ASSUME NEW i \in Inums
               PROVE  icache[i].ref = References(i)'
    BY <1>1 DEF InodeRefs
  <2>1. References(i) \in Nat /\ icache[i].ref = References(i)
    BY RefsNat DEF RefsInv, InodeRefs
  <2>2. PICK g : g \in Slots
    BY NumberAssumption DEF Slots
  <2>3. /\ Differ(Procs, k, k', p) /\ Differ(Procs, cwd, cwd', p)
        /\ Differ(Slots, ftable, ftable', g)
    BY <1>1, <1>3, <2>2 DEF Differ
  <2>4. References(i)' =
          References(i)
            + Is(Field(ftable', g, "ip"), i) - Is(Field(ftable, g, "ip"), i)
            + Is(Val(cwd', p), i) - Is(Val(cwd, p), i)
            + Points(Val(k', p), i) - Points(Val(k, p), i)
    BY ONLY <1>2, <1>4, <1>6, <1>7, <2>3, RefsChange
  <2>5. /\ Field(ftable', g, "ip") = Field(ftable, g, "ip")
        /\ Val(cwd', p) = Val(cwd, p) /\ Val(k', p) = User
        /\ Val(k, p) = k[p]
    BY <1>1, <1>3 DEF Field, Val
  <2>6. /\ k[p].ip = Null /\ k[p].dp = Null /\ k[p].src = Null
        /\ k[p].drop = Null
    BY <1>1, <1>2 DEF FrameOK, HasIp, HasDp, HasSrc, Dropping
  <2>7. Points(k[p], i) = 0 /\ Points(User, i) = 0
    BY <2>6, UserFrame DEF Points, Is, Inums, Null
  <2>8. \A x : Is(x, i) \in Int
    BY DEF Is
  <2> QED BY <2>1, <2>4, <2>5, <2>7, <2>8
<1> QED BY <1>4, <1>5, <1>6, <1>7, <1>8, <1>9 DEF RefsInv

\* Processes have directories, and nothing else is in memory.
Fresh ==
  /\ disk \in [Inums -> Inode] /\ cwd \in [Procs -> Pointers]
  /\ live = {p \in Procs : cwd[p] # Null} /\ icache = Idle(cwd, disk)
  /\ ftable = NoFiles /\ ofile = NoDescriptors /\ k = AllUser

\* Then the counts are those of the directories.
FreshOK == Fresh => RefsInv

\* At a start RefsInv holds.
LEMMA FreshRefs == FreshOK
<1> SUFFICES ASSUME Fresh PROVE RefsInv
  BY DEF FreshOK
<1>1. \A p \in Procs : k[p] = User /\ \A d \in 1..NOFILE : ofile[p][d] = Null
  BY DEF Fresh, AllUser, NoDescriptors
<1>2. \A f \in 1..NFILE : ftable[f].ref = 0 /\ ftable[f].ip = Null
  BY DEF Fresh, NoFiles, NoFile
<1> DEFINE n(i) == Cardinality({p \in Procs : cwd[p] = i})
<1>3. \A i \in Inums : icache[i] \in Slot /\ icache[i].ref = n(i)
  <2> SUFFICES ASSUME NEW i \in Inums
               PROVE  icache[i] \in Slot /\ icache[i].ref = n(i)
    OBVIOUS
  <2>1. n(i) \in Int
    BY ProcAssumption, FS_Subset, FS_CardinalityType
  <2>2. disk[i] \in Inode
    BY DEF Fresh
  <2>3. icache[i] = IF n(i) = 0 \/ i = Root THEN [Uncached EXCEPT !.ref = n(i)]
                    ELSE [Uncached EXCEPT !.ref = n(i), !.valid = TRUE,
                            !.type = disk[i].type, !.nlink = disk[i].nlink]
    BY DEF Fresh, Idle
  <2> HIDE DEF n
  <2> QED BY <2>1, <2>2, <2>3, UncachedSlot DEF Slot, Inode
<1>4. icache \in [Inums -> Slot]
  <2>1. DOMAIN icache = Inums /\ icache = [i \in Inums |-> icache[i]]
    BY DEF Fresh, Idle
  <2> QED BY <1>3, <2>1
<1>5. TypeOK
  <2>1. k \in [Procs -> Frame]
    BY UserFrame DEF Fresh, AllUser
  <2>2. ftable \in [1..NFILE -> [ref : Int, ip : Pointers]]
    BY DEF Fresh, NoFiles, NoFile, Pointers
  <2>3. ofile \in [Procs -> [1..NOFILE -> 0..NFILE]]
    BY NumberAssumption DEF Fresh, NoDescriptors, Null
  <2>4. live \in SUBSET Procs
    BY DEF Fresh
  <2> QED BY <1>4, <2>1, <2>2, <2>3, <2>4 DEF TypeOK, Fresh
<1>6. FramesOK
  BY <1>1, UserFrame DEF FramesOK
<1>7. ProcsOK
  <2>1. \A p \in Procs : Place(k[p]) = "user"
    BY <1>1, UserFrame
  <2> QED BY <1>1, <2>1 DEF ProcsOK, Fresh
<1>8. FilesOK
  BY <1>2 DEF FilesOK
<1>9. FileRefs
  <2> SUFFICES ASSUME NEW h \in 1..NFILE
               PROVE  ftable[h].ref = Cardinality(Descriptors(h))
    BY DEF FileRefs
  <2>1. Descriptors(h) = {}
    BY <1>1 DEF Descriptors, Fresh, Null
  <2> QED BY <1>2, <2>1, FS_EmptySet
<1>10. InodeRefs
  <2> SUFFICES ASSUME NEW i \in Inums
               PROVE  icache[i].ref = References(i)
    BY DEF InodeRefs
  <2>1. Opened(i) = {} /\ Inside(i) = {p \in Procs : cwd[p] = i}
    BY <1>2 DEF Opened, Inside, Fresh, Inums, Null
  <2>2. /\ Using("ip", i) = {} /\ Using("dp", i) = {}
        /\ Using("src", i) = {} /\ Using("drop", i) = {}
    BY <1>1 DEF Using, User, Fresh, Inums, Null
  <2>3. n(i) \in Int
    BY ProcAssumption, FS_Subset, FS_CardinalityType
  <2> QED BY <1>3, <2>1, <2>2, <2>3, FS_EmptySet DEF References
<1> QED BY <1>5, <1>6, <1>7, <1>8, <1>9, <1>10 DEF RefsInv

\* Power fails, and the kernel boots.
LEMMA CrashStep == ASSUME RefsInv, Crash PROVE RefsInv'
<1>1. FreshOK'
  BY FreshRefs, PTL
<1>2. /\ InitAlone \in [Procs -> Pointers]
      /\ {First} = {p \in Procs : InitAlone[p] # Null}
  BY ProcAssumption, NumberAssumption
     DEF InitAlone, Pointers, Inums, Root, Null
<1>3. Fresh'
  BY <1>2 DEF Crash, Fresh, RefsInv, TypeOK
<1> QED BY <1>1, <1>3 DEF FreshOK

\* The system starts.
LEMMA InitRefs == ASSUME Init PROVE RefsInv
<1>1. PICK s \in Starts :
        /\ disk = s.disk /\ cwd = s.cwd /\ icache = Idle(s.cwd, s.disk)
        /\ live = {p \in Procs : s.cwd[p] # Null}
        /\ ftable = NoFiles /\ ofile = NoDescriptors /\ k = AllUser
  BY DEF Init
<1>2. s.disk \in [Inums -> DiskInode] /\ s.cwd \in [Procs -> Pointers]
  BY StartAssumption
<1>3. DiskInode \subseteq Inode
  BY DEF DiskInode, Inode
<1>4. Fresh
  BY <1>1, <1>2, <1>3 DEF Fresh
<1> QED BY <1>4, FreshRefs DEF FreshOK

-----------------------------------------------------------------------------
(* The invariant.                                                          *)

\* Every step of a process keeps it.
LEMMA ProcessStep ==
  ASSUME NEW p \in Procs, RefsInv, Step(p) PROVE RefsInv'
<1>1. CASE \E r \in Requests : Call(p, r)
  BY <1>1, CallStep
<1>2. CASE IlockPanic(p)
  BY <1>2, IlockPanicStep
<1>3. CASE Put(p) \/ PutUnused(p) \/ Trunc(p) \/ FreeOnDisk(p) \/ Freed(p)
  BY <1>3, PutStep, PutUnusedStep, TruncStep, FreeOnDiskStep, FreedStep
<1>4. CASE WalkEnd(p) \/ WalkFails(p) \/ WalkStops(p) \/ WalkOn(p)
  BY <1>4, WalkEndStep, WalkFailsStep, WalkStopsStep, WalkOnStep
<1>5. CASE OpenLock(p) \/ OpenDone(p) \/ OpenFails(p)
  BY <1>5, OpenLockStep, OpenDoneStep, OpenFailsStep
<1>6. CASE CreateFinds(p) \/ CreateFound(p) \/ CreateAlloc(p) \/ CreateInit(p)
  BY <1>6, CreateFindsStep, CreateFoundStep, CreateAllocStep, CreateInitStep
<1>7. CASE CreateCount(p) \/ CreateDots(p) \/ CreateEnter(p) \/ Made(p)
  BY <1>7, CreateCountStep, CreateDotsStep, CreateEnterStep, MadeStep
<1>8. CASE UnlinkFails(p) \/ UnlinkFinds(p) \/ UnlinkErase(p)
           \/ UnlinkGivesUp(p)
  BY <1>8, UnlinkFailsStep, UnlinkFindsStep, UnlinkEraseStep,
     UnlinkGivesUpStep
<1>9. CASE UnlinkCount(p) \/ UnlinkDone(p) \/ Rest(p)
  BY <1>9, UnlinkCountStep, UnlinkDoneStep, RestStep
<1>10. CASE LinkFails(p) \/ LinkCount(p) \/ LinkEnter(p)
  BY <1>10, LinkFailsStep, LinkCountStep, LinkEnterStep
<1>11. CASE LinkExists(p) \/ LinkGivesUp(p) \/ LinkBad(p)
  BY <1>11, LinkExistsStep, LinkGivesUpStep, LinkBadStep
<1>12. CASE Chdir(p) \/ ChdirDone(p) \/ Exec(p) \/ Dup(p) \/ SysClose(p)
  BY <1>12, ChdirStep, ChdirDoneStep, ExecStep, DupStep, SysCloseStep
<1>13. CASE \E q \in Procs : Fork(p, q)
  BY <1>13, ForkStep
<1>14. CASE ExitCall(p) \/ ExitClose(p) \/ ExitDrop(p) \/ ExitDone(p)
  BY <1>14, ExitCallStep, ExitCloseStep, ExitDropStep, ExitDoneStep
<1> QED BY <1>1, <1>2, <1>3, <1>4, <1>5, <1>6, <1>7, <1>8, <1>9, <1>10, <1>11,
           <1>12, <1>13, <1>14 DEF Step

\* And one that changes nothing.
LEMMA RefsStutter == ASSUME RefsInv, UNCHANGED vars PROVE RefsInv'
<1>1. UNCHANGED <<disk, icache, ftable, live, cwd, ofile, k>>
  BY DEF vars, procVars
<1>2. TypeOK' /\ FramesOK' /\ ProcsOK'
  BY <1>1 DEF RefsInv, TypeOK, FramesOK, ProcsOK, FrameOK, Place, HasIp, HasDp,
              HasSrc, OpAt
<1>3. InodeRefs' /\ FileRefs' /\ FilesOK'
  BY <1>1 DEF RefsInv, InodeRefs, References, Opened, Inside, Using,
              FileRefs, FilesOK, Descriptors
<1> QED BY <1>2, <1>3 DEF RefsInv

(* Whatever calls the processes make, in whatever order their steps come,  *)
(* and whenever the power fails: the variables of the calls on their way   *)
(* hold the pointers their labels say, and icache and ftable count them.   *)
(* (iget, iput, iunlockput, fileclose and the error paths of sysfile.c)    *)
THEOREM FileSysRefs == Spec => []RefsInv
<1>1. Init => RefsInv
  BY InitRefs
<1>2. RefsInv /\ [Next]_vars => RefsInv'
  BY ProcessStep, CrashStep, RefsStutter DEF Next
<1> QED BY <1>1, <1>2, PTL DEF Spec

(* Every reference counted in icache and in ftable is a pointer somebody   *)
(* has, and is counted once.  (iget, idup, iput, filedup, fileclose)       *)
THEOREM FileSysRefsExact == Spec => []RefsExact
<1>1. RefsInv => RefsExact
  BY DEF RefsInv, InodeRefs, FileRefs, Descriptors, RefsExact
<1> QED BY <1>1, FileSysRefs, PTL

=============================================================================
