----------------------------- MODULE Pipe_proofs -----------------------------
(***************************************************************************)
(* Proofs, for any number of processes, any size of the ring and any width *)
(* of its counters, of the safety properties of Pipe and that it           *)
(* implements PipeFifo.  The inductive invariant is IInv.                  *)
(***************************************************************************)
EXTENDS Pipe, FiniteSetTheorems, SequenceTheorems, TLAPS

Writing == {"write", "wsleep", "wwait"}
Reading == {"read", "rsleep", "rwait"}
Labels == {"user", "close_r", "close_w", "kfree"} \cup Writing \cup Reading

Open(e) == IF e = "r" THEN ropen ELSE wopen
Holders(e) == {p \in Procs : e \in fds[p] \cup todo[p]}

\* The types of all but the contents of the ring and of what is read.
Types ==
  /\ page \in {"none", "used", "freed"} /\ plock \in Procs \cup {NoProc}
  /\ nread \in 0..WRAP-1 /\ nwrite \in 0..WRAP-1
  /\ ropen \in BOOLEAN /\ wopen \in BOOLEAN
  /\ ref \in [Ends -> Int] /\ fds \in [Procs -> SUBSET Ends]
  /\ live \subseteq Procs /\ killed \in [Procs -> BOOLEAN]
  /\ pc \in [Procs -> Labels]
  /\ todo \in [Procs -> SUBSET Ends]
  /\ buf \in [Procs -> Seq(Bytes)] /\ want \in [Procs -> 0..MAXIO]
  /\ quiet \in BOOLEAN

\* The files of the pipe count the descriptors there are.
RefInv ==
  /\ \A e \in Ends : ref[e] = Cardinality(Holders(e))
  /\ \A p \in Procs : fds[p] \cap todo[p] = {} /\ (p \notin live => fds[p] = {})

\* Who reads or writes has a descriptor; who is asleep or about to be holds
\* the lock, or waits.
CallInv ==
  /\ \A p \in Procs :
       /\ pc[p] \in Writing => "w" \in fds[p]
       /\ pc[p] \in Reading => "r" \in fds[p]
  /\ \A p \in Procs : pc[p] \in {"wsleep", "rsleep"} <=> plock = p

\* An end is open as long as there are descriptors of it, and until the one
\* process that drops the last has closed it; then one process frees the page.
CloseInv ==
  /\ page # "used" => \A p \in Procs :
       fds[p] = {} /\ todo[p] = {} /\ pc[p] = "user"
  /\ page = "none" => ropen /\ wopen /\ nread = 0 /\ nwrite = 0
  /\ page = "freed" => ~ropen /\ ~wopen
  /\ \A e \in Ends : page = "used" =>
       (Open(e) <=> Holders(e) # {} \/ \E p \in Procs : pc[p] = Closing(e))
  /\ \A e \in Ends, p \in Procs : pc[p] = Closing(e) =>
       Holders(e) = {} /\ \A q \in Procs : pc[q] = Closing(e) => q = p
  /\ \A p \in Procs : pc[p] = "kfree" =>
       ~ropen /\ ~wopen /\ \A q \in Procs : pc[q] = "kfree" => q = p

Shared == RefInv /\ CallInv /\ CloseInv

-----------------------------------------------------------------------------
LEMMA EndFacts ==
  /\ \A e \in Ends : e = "r" \/ e = "w"
  /\ "r" \in Ends /\ "w" \in Ends
  /\ Closing("r") = "close_r" /\ Closing("w") = "close_w"
BY DEF Ends, Closing

\* Unsigned sums are counters.
LEMMA PlusType ==
  ASSUME NEW n \in Int, NEW k \in Int
  PROVE  Plus(n, k) \in 0..WRAP-1
BY RingAssumption DEF Plus

LEMMA RoomType ==
  ASSUME Types
  PROVE  Room \in 0..WRAP-1 /\ Count \in 0..WRAP-1
BY RingAssumption DEF Types, Room, Count

LEMMA BufType ==
  ASSUME NEW s \in Seq(Bytes), NEW k \in Nat, k < Len(s)
  PROVE  SubSeq(s, k + 1, Len(s)) \in Seq(Bytes)
OBVIOUS

LEMMA BufRest ==
  ASSUME Types, NEW p \in Procs, Len(buf[p]) > Room
  PROVE  SubSeq(buf[p], Room + 1, Len(buf[p])) \in Seq(Bytes)
BY RoomType, BufType DEF Types

\* Wakeups keep the labels, and change only where sleepers are.
LEMMA WokenType ==
  ASSUME Types, NEW p \in Procs, NEW l \in Labels,
         NEW chans \in SUBSET {"rwait", "wwait"}
  PROVE  /\ Woken(chans, p, l) \in [Procs -> Labels]
         /\ Woken(chans, p, l)[p] = l
         /\ \A q \in Procs : q # p =>
              \/ Woken(chans, p, l)[q] = pc[q] /\ pc[q] \notin chans
              \/ pc[q] = "rwait" /\ Woken(chans, p, l)[q] = "read"
              \/ pc[q] = "wwait" /\ Woken(chans, p, l)[q] = "write"
BY DEF Types, Woken, Resumed, Labels, Reading, Writing

LEMMA TypesInit == Init => Types
<1> SUFFICES ASSUME Init PROVE Types
  OBVIOUS
<1>1. 0 \in 0..WRAP-1 /\ 0 \in 0..MAXIO
  BY RingAssumption
<1>2. fds \in [Procs -> SUBSET Ends] /\ todo \in [Procs -> SUBSET Ends]
  BY DEF Init
<1>3. pc \in [Procs -> Labels] /\ buf \in [Procs -> Seq(Bytes)]
  BY DEF Init, Labels
<1>4. /\ ref \in [Ends -> Int] /\ killed \in [Procs -> BOOLEAN]
      /\ live \subseteq Procs /\ want \in [Procs -> 0..MAXIO]
  BY <1>1, ProcAssumption DEF Init
<1>5. nread \in 0..WRAP-1 /\ nwrite \in 0..WRAP-1
  BY <1>1 DEF Init
<1> QED BY <1>2, <1>3, <1>4, <1>5 DEF Init, Types

LEMMA TypesFiles ==
  ASSUME Types, NEW p \in Procs, NEW q \in Procs, NEW e \in Ends,
         \/ SysPipe(p) \/ Fork(p, q) \/ SysClose(p, e) \/ Exit(p)
         \/ FileClose(p, e) \/ PipeClose(p, e) \/ KFree(p)
  PROVE  Types'
<1>1. CASE SysPipe(p)
  <2>1. fds' \in [Procs -> SUBSET Ends] /\ todo' \in [Procs -> SUBSET Ends]
    BY <1>1 DEF SysPipe, Types
  <2>2. 0 \in 0..WRAP-1
    BY RingAssumption
  <2> QED BY <1>1, <2>1, <2>2 DEF SysPipe, Types, life, io
<1>2. CASE Fork(p, q)
  BY <1>2 DEF Fork, Types, Dup, io, pipe
<1>3. CASE SysClose(p, e)
  BY <1>3 DEF SysClose, Types, io, pipe, life
<1>4. CASE Exit(p)
  BY <1>4 DEF Exit, Types, io, pipe
<1>5. CASE FileClose(p, e)
  BY <1>5 DEF FileClose, Types, io, pipe, life, Goto, Closing, Labels
<1>6. CASE PipeClose(p, e)
  <2>1. pc' \in [Procs -> Labels]
    BY <1>6, WokenType DEF PipeClose, HangupWakes, Labels
  <2> QED BY <1>6, <2>1 DEF PipeClose, Types, io, files, life
<1>7. CASE KFree(p)
  BY <1>7 DEF KFree, Types, io, pipe, life, files, Goto, Labels
<1> QED BY <1>1, <1>2, <1>3, <1>4, <1>5, <1>6, <1>7

LEMMA TypesCalls ==
  ASSUME Types, NEW p \in Procs,
         \/ SysWrite(p) \/ WriteAll(p) \/ WriteFull(p) \/ SysRead(p)
         \/ ReadSome(p) \/ ReadEmpty(p) \/ Sleep(p) \/ Kill(p)
  PROVE  Types'
<1>1. CASE SysWrite(p)
  BY <1>1, WritesAssumption
  DEF SysWrite, Types, pipe, files, life, Goto, Labels, Writing
<1>2. CASE WriteAll(p)
  <2>1. pc' \in [Procs -> Labels]
    BY <1>2, WokenType DEF WriteAll, Labels
  <2>2. nwrite' \in 0..WRAP-1
    BY <1>2, PlusType DEF WriteAll, Store, Types
  <2>3. buf' \in [Procs -> Seq(Bytes)]
    BY <1>2 DEF WriteAll, Types
  <2> QED BY <1>2, <2>1, <2>2, <2>3 DEF WriteAll, Types, files, life
<1>3. CASE WriteFull(p)
  <2>1. pc' \in [Procs -> Labels]
    <3>1. CASE pc' = [pc EXCEPT ![p] = "user"]
      BY <3>1 DEF Labels, Types
    <3>2. CASE pc' = Woken(FullWakes, p, "wsleep")
      BY <3>2, WokenType DEF FullWakes, Labels, Writing
    <3> QED BY <1>3, <3>1, <3>2 DEF WriteFull, Goto
  <2>2. nwrite' \in 0..WRAP-1
    <3>1. nwrite' = Plus(nwrite, Room)
      BY <1>3 DEF WriteFull, Store
    <3>2. nwrite \in Int /\ Room \in Int
      BY RoomType DEF Types
    <3> QED BY <3>1, <3>2, PlusType
  <2>3. buf' \in [Procs -> Seq(Bytes)]
    <3>1. SubSeq(buf[p], Room + 1, Len(buf[p])) \in Seq(Bytes)
      BY <1>3, BufRest DEF WriteFull
    <3>2. CASE buf' = [buf EXCEPT ![p] = <<>>]
      BY <3>2 DEF Types
    <3>3. CASE buf' = [buf EXCEPT ![p] = SubSeq(@, Room + 1, Len(@))]
      BY <3>1, <3>3 DEF Types
    <3> QED BY <1>3, <3>2, <3>3 DEF WriteFull
  <2>4. quiet' \in BOOLEAN
    BY <1>3 DEF WriteFull, Types
  <2> QED BY <1>3, <2>1, <2>2, <2>3, <2>4 DEF WriteFull, Types, files, life
<1>4. CASE SysRead(p)
  BY <1>4 DEF SysRead, Types, pipe, files, life, Goto, Labels, Reading
<1>5. CASE ReadSome(p)
  <2>1. pc' \in [Procs -> Labels]
    BY <1>5, WokenType DEF ReadSome, Labels
  <2>2. nread' \in 0..WRAP-1
    <3>1. PICK k \in Int : nread' = Plus(nread, k)
      BY <1>5, RoomType DEF ReadSome, Types
    <3> QED BY <3>1, PlusType DEF Types
  <2>3. want' \in [Procs -> 0..MAXIO]
    BY <1>5, RingAssumption DEF ReadSome, Types
  <2> QED BY <1>5, <2>1, <2>2, <2>3 DEF ReadSome, Types, files, life
<1>6. CASE ReadEmpty(p)
  BY <1>6, RingAssumption
  DEF ReadEmpty, Types, pipe, files, life, Goto, Labels, Reading
<1>7. CASE Sleep(p)
  BY <1>7 DEF Sleep, Types, pipe, files, life, io, Goto, Labels, Reading, Writing
<1>8. CASE Kill(p)
  BY <1>8 DEF Kill, Types, pipe, files, io, Resumed, Labels, Reading, Writing
<1> QED BY <1>1, <1>2, <1>3, <1>4, <1>5, <1>6, <1>7, <1>8

LEMMA TypeStep ==
  ASSUME Types, [Next]_vars
  PROVE  Types'
<1>1. CASE UNCHANGED vars
  BY <1>1 DEF vars, pipe, files, life, io, Types
<1>2. ASSUME NEW p \in Procs, NEW q \in Procs, NEW e \in Ends,
             \/ SysPipe(p) \/ Fork(p, q) \/ SysClose(p, e) \/ Exit(p)
             \/ FileClose(p, e) \/ PipeClose(p, e) \/ KFree(p)
             \/ SysWrite(p) \/ WriteAll(p) \/ WriteFull(p) \/ SysRead(p)
             \/ ReadSome(p) \/ ReadEmpty(p) \/ Sleep(p) \/ Kill(p)
      PROVE  Types'
  BY <1>2, TypesFiles, TypesCalls
<1>3. "r" \in Ends
  BY DEF Ends
<1> QED BY <1>1, <1>2, <1>3 DEF Next, Kernel

-----------------------------------------------------------------------------
(* The references and the page.                                            *)

LEMMA HoldersFinite ==
  \A e \in Ends : IsFiniteSet(Holders(e)) /\ Holders(e) \subseteq Procs
BY ProcAssumption, FS_Subset DEF Holders

\* Steps that leave the files alone and nobody closing any.
LEMMA QuietStep ==
  ASSUME Types, Shared, CallInv',
         UNCHANGED <<page, ropen, wopen, ref, fds, todo, live>>,
         page # "used" => UNCHANGED <<pc, nread, nwrite>>,
         \A q \in Procs, l \in {"close_r", "close_w", "kfree"} :
           pc'[q] = l <=> pc[q] = l
  PROVE  Shared'
<1>1. \A e \in Ends : Holders(e)' = Holders(e) /\ Open(e)' = Open(e)
  BY DEF Holders, Open
<1>2. RefInv'
  BY <1>1 DEF Shared, RefInv
<1>3. \A e \in Ends, q \in Procs : pc'[q] = Closing(e) <=> pc[q] = Closing(e)
  BY DEF Closing
<1>4. CloseInv'
  BY <1>1, <1>3 DEF Shared, CloseInv
<1> QED BY <1>2, <1>4 DEF Shared

\* Whoever is in a call uses the page.
LEMMA PageUsed ==
  ASSUME Shared, NEW p \in Procs,
         pc[p] # "user" \/ fds[p] # {} \/ todo[p] # {}
  PROVE  page = "used"
BY DEF Shared, CloseInv

\* The wakeups of a call, by a process that is not asleep itself.
LEMMA WokenCalls ==
  ASSUME Types, Shared, NEW p \in Procs, NEW l \in Labels,
         NEW chans \in SUBSET {"rwait", "wwait"},
         plock = NoProc, plock' = (IF l = "wsleep" THEN p ELSE NoProc),
         fds' = fds, pc' = Woken(chans, p, l), l \in {"user", "wsleep"},
         pc[p] \in {"read", "write"}, l = "wsleep" => pc[p] = "write"
  PROVE  /\ CallInv'
         /\ \A q \in Procs, k \in {"close_r", "close_w", "kfree"} :
              pc'[q] = k <=> pc[q] = k
<1>1. /\ pc'[p] = l
      /\ \A q \in Procs : q # p =>
           \/ pc'[q] = pc[q]
           \/ pc[q] = "rwait" /\ pc'[q] = "read"
           \/ pc[q] = "wwait" /\ pc'[q] = "write"
  <2>1. /\ Woken(chans, p, l)[p] = l
        /\ \A q \in Procs : q # p =>
             \/ Woken(chans, p, l)[q] = pc[q] /\ pc[q] \notin chans
             \/ pc[q] = "rwait" /\ Woken(chans, p, l)[q] = "read"
             \/ pc[q] = "wwait" /\ Woken(chans, p, l)[q] = "write"
    BY WokenType
  <2> QED BY <2>1
<1>2. CallInv
  BY DEF Shared
<1>3. \A q \in Procs : pc[q] \notin {"wsleep", "rsleep"}
  BY <1>2, ProcAssumption DEF CallInv
<1>4. \A q \in Procs : /\ pc'[q] \in Writing => "w" \in fds'[q]
                       /\ pc'[q] \in Reading => "r" \in fds'[q]
  BY <1>1, <1>2 DEF CallInv, Writing, Reading
<1>5. \A q \in Procs : pc'[q] \in {"wsleep", "rsleep"} <=> plock' = q
  BY <1>1, <1>3, ProcAssumption
<1>6. \A q \in Procs, k \in {"close_r", "close_w", "kfree"} :
        pc'[q] = k <=> pc[q] = k
  BY <1>1
<1> QED BY <1>4, <1>5, <1>6 DEF CallInv

LEMMA SharedCalls ==
  ASSUME Types, Shared, NEW p \in Procs,
         \/ SysWrite(p) \/ WriteAll(p) \/ WriteFull(p) \/ SysRead(p)
         \/ ReadSome(p) \/ ReadEmpty(p) \/ Sleep(p) \/ Kill(p)
  PROVE  Shared'
<1>c. CallInv /\ pc \in [Procs -> Labels]
  BY DEF Shared, Types
<1>1. CASE SysWrite(p)
  <2>1. CallInv'
    BY <1>1, <1>c DEF SysWrite, Calls, InUser, CallInv, files, Goto, Writing, Reading
  <2>2. page = "used"
    BY <1>1, PageUsed DEF SysWrite
  <2> QED BY <1>1, <1>c, <2>1, <2>2, QuietStep
          DEF SysWrite, Calls, InUser, pipe, files, life, Goto
<1>2. CASE WriteAll(p)
  <2>1. page = "used"
    BY <1>2, PageUsed DEF WriteAll
  <2> QED BY <1>2, <2>1, WokenCalls, QuietStep DEF WriteAll, Free, files, life, Labels
<1>3. CASE WriteFull(p)
  <2>1. page = "used"
    BY <1>3, PageUsed DEF WriteFull
  <2>2. CASE pc' = Woken(FullWakes, p, "wsleep") /\ plock' = p
    BY <1>3, <2>1, <2>2, WokenCalls, QuietStep
    DEF WriteFull, Free, FullWakes, files, life, Labels, Writing
  <2>3. CASE pc' = [pc EXCEPT ![p] = "user"] /\ plock' = plock
    <3>1. CallInv'
      BY <1>3, <1>c, <2>3 DEF WriteFull, Free, files, CallInv, Writing, Reading
    <3> QED BY <1>3, <1>c, <2>1, <2>3, <3>1, QuietStep DEF WriteFull, files, life
  <2> QED BY <1>3, <2>2, <2>3 DEF WriteFull, Goto
<1>4. CASE SysRead(p)
  <2>1. CallInv'
    BY <1>4, <1>c DEF SysRead, Calls, InUser, CallInv, files, Goto, Writing, Reading
  <2>2. page = "used"
    BY <1>4, PageUsed DEF SysRead
  <2> QED BY <1>4, <1>c, <2>1, <2>2, QuietStep
          DEF SysRead, Calls, InUser, pipe, files, life, Goto
<1>5. CASE ReadSome(p)
  <2>1. page = "used"
    BY <1>5, PageUsed DEF ReadSome
  <2> QED BY <1>5, <2>1, WokenCalls, QuietStep DEF ReadSome, Free, files, life, Labels
<1>6. CASE ReadEmpty(p)
  <2>1. page = "used"
    BY <1>6, PageUsed DEF ReadEmpty
  <2>2. CallInv'
    BY <1>6, <1>c, ProcAssumption
    DEF ReadEmpty, Free, files, CallInv, Goto, Writing, Reading
  <2> QED BY <1>6, <1>c, <2>1, <2>2, QuietStep
          DEF ReadEmpty, pipe, files, life, Goto
<1>7. CASE Sleep(p)
  <2>1. pc[p] \in {"wsleep", "rsleep"}
    BY <1>7, <1>c DEF Sleep, CallInv
  <2>2. page = "used"
    BY <2>1, PageUsed
  <2>3. CallInv'
    BY <1>7, <1>c, <2>1, ProcAssumption
    DEF Sleep, files, CallInv, Goto, Writing, Reading
  <2> QED BY <1>7, <1>c, <2>1, <2>2, <2>3, QuietStep
          DEF Sleep, pipe, files, life, Goto
<1>8. CASE Kill(p)
  <2>1. CallInv'
    BY <1>8, <1>c DEF Kill, files, CallInv, Resumed, Writing, Reading
  <2>2. page # "used" => pc[p] = "user"
    BY PageUsed
  <2> QED BY <1>8, <1>c, <2>1, <2>2, QuietStep
          DEF Kill, pipe, files, Resumed
<1> QED BY <1>1, <1>2, <1>3, <1>4, <1>5, <1>6, <1>7, <1>8

LEMMA SharedFiles ==
  ASSUME Types, Shared, NEW p \in Procs, NEW q \in Procs, NEW e \in Ends,
         SysPipe(p) \/ Fork(p, q) \/ SysClose(p, e) \/ Exit(p)
  PROVE  Shared'
<1>c. CallInv /\ pc \in [Procs -> Labels]
  BY DEF Shared, Types
<1>1. CASE SysPipe(p)
  <2>1. /\ page = "none" /\ page' = "used" /\ ropen' /\ wopen' /\ pc' = pc
        /\ plock' = plock /\ live' = live /\ p \in live
        /\ ref' = [f \in Ends |-> 1]
    BY <1>1 DEF SysPipe, Calls, InUser, life
  <2>2. \A r \in Procs : fds[r] = {} /\ todo[r] = {} /\ pc[r] = "user"
    BY <2>1 DEF Shared, CloseInv
  <2>3. \/ fds' = [fds EXCEPT ![p] = Ends] /\ todo' = todo
        \/ todo' = [todo EXCEPT ![p] = Ends] /\ fds' = fds
    BY <1>1 DEF SysPipe
  <2>4. \A f \in Ends : Holders(f)' = {p}
    BY <2>2, <2>3 DEF Holders, Types
  <2>5. RefInv'
    <3>1. Cardinality({p}) = 1
      BY FS_Singleton
    <3>2. \A f \in Ends : ref'[f] = Cardinality(Holders(f)')
      BY <2>1, <2>4, <3>1
    <3>3. \A r \in Procs : fds'[r] \cap todo'[r] = {} /\ (r \notin live' => fds'[r] = {})
      BY <2>1, <2>2, <2>3 DEF Types
    <3> QED BY <3>2, <3>3 DEF RefInv
  <2>6. CallInv'
    BY <1>c, <2>1, <2>2 DEF CallInv, Writing, Reading
  <2>7. \A f \in Ends : Open(f)'
    BY <2>1 DEF Open
  <2>8. \A r \in Procs, f \in Ends : pc'[r] # "kfree" /\ pc'[r] # Closing(f)
    BY <2>1, <2>2 DEF Closing
  <2>9. CloseInv'
    BY <2>1, <2>4, <2>7, <2>8 DEF CloseInv
  <2> QED BY <2>5, <2>6, <2>9 DEF Shared
<1>2. CASE Fork(p, q)
  <2>1. /\ fds[q] = {} /\ todo[q] = {} /\ q # p
        /\ fds' = [fds EXCEPT ![q] = fds[p]] /\ todo' = todo
        /\ live' = live \cup {q}
        /\ UNCHANGED <<page, plock, nread, nwrite, ropen, wopen, pc>>
        /\ pc[p] = "user" /\ pc[q] = "user"
        /\ ref' = Dup(fds[p])
    BY <1>2 DEF Fork, Calls, InUser, Shared, RefInv, pipe
  <2>2. \A f \in Ends : f \in fds[p] => /\ p \in Holders(f)
                                        /\ Holders(f)' = Holders(f) \cup {q}
                                        /\ q \notin Holders(f)
    BY <2>1 DEF Holders, Types
  <2>3. \A f \in Ends : f \notin fds[p] => Holders(f)' = Holders(f)
    BY <2>1 DEF Holders, Types
  <2>4. RefInv'
    <3>1. \A f \in Ends : ref'[f] = Cardinality(Holders(f)')
      <4> SUFFICES ASSUME NEW f \in Ends PROVE ref'[f] = Cardinality(Holders(f)')
        OBVIOUS
      <4>1. CASE f \in fds[p]
        <5>1. Cardinality(Holders(f) \cup {q}) = Cardinality(Holders(f)) + 1
          BY <4>1, <2>2, HoldersFinite, FS_AddElement
        <5>2. ref'[f] = ref[f] + 1
          BY <4>1, <2>1 DEF Dup
        <5>3. ref[f] = Cardinality(Holders(f))
          BY DEF Shared, RefInv
        <5> QED BY <4>1, <2>2, <5>1, <5>2, <5>3
      <4>2. CASE f \notin fds[p]
        BY <4>2, <2>1, <2>3 DEF Dup, Shared, RefInv
      <4> QED BY <4>1, <4>2
    <3>2. \A r \in Procs : fds'[r] \cap todo'[r] = {} /\ (r \notin live' => fds'[r] = {})
      BY <2>1 DEF Shared, RefInv, Types
    <3> QED BY <3>1, <3>2 DEF RefInv
  <2>5. CallInv'
    BY <1>c, <2>1 DEF CallInv, Writing, Reading, Types
  <2>6. CloseInv'
    <3>1. page' # "used" => \A r \in Procs :
            fds'[r] = {} /\ todo'[r] = {} /\ pc'[r] = "user"
      BY <2>1 DEF Shared, CloseInv, Types
    <3>2. \A f \in Ends : Holders(f)' = {} <=> Holders(f) = {}
      BY <2>2, <2>3
    <3>3. \A f \in Ends : Open(f)' = Open(f)
      BY <2>1 DEF Open
    <3> QED BY <2>1, <3>1, <3>2, <3>3 DEF Shared, CloseInv
  <2> QED BY <2>4, <2>5, <2>6 DEF Shared
<1>3. ASSUME UNCHANGED <<page, plock, nread, nwrite, ropen, wopen, ref, pc>>,
             pc[p] = "user", fds[p] \cup todo[p] # {},
             \A f \in Ends : f \in fds'[p] \cup todo'[p] <=> f \in fds[p] \cup todo[p],
             fds'[p] \cap todo'[p] = {}, live' = live \/ fds'[p] = {},
             live \ {p} \subseteq live',
             \A r \in Procs : r # p => fds'[r] = fds[r] /\ todo'[r] = todo[r],
             p \in live
      PROVE  Shared'
  <2>1. \A f \in Ends : Holders(f)' = Holders(f) /\ Open(f)' = Open(f)
    BY <1>3 DEF Holders, Open
  <2>2. RefInv'
    BY <1>3, <2>1 DEF Shared, RefInv
  <2>3. CallInv'
    BY <1>3, <1>c DEF CallInv, Writing, Reading
  <2>4. page = "used"
    BY <1>3, PageUsed
  <2>5. CloseInv'
    BY <1>3, <2>1, <2>4 DEF Shared, CloseInv
  <2> QED BY <2>2, <2>3, <2>5 DEF Shared
<1>4. CASE SysClose(p, e)
  <2>1. /\ fds' = [fds EXCEPT ![p] = @ \ {e}] /\ todo' = [todo EXCEPT ![p] = {e}]
        /\ e \in fds[p] /\ todo[p] = {} /\ live' = live /\ p \in live /\ pc[p] = "user"
        /\ UNCHANGED <<page, plock, nread, nwrite, ropen, wopen, ref, pc>>
    BY <1>4 DEF SysClose, Calls, InUser, pipe, life
  <2> QED BY <1>3, <2>1 DEF Types
<1>5. CASE Exit(p)
  <2>1. /\ fds' = [fds EXCEPT ![p] = {}] /\ todo' = [todo EXCEPT ![p] = fds[p]]
        /\ todo[p] = {} /\ live' = live \ {p} /\ p \in live /\ pc[p] = "user"
        /\ UNCHANGED <<page, plock, nread, nwrite, ropen, wopen, ref, pc>>
    BY <1>5 DEF Exit, InUser, pipe
  <2>2. CASE fds[p] = {}
    <3>1. fds' = fds /\ todo' = todo
      BY <2>1, <2>2 DEF Types
    <3>2. \A f \in Ends : Holders(f)' = Holders(f) /\ Open(f)' = Open(f)
      BY <2>1, <3>1 DEF Holders, Open
    <3>3. RefInv'
      BY <2>1, <2>2, <3>1, <3>2 DEF Shared, RefInv
    <3>4. CallInv' /\ CloseInv'
      BY <2>1, <3>1, <3>2 DEF Shared, CallInv, CloseInv
    <3> QED BY <3>3, <3>4 DEF Shared
  <2>3. CASE fds[p] # {}
    BY <1>3, <2>1, <2>3 DEF Types
  <2> QED BY <2>2, <2>3
<1> QED BY <1>1, <1>2, <1>4, <1>5

LEMMA SharedFileClose ==
  ASSUME Types, Shared, NEW p \in Procs, NEW e \in Ends, FileClose(p, e)
  PROVE  Shared'
<1>1. /\ pc[p] = "user" /\ e \in todo[p] /\ fds' = fds
      /\ ref' = [ref EXCEPT ![e] = @ - 1]
      /\ todo' = [todo EXCEPT ![p] = @ \ {e}]
      /\ pc' = [pc EXCEPT ![p] = IF ref[e] = 1 THEN Closing(e) ELSE "user"]
      /\ UNCHANGED <<page, plock, nread, nwrite, ropen, wopen, live>>
  BY DEF FileClose, Goto, pipe, life
<1>2. page = "used"
  BY <1>1, PageUsed
<1>3. p \in Holders(e) /\ Holders(e)' = Holders(e) \ {p}
  BY <1>1 DEF Holders, Types, Shared, RefInv
<1>4. \A f \in Ends : f # e => Holders(f)' = Holders(f)
  BY <1>1 DEF Holders, Types
<1>5. ref[e] = Cardinality(Holders(e)) /\ IsFiniteSet(Holders(e))
      /\ Cardinality(Holders(e)') = Cardinality(Holders(e)) - 1
  BY <1>3, HoldersFinite, FS_RemoveElement DEF Shared, RefInv
<1>6. ref[e] = 1 <=> Holders(e)' = {}
  <2>1. IsFiniteSet(Holders(e)')
    BY <1>3, <1>5, FS_Subset
  <2>2. Cardinality(Holders(e)') = 0 <=> Holders(e)' = {}
    BY <2>1, FS_EmptySet
  <2>3. ref[e] \in Int
    BY DEF Types
  <2> QED BY <1>5, <2>2, <2>3
<1>7. RefInv'
  <2>1. \A f \in Ends : ref'[f] = Cardinality(Holders(f)')
    BY <1>1, <1>4, <1>5 DEF Shared, RefInv, Types
  <2>2. \A r \in Procs : fds'[r] \cap todo'[r] = {} /\ (r \notin live' => fds'[r] = {})
    BY <1>1 DEF Shared, RefInv, Types
  <2> QED BY <2>1, <2>2 DEF RefInv
<1>8. \A r \in Procs : r # p => pc'[r] = pc[r]
  BY <1>1 DEF Types
<1>9. pc'[p] = (IF ref[e] = 1 THEN Closing(e) ELSE "user")
  BY <1>1 DEF Types
<1>10. CallInv'
  BY <1>1, <1>8, <1>9 DEF Shared, CallInv, Closing, Writing, Reading
<1>11. \A f \in Ends, r \in Procs :
         pc'[r] = Closing(f) <=> pc[r] = Closing(f) \/ (r = p /\ f = e /\ ref[e] = 1)
  BY <1>1, <1>8, <1>9 DEF Closing, Ends
<1>12. \A r \in Procs : pc[r] # Closing(e)
  BY <1>3 DEF Shared, CloseInv
<1>13. CloseInv'
  <2>1. \A f \in Ends : Open(f)' = Open(f)
    BY <1>1 DEF Open
  <2>2. \A f \in Ends : Open(f)' <=> Holders(f)' # {} \/ \E r \in Procs : pc'[r] = Closing(f)
    BY <1>2, <1>3, <1>4, <1>6, <1>11, <2>1 DEF Shared, CloseInv
  <2>3. \A f \in Ends, r \in Procs : pc'[r] = Closing(f) =>
          Holders(f)' = {} /\ \A q \in Procs : pc'[q] = Closing(f) => q = r
    BY <1>4, <1>6, <1>11, <1>12 DEF Shared, CloseInv
  <2>4. \A r \in Procs : pc'[r] = "kfree" <=> pc[r] = "kfree"
    BY <1>1, <1>8, <1>9 DEF Closing
  <2> QED BY <1>1, <1>2, <2>2, <2>3, <2>4 DEF Shared, CloseInv
<1> QED BY <1>7, <1>10, <1>13 DEF Shared

LEMMA SharedPipeClose ==
  ASSUME Types, Shared, NEW p \in Procs, NEW e \in Ends, PipeClose(p, e)
  PROVE  Shared'
<1> DEFINE l == IF BothClosed(ropen', wopen') THEN "kfree" ELSE "user"
<1>1. /\ pc[p] = Closing(e) /\ plock = NoProc
      /\ wopen' = (wopen /\ e # "w") /\ ropen' = (ropen /\ e # "r")
      /\ UNCHANGED <<page, plock, nread, nwrite, ref, fds, todo, live>>
      /\ pc' = Woken(HangupWakes(e), p, l)
  BY DEF PipeClose, Free, files, life
<1>2. page = "used"
  BY <1>1, PageUsed DEF Closing
<1>3. /\ pc'[p] = l
      /\ \A q \in Procs : q # p =>
           \/ pc'[q] = pc[q]
           \/ pc[q] = "rwait" /\ pc'[q] = "read"
           \/ pc[q] = "wwait" /\ pc'[q] = "write"
  <2>1. HangupWakes(e) \subseteq {"rwait", "wwait"} /\ l \in Labels
    BY DEF HangupWakes, Labels
  <2> HIDE DEF l
  <2>2. /\ Woken(HangupWakes(e), p, l)[p] = l
        /\ \A q \in Procs : q # p =>
             \/ Woken(HangupWakes(e), p, l)[q] = pc[q] /\ pc[q] \notin HangupWakes(e)
             \/ pc[q] = "rwait" /\ Woken(HangupWakes(e), p, l)[q] = "read"
             \/ pc[q] = "wwait" /\ Woken(HangupWakes(e), p, l)[q] = "write"
    BY <2>1, WokenType
  <2> QED BY <1>1, <2>2
<1>4. \A f \in Ends : Holders(f)' = Holders(f)
  BY <1>1 DEF Holders
<1>5. RefInv'
  BY <1>1, <1>4 DEF Shared, RefInv
<1>6. CallInv'
  BY <1>1, <1>3, ProcAssumption DEF Shared, CallInv, Writing, Reading
<1>7. Holders(e) = {} /\ \A q \in Procs : pc[q] = Closing(e) => q = p
  BY <1>1 DEF Shared, CloseInv
<1>8. Open(e) /\ ~Open(e)' /\ \A f \in Ends : f # e => Open(f)' = Open(f)
  <2>1. Open(e)
    BY <1>1, <1>2 DEF Shared, CloseInv
  <2> QED BY <1>1, <2>1 DEF Open, Ends, Types
<1>9. \A f \in Ends, r \in Procs :
        pc'[r] = Closing(f) <=> pc[r] = Closing(f) /\ r # p
  BY <1>3 DEF Closing
<1>10. \A r \in Procs : pc[r] # "kfree"
  BY <1>8 DEF Shared, CloseInv, Open
<1>11. \A r \in Procs : pc'[r] = "kfree" => r = p /\ ~ropen' /\ ~wopen'
  BY <1>3, <1>10 DEF BothClosed
<1>12. \A f \in Ends : Open(f)' <=> Holders(f)' # {} \/ \E r \in Procs : pc'[r] = Closing(f)
  <2> SUFFICES ASSUME NEW f \in Ends
      PROVE Open(f)' <=> Holders(f)' # {} \/ \E r \in Procs : pc'[r] = Closing(f)
    OBVIOUS
  <2>1. CASE f = e
    BY <1>4, <1>7, <1>8, <1>9, <2>1
  <2>2. CASE f # e
    <3>1. Closing(f) # Closing(e)
      BY <2>2 DEF Closing, Ends
    <3>2. \A r \in Procs : pc'[r] = Closing(f) <=> pc[r] = Closing(f)
      BY <1>1, <1>9, <3>1
    <3> QED BY <1>2, <1>4, <1>8, <2>2, <3>2 DEF Shared, CloseInv
  <2> QED BY <2>1, <2>2
<1>13. CloseInv'
  <2>1. \A f \in Ends, r \in Procs : pc'[r] = Closing(f) =>
          Holders(f)' = {} /\ \A q \in Procs : pc'[q] = Closing(f) => q = r
    BY <1>4, <1>9 DEF Shared, CloseInv
  <2> QED BY <1>1, <1>2, <1>11, <1>12, <2>1 DEF CloseInv
<1> QED BY <1>5, <1>6, <1>13 DEF Shared

LEMMA SharedKFree ==
  ASSUME Types, Shared, NEW p \in Procs, KFree(p)
  PROVE  Shared'
<1>1. /\ pc[p] = "kfree" /\ page' = "freed" /\ pc' = [pc EXCEPT ![p] = "user"]
      /\ UNCHANGED <<plock, nread, nwrite, ropen, wopen, ref, fds, todo, live>>
  BY DEF KFree, Goto, pipe, files, life
<1>2. page = "used"
  BY <1>1, PageUsed
<1>3. ~ropen /\ ~wopen /\ \A q \in Procs : pc[q] = "kfree" => q = p
  BY <1>1 DEF Shared, CloseInv
<1>4. \A f \in Ends : Holders(f) = {} /\ \A q \in Procs : pc[q] # Closing(f)
  BY <1>2, <1>3 DEF Shared, CloseInv, Open
<1>5. \A q \in Procs : fds[q] = {} /\ todo[q] = {}
  BY <1>4 DEF Holders, Types
<1>6. \A q \in Procs : q # p => pc[q] = "user"
  <2>1. \A q \in Procs : pc[q] \notin Writing \cup Reading
    BY <1>5 DEF Shared, CallInv
  <2>2. \A q \in Procs : pc[q] # "close_r" /\ pc[q] # "close_w"
    BY <1>4, EndFacts
  <2> QED BY <1>3, <2>1, <2>2 DEF Types, Labels
<1>7. \A q \in Procs : pc'[q] = "user"
  BY <1>1, <1>6 DEF Types
<1>8. \A f \in Ends : Holders(f)' = Holders(f)
  BY <1>1 DEF Holders
<1>9. RefInv'
  BY <1>1, <1>8 DEF Shared, RefInv
<1>10. CallInv'
  <2>1. \A q \in Procs : plock # q
    BY <1>1, <1>6 DEF Shared, CallInv
  <2> QED BY <1>1, <1>7, <2>1 DEF CallInv, Writing, Reading
<1>11. CloseInv'
  BY <1>1, <1>3, <1>5, <1>7 DEF CloseInv, Closing
<1> QED BY <1>9, <1>10, <1>11 DEF Shared

LEMMA SharedStep ==
  ASSUME Types, Shared, [Next]_vars
  PROVE  Shared'
<1>1. CASE UNCHANGED vars
  <2>1. \A e \in Ends : Holders(e)' = Holders(e) /\ Open(e)' = Open(e)
    BY <1>1 DEF vars, pipe, files, Holders, Open
  <2> QED BY <1>1, <2>1
          DEF vars, pipe, files, life, Shared, RefInv, CallInv, CloseInv
<1>2. ASSUME NEW p \in Procs, NEW q \in Procs, NEW e \in Ends,
             \/ SysPipe(p) \/ Fork(p, q) \/ SysClose(p, e) \/ Exit(p)
             \/ FileClose(p, e) \/ PipeClose(p, e) \/ KFree(p)
             \/ SysWrite(p) \/ WriteAll(p) \/ WriteFull(p) \/ SysRead(p)
             \/ ReadSome(p) \/ ReadEmpty(p) \/ Sleep(p) \/ Kill(p)
      PROVE  Shared'
  BY <1>2, SharedFiles, SharedFileClose, SharedPipeClose, SharedKFree, SharedCalls
<1>3. "r" \in Ends
  BY DEF Ends
<1> QED BY <1>1, <1>2, <1>3 DEF Next, Kernel

LEMMA SharedInit == Init => Shared
<1> SUFFICES ASSUME Init PROVE Shared
  OBVIOUS
<1>1. \A e \in Ends : Holders(e) = {}
  BY DEF Init, Holders
<1>2. RefInv
  BY <1>1, FS_EmptySet DEF Init, RefInv
<1>3. CallInv
  BY ProcAssumption DEF Init, CallInv, Writing, Reading
<1>4. CloseInv
  BY DEF Init, CloseInv, Closing
<1> QED BY <1>2, <1>3, <1>4 DEF Shared

-----------------------------------------------------------------------------
(* Remainders.                                                             *)

LEMMA DivMod ==
  ASSUME NEW w \in Nat, w > 0, NEW x \in Int
  PROVE  x = w * (x \div w) + (x % w) /\ x \div w \in Int /\ x % w \in 0..w-1
OBVIOUS

LEMMA ModUnique ==
  ASSUME NEW w \in Nat, w > 0, NEW x \in Int, NEW q \in Int, NEW r \in 0..w-1,
         x = w * q + r
  PROVE  x % w = r
OBVIOUS

LEMMA ModSmall ==
  ASSUME NEW w \in Nat, NEW x \in 0..w-1
  PROVE  x % w = x
OBVIOUS

LEMMA ModShift ==
  ASSUME NEW w \in Nat, w > 0, NEW x \in Int, NEW q \in Int
  PROVE  (x + w * q) % w = x % w
<1> DEFINE y == x + w * q
<1>1. x = w * (x \div w) + (x % w) /\ x \div w \in Int /\ x % w \in 0..w-1
  BY DivMod
<1>2. y = w * ((x \div w) + q) + (x % w) /\ (x \div w) + q \in Int /\ y \in Int
  BY <1>1
<1> HIDE DEF y
<1>3. y % w = x % w
  BY <1>1, <1>2, ModUnique
<1> QED BY <1>3 DEF y

LEMMA ModPlus ==
  ASSUME NEW w \in Nat, w > 0, NEW x \in Int, NEW y \in Int
  PROVE  ((x % w) + y) % w = (x + y) % w
<1> DEFINE d == x \div w  z == (x % w) + y
<1>1. x + y = z + w * d /\ d \in Int /\ z \in Int
  BY DivMod
<1> HIDE DEF d, z
<1>2. (z + w * d) % w = z % w
  BY <1>1, ModShift
<1> QED BY <1>1, <1>2 DEF z

LEMMA ModMinus ==
  ASSUME NEW w \in Nat, w > 0, NEW x \in Int, NEW y \in Int
  PROVE  (y - (x % w)) % w = (y - x) % w
<1> DEFINE d == -(x \div w)  z == y - (x % w)
<1>1. y - x = z + w * d /\ d \in Int /\ z \in Int
  BY DivMod
<1> HIDE DEF d, z
<1>2. (z + w * d) % w = z % w
  BY <1>1, ModShift
<1> QED BY <1>1, <1>2 DEF z

LEMMA ModMod ==
  ASSUME NEW w \in Nat, w > 0, NEW p \in Nat, p > 0, w % p = 0, NEW x \in Int
  PROVE  (x % w) % p = x % p
<1> DEFINE d == x \div w  e == w \div p  r == x % w
<1>1. w = p * e /\ e \in Int
  BY DivMod
<1>2. x = w * d + r /\ d \in Int /\ r \in Int
  BY DivMod
<1> HIDE DEF d, e, r
<1>3. x = r + p * (e * d) /\ e * d \in Int
  BY <1>1, <1>2
<1>4. (r + p * (e * d)) % p = r % p
  BY <1>2, <1>3, ModShift
<1> QED BY <1>3, <1>4 DEF r

LEMMA ModDistinct ==
  ASSUME NEW p \in Nat, p > 0, NEW x \in Int, NEW y \in Int,
         x % p = y % p, x - y < p, y - x < p
  PROVE  x = y
<1> DEFINE d == (x \div p) - (y \div p)
<1>1. x = p * (x \div p) + (x % p) /\ x \div p \in Int
  BY DivMod
<1>2. y = p * (y \div p) + (y % p) /\ y \div p \in Int
  BY DivMod
<1>3. x - y = p * d /\ d \in Int
  BY <1>1, <1>2
<1> HIDE DEF d
<1>4. CASE d >= 1
  <2>1. p * d >= p
    BY <1>3, <1>4
  <2> QED BY <1>3, <2>1
<1>5. CASE d <= -1
  <2>1. p * d <= -p
    BY <1>3, <1>5
  <2> QED BY <1>3, <2>1
<1>6. CASE d = 0
  BY <1>3, <1>6
<1> QED BY <1>3, <1>4, <1>5, <1>6

-----------------------------------------------------------------------------
(* The ring.                                                               *)

\* The j-th byte waiting to be read, and its place in the ring.
Place(j) == Index(Plus(nread, j - 1))
Cell(j) == data[Place(j)]

\* Which of k bytes to be written go to place i.
Landing(k, i) == {j \in 1..k : Place(Count + j) = i}

RingInv ==
  /\ Count <= PIPESIZE
  /\ data \in [0..PIPESIZE-1 -> Bytes \cup {Junk}]
  /\ \A j \in 1..Count : Cell(j) \in Bytes

LEMMA PlusPlus ==
  ASSUME NEW n \in Int, NEW i \in Int, NEW j \in Int
  PROVE  Plus(Plus(n, i), j) = Plus(n, i + j)
<1> DEFINE x == n + i
<1>1. WRAP \in Nat /\ WRAP > 0
  BY RingAssumption
<1>2. x \in Int /\ x + j = n + (i + j)
  OBVIOUS
<1>3. Plus(Plus(n, i), j) = ((x % WRAP) + j) % WRAP
  BY DEF Plus
<1> HIDE DEF x
<1>4. ((x % WRAP) + j) % WRAP = (x + j) % WRAP
  BY <1>1, <1>2, ModPlus
<1>5. Plus(n, i + j) = (x + j) % WRAP
  BY <1>2 DEF Plus
<1> QED BY <1>3, <1>4, <1>5

LEMMA IndexDistinct ==
  ASSUME NEW n \in Int, NEW i \in 1..PIPESIZE, NEW j \in 1..PIPESIZE,
         Index(Plus(n, i - 1)) = Index(Plus(n, j - 1))
  PROVE  i = j
<1>1. WRAP \in Nat /\ WRAP > 0 /\ PIPESIZE \in Nat /\ PIPESIZE > 0
      /\ WRAP % PIPESIZE = 0
  BY RingAssumption
<1> DEFINE x == n + (i - 1)  y == n + (j - 1)
<1>2. x \in Int /\ y \in Int /\ x - y < PIPESIZE /\ y - x < PIPESIZE
  BY <1>1
<1>3. x % PIPESIZE = Index(Plus(n, i - 1)) /\ y % PIPESIZE = Index(Plus(n, j - 1))
  <2> HIDE DEF x, y
  <2>1. (x % WRAP) % PIPESIZE = x % PIPESIZE /\ (y % WRAP) % PIPESIZE = y % PIPESIZE
    BY <1>1, <1>2, ModMod
  <2> QED BY <2>1 DEF Index, Plus, x, y
<1>4. x = y
  <2> HIDE DEF x, y
  <2> QED BY <1>1, <1>2, <1>3, ModDistinct
<1> QED BY <1>4

LEMMA IndexType ==
  ASSUME NEW n \in Int
  PROVE  Index(n) \in 0..PIPESIZE-1
BY RingAssumption, DivMod DEF Index

\* The room in the ring, and where the next byte goes.
LEMMA CountRoom ==
  ASSUME Types, Count <= PIPESIZE
  PROVE  /\ Room = PIPESIZE - Count
         /\ \A i \in Int : Plus(nwrite, i) = Plus(nread, Count + i)
<1>1. /\ WRAP \in Nat /\ WRAP > 0 /\ PIPESIZE \in Nat /\ PIPESIZE < WRAP
      /\ nread \in Int /\ nwrite \in Int /\ nwrite \in 0..WRAP-1
      /\ Count \in 0..PIPESIZE
  BY RingAssumption, RoomType DEF Types
<1>2. Room = PIPESIZE - Count
  <2> DEFINE x == nwrite - nread
  <2>1. nread + PIPESIZE - nwrite = PIPESIZE - x /\ x \in Int /\ PIPESIZE \in Int
    BY <1>1
  <2> HIDE DEF x
  <2>2. (PIPESIZE - (x % WRAP)) % WRAP = (PIPESIZE - x) % WRAP
    BY <1>1, <2>1, ModMinus
  <2>3. x % WRAP = Count
    BY DEF x, Count
  <2>4. PIPESIZE - Count \in 0..WRAP-1
    BY <1>1
  <2>5. (PIPESIZE - Count) % WRAP = PIPESIZE - Count
    BY <1>1, <2>4, ModSmall
  <2> QED BY <2>1, <2>2, <2>3, <2>5 DEF Room
<1>3. Plus(nread, Count) = nwrite
  <2> DEFINE x == nwrite - nread
  <2>1. x + nread = nwrite /\ x \in Int
    BY <1>1
  <2> HIDE DEF x
  <2>2. ((x % WRAP) + nread) % WRAP = (x + nread) % WRAP
    BY <1>1, <2>1, ModPlus
  <2>3. x % WRAP = Count
    BY DEF x, Count
  <2>4. nwrite % WRAP = nwrite
    BY <1>1, ModSmall
  <2>5. nread + Count = Count + nread
    BY <1>1
  <2> QED BY <2>1, <2>2, <2>3, <2>4, <2>5 DEF Plus
<1> QED BY <1>1, <1>2, <1>3, PlusPlus

LEMMA PlaceType ==
  ASSUME Types, NEW j \in Int
  PROVE  Place(j) \in 0..PIPESIZE-1
<1>1. Plus(nread, j - 1) \in 0..WRAP-1
  <2>1. nread \in Int /\ j - 1 \in Int
    BY DEF Types
  <2> QED BY <2>1, PlusType
<1>2. Plus(nread, j - 1) \in Int
  BY <1>1
<1> QED BY <1>2, IndexType DEF Place

LEMMA LandingAt ==
  ASSUME Types, NEW k \in Nat, Count + k <= PIPESIZE
  PROVE  /\ \A j \in 1..Count : Landing(k, Place(j)) = {}
         /\ \A j \in 1..k : Landing(k, Place(Count + j)) = {j}
<1>1. Count \in Nat /\ nread \in Int /\ PIPESIZE \in Nat
  BY RoomType, RingAssumption DEF Types
<1>2. \A i, j \in 1..PIPESIZE : Place(i) = Place(j) => i = j
  BY <1>1, IndexDistinct DEF Place
<1>3. \A j \in 1..k : Count + j \in 1..PIPESIZE
  BY <1>1
<1>4. \A j \in 1..Count : j \in 1..PIPESIZE
  BY <1>1
<1>5. \A i \in 1..Count, j \in 1..k : Place(Count + j) # Place(i)
  <2> SUFFICES ASSUME NEW i \in 1..Count, NEW j \in 1..k, Place(Count + j) = Place(i)
               PROVE FALSE
    OBVIOUS
  <2>1. Count + j = i
    BY <1>2, <1>3, <1>4
  <2> QED BY <1>1, <2>1
<1>6. \A i, j \in 1..k : Place(Count + i) = Place(Count + j) => i = j
  <2> SUFFICES ASSUME NEW i \in 1..k, NEW j \in 1..k, Place(Count + i) = Place(Count + j)
               PROVE i = j
    OBVIOUS
  <2>1. Count + i = Count + j
    BY <1>2, <1>3
  <2> QED BY <1>1, <2>1
<1>7. \A j \in 1..Count : Landing(k, Place(j)) = {}
  BY <1>5 DEF Landing
<1>8. \A j \in 1..k : Landing(k, Place(Count + j)) = {j}
  BY <1>6 DEF Landing
<1> QED BY <1>7, <1>8

\* A write adds k bytes behind those that are there.
LEMMA StoreRing ==
  ASSUME Types, RingInv, NEW s \in Seq(Bytes), NEW k \in 0..Len(s), k <= Room,
         Store(s, k), nread' = nread
  PROVE  /\ Count' = Count + k
         /\ RingInv'
         /\ \A j \in 1..Count : Cell(j)' = Cell(j)
         /\ \A j \in 1..Count+k : j > Count => Cell(j)' = s[j - Count]
<1>1. /\ WRAP \in Nat /\ WRAP > 0 /\ PIPESIZE \in Nat /\ PIPESIZE < WRAP
      /\ nread \in Int /\ nwrite \in Int
  BY RingAssumption DEF Types
<1>2. Len(s) \in Nat /\ k \in Nat
  OBVIOUS
<1>3. Count \in Nat /\ Count + k <= PIPESIZE
  BY <1>1, <1>2, RoomType, CountRoom DEF RingInv
<1>4. Count' = Count + k
  <2> DEFINE x == nwrite + k  y == nwrite - nread  m == -nread
  <2>1. /\ x \in Int /\ y \in Int /\ m \in Int /\ k \in Int /\ x + m = y + k
        /\ Count + k \in 0..WRAP-1
    BY <1>1, <1>2, <1>3
  <2>2. x % WRAP \in Int
    BY <1>1, <1>2, <2>1, DivMod
  <2>3. Count' = ((x % WRAP) + m) % WRAP
    <3>1. (x % WRAP) - nread = (x % WRAP) + m
      BY <1>1, <2>2
    <3> QED BY <3>1 DEF Count, Store, Plus
  <2>4. Count = y % WRAP
    BY DEF Count
  <2> HIDE DEF x, y, m
  <2>5. ((x % WRAP) + m) % WRAP = (x + m) % WRAP
    BY <1>1, <2>1, ModPlus
  <2>6. ((y % WRAP) + k) % WRAP = (y + k) % WRAP
    BY <1>1, <2>1, ModPlus
  <2>7. (Count + k) % WRAP = Count + k
    BY <1>1, <2>1, ModSmall
  <2> QED BY <2>1, <2>3, <2>4, <2>5, <2>6, <2>7
<1>5. data' = [i \in 0..PIPESIZE-1 |->
                 IF Landing(k, i) = {} THEN data[i] ELSE s[Max(Landing(k, i))]]
  <2>1. \A j \in 1..k : Index(Plus(nwrite, j - 1)) = Place(Count + j)
    <3> SUFFICES ASSUME NEW j \in 1..k
                 PROVE Index(Plus(nwrite, j - 1)) = Place(Count + j)
      OBVIOUS
    <3>1. j - 1 \in Int /\ Count + (j - 1) = (Count + j) - 1
      BY <1>3
    <3>2. Plus(nwrite, j - 1) = Plus(nread, Count + (j - 1))
      BY <3>1, CountRoom DEF RingInv
    <3>3. Plus(nwrite, j - 1) = Plus(nread, (Count + j) - 1)
      BY <3>1, <3>2
    <3> QED BY <3>3 DEF Place
  <2>2. \A i : {j \in 1..k : Index(Plus(nwrite, j - 1)) = i} = Landing(k, i)
    BY <2>1 DEF Landing
  <2>3. DOMAIN data = 0..PIPESIZE-1
    BY DEF RingInv
  <2> QED BY <2>2, <2>3 DEF Store
<1>6. \A j \in 1..k : Max({j}) = j
  BY <1>2 DEF Max
<1>7. \A j \in 1..k : s[j] \in Bytes
  BY <1>2
<1>8. \A j : Cell(j)' = data'[Place(j)]
  BY DEF Cell, Place, Index, Plus
<1>9. \A j \in 1..Count : Cell(j)' = Cell(j)
  <2> SUFFICES ASSUME NEW j \in 1..Count PROVE Cell(j)' = Cell(j)
    OBVIOUS
  <2>1. Place(j) \in 0..PIPESIZE-1 /\ Landing(k, Place(j)) = {}
    <3>1. j \in Int
      OBVIOUS
    <3> QED BY <1>2, <1>3, <3>1, PlaceType, LandingAt
  <2> QED BY <1>5, <1>8, <2>1 DEF Cell
<1>10. \A i \in 1..k : data'[Place(Count + i)] = s[i]
  <2> SUFFICES ASSUME NEW i \in 1..k PROVE data'[Place(Count + i)] = s[i]
    OBVIOUS
  <2>1. Count + i \in Int
    BY <1>3
  <2>2. Place(Count + i) \in 0..PIPESIZE-1 /\ Landing(k, Place(Count + i)) = {i}
    BY <1>2, <1>3, <2>1, PlaceType, LandingAt
  <2> QED BY <1>5, <1>6, <2>2
<1>11. \A j \in 1..Count+k : j > Count => Cell(j)' = s[j - Count]
  <2> SUFFICES ASSUME NEW j \in 1..Count+k, j > Count
               PROVE Cell(j)' = s[j - Count]
    OBVIOUS
  <2>1. j - Count \in 1..k /\ Count + (j - Count) = j
    BY <1>2, <1>3
  <2>2. data'[Place(Count + (j - Count))] = s[j - Count]
    BY <1>10, <2>1
  <2> QED BY <1>8, <2>1, <2>2
<1>12. data' \in [0..PIPESIZE-1 -> Bytes \cup {Junk}]
  <2>1. ASSUME NEW i \in 0..PIPESIZE-1, Landing(k, i) # {}
        PROVE s[Max(Landing(k, i))] \in Bytes
    <3>1. PICK j \in 1..k : Place(Count + j) = i
      BY <2>1 DEF Landing
    <3>2. Landing(k, i) = {j}
      BY <1>2, <1>3, <3>1, LandingAt
    <3> QED BY <1>6, <1>7, <3>2
  <2> QED BY <1>5, <2>1 DEF RingInv
<1>13. \A j \in 1..Count+k : Cell(j)' \in Bytes
  <2> SUFFICES ASSUME NEW j \in 1..Count+k PROVE Cell(j)' \in Bytes
    OBVIOUS
  <2>1. CASE j <= Count
    <3>1. j \in 1..Count
      BY <1>2, <1>3, <2>1
    <3> QED BY <1>9, <3>1 DEF RingInv
  <2>2. CASE j > Count
    <3>1. j - Count \in 1..k
      BY <1>2, <1>3, <2>2
    <3> QED BY <1>7, <1>11, <2>2, <3>1
  <2> QED BY <1>2, <1>3, <2>1, <2>2
<1>14. RingInv'
  BY <1>3, <1>4, <1>12, <1>13 DEF RingInv
<1> QED BY <1>4, <1>9, <1>11, <1>14

\* A read takes k bytes off the front.
LEMMA TakeRing ==
  ASSUME Types, RingInv, NEW k \in 0..Count,
         nread' = Plus(nread, k), nwrite' = nwrite, data' = data
  PROVE  /\ Count' = Count - k
         /\ RingInv'
         /\ \A j \in 1..Count-k : Cell(j)' = Cell(k + j)
<1>1. /\ WRAP \in Nat /\ WRAP > 0 /\ PIPESIZE \in Nat /\ PIPESIZE < WRAP
      /\ nread \in Int /\ nwrite \in Int /\ Count \in Nat /\ Count <= PIPESIZE
  BY RingAssumption, RoomType DEF Types, RingInv
<1>2. k \in Nat /\ k <= Count
  BY <1>1
<1>3. Count' = Count - k
  <2> DEFINE x == nread + k  y == nwrite - nread  m == -k
  <2>1. /\ x \in Int /\ y \in Int /\ m \in Int /\ nwrite \in Int
        /\ nwrite - x = y + m /\ Count + m \in 0..WRAP-1 /\ Count + m = Count - k
    BY <1>1, <1>2
  <2>2. Count' = (nwrite - (x % WRAP)) % WRAP
    BY DEF Count, Plus
  <2>3. Count = y % WRAP
    BY DEF Count
  <2> HIDE DEF x, y, m
  <2>4. (nwrite - (x % WRAP)) % WRAP = (nwrite - x) % WRAP
    BY <1>1, <2>1, ModMinus
  <2>5. ((y % WRAP) + m) % WRAP = (y + m) % WRAP
    BY <1>1, <2>1, ModPlus
  <2>6. (Count + m) % WRAP = Count + m
    BY <1>1, <2>1, ModSmall
  <2> QED BY <2>1, <2>2, <2>3, <2>4, <2>5, <2>6
<1>4. \A j \in Int : Cell(j)' = Cell(k + j)
  <2> SUFFICES ASSUME NEW j \in Int PROVE Cell(j)' = Cell(k + j)
    OBVIOUS
  <2>1. j - 1 \in Int /\ k \in Int /\ k + (j - 1) = (k + j) - 1
    BY <1>2
  <2>2. Plus(Plus(nread, k), j - 1) = Plus(nread, k + (j - 1))
    BY <1>1, <2>1, PlusPlus
  <2>3. Plus(Plus(nread, k), j - 1) = Plus(nread, (k + j) - 1)
    BY <2>1, <2>2
  <2>4. Place(j)' = Index(Plus(Plus(nread, k), j - 1))
    BY DEF Place, Index, Plus
  <2>5. Place(j)' = Place(k + j)
    BY <2>3, <2>4 DEF Place
  <2> QED BY <2>5 DEF Cell
<1>5. \A j \in 1..Count-k : Cell(j)' \in Bytes
  <2> SUFFICES ASSUME NEW j \in 1..Count-k PROVE Cell(j)' \in Bytes
    OBVIOUS
  <2>1. j \in Int /\ k + j \in 1..Count
    BY <1>1, <1>2
  <2> QED BY <1>4, <2>1 DEF RingInv
<1>6. RingInv'
  BY <1>1, <1>2, <1>3, <1>5 DEF RingInv
<1>7. \A j \in 1..Count-k : Cell(j)' = Cell(k + j)
  BY <1>4
<1> QED BY <1>3, <1>6, <1>7

\* What a call to write() does to the ring, and what one to read() does.
LEMMA WriteEffect ==
  ASSUME Types, NEW p \in Procs, WriteAll(p) \/ WriteFull(p)
  PROVE  /\ \E s \in Seq(Bytes) : \E k \in 0..Len(s) :
              k <= Room /\ Store(s, k) /\ (WriteFull(p) => k = Room)
         /\ nread' = nread
<1>1. buf[p] \in Seq(Bytes) /\ Len(buf[p]) \in Nat /\ Room \in Nat
  BY RoomType DEF Types
<1>2. CASE WriteAll(p) /\ ~WriteFull(p)
  <2>1. Len(buf[p]) <= Room /\ Store(buf[p], Len(buf[p])) /\ nread' = nread
    BY <1>2 DEF WriteAll
  <2>2. PICK s \in Seq(Bytes) : s = buf[p]
    BY <1>1
  <2>3. Len(s) <= Room /\ Store(s, Len(s)) /\ Len(s) \in 0..Len(s)
    BY <1>1, <2>1, <2>2
  <2> QED BY <1>2, <2>1, <2>3
<1>3. CASE WriteFull(p)
  <2>1. Len(buf[p]) > Room /\ Store(buf[p], Room) /\ nread' = nread
    BY <1>3 DEF WriteFull
  <2>2. PICK s \in Seq(Bytes) : s = buf[p]
    BY <1>1
  <2>3. PICK k \in 0..Len(s) : k = Room
    BY <1>1, <2>1, <2>2
  <2>4. k <= Room /\ Store(s, k)
    BY <1>1, <2>1, <2>2, <2>3
  <2> QED BY <2>1, <2>3, <2>4
<1> QED BY <1>2, <1>3

LEMMA ReadEffect ==
  ASSUME Types, NEW p \in Procs, ReadSome(p)
  PROVE  \E k \in 0..Count :
           /\ nread' = Plus(nread, k) /\ nwrite' = nwrite /\ data' = data
           /\ got' = [j \in 1..k |-> Cell(j)]
<1>1. want[p] \in Nat /\ Count \in Nat
  BY RoomType DEF Types
<1>2. PICK k \in 0..Count : k = IF want[p] < Count THEN want[p] ELSE Count
  BY <1>1
<1>3. /\ nread' = Plus(nread, k) /\ nwrite' = nwrite /\ data' = data
      /\ got' = [j \in 1..k |-> Cell(j)]
  BY <1>2 DEF ReadSome, Cell, Place
<1> QED BY <1>3

\* The other actions leave the ring as it is, but for the one that makes it.
LEMMA OtherEffect ==
  ASSUME NEW p \in Procs, NEW q \in Procs, NEW e \in Ends,
         \/ Fork(p, q) \/ SysClose(p, e) \/ Exit(p) \/ FileClose(p, e)
         \/ PipeClose(p, e) \/ KFree(p) \/ SysWrite(p) \/ SysRead(p)
         \/ ReadEmpty(p) \/ Sleep(p) \/ Kill(p)
  PROVE  UNCHANGED <<data, nread, nwrite, got>>
BY DEF Fork, SysClose, Exit, FileClose, PipeClose, KFree, SysWrite, SysRead,
       ReadEmpty, Sleep, Kill, pipe

RingType == RingInv /\ got \in Seq(Bytes)

LEMMA RingSame ==
  ASSUME RingType, UNCHANGED <<data, nread, nwrite, got>>
  PROVE  RingType'
<1>1. Count' = Count /\ \A j : Cell(j)' = Cell(j)
  BY DEF Count, Cell, Place, Index, Plus
<1> QED BY <1>1 DEF RingType, RingInv

LEMMA RingFresh ==
  ASSUME nread = 0, nwrite = 0
  PROVE  Count = 0
BY RingAssumption, ModSmall DEF Count

LEMMA RingInit == Init => RingType
<1> SUFFICES ASSUME Init PROVE RingType
  OBVIOUS
<1>1. Count = 0
  BY RingFresh DEF Init
<1> QED BY <1>1, RingAssumption DEF Init, RingType, RingInv

LEMMA RingStep ==
  ASSUME Types, RingType, [Next]_vars
  PROVE  RingType'
<1>1. CASE UNCHANGED vars
  BY <1>1, RingSame DEF vars, pipe
<1>2. ASSUME NEW p \in Procs, WriteAll(p) \/ WriteFull(p)
      PROVE  RingType'
  <2>a. PICK s \in Seq(Bytes) : \E k \in 0..Len(s) : k <= Room /\ Store(s, k)
    BY <1>2, WriteEffect
  <2>1. PICK k \in 0..Len(s) : k <= Room /\ Store(s, k)
    BY <2>a
  <2>2. nread' = nread
    BY <1>2, WriteEffect
  <2>3. got' = got
    BY <1>2 DEF WriteAll, WriteFull
  <2> QED BY <2>1, <2>2, <2>3, StoreRing DEF RingType
<1>3. ASSUME NEW p \in Procs, ReadSome(p)
      PROVE  RingType'
  <2>1. PICK k \in 0..Count :
          /\ nread' = Plus(nread, k) /\ nwrite' = nwrite /\ data' = data
          /\ got' = [j \in 1..k |-> Cell(j)]
    BY <1>3, ReadEffect
  <2>2. RingInv'
    BY <2>1, TakeRing DEF RingType
  <2>3. got' \in Seq(Bytes)
    <3>1. k \in Nat /\ \A j \in 1..k : Cell(j) \in Bytes
      BY <2>1, RoomType DEF RingType, RingInv
    <3> QED BY <2>1, <3>1
  <2> QED BY <2>2, <2>3 DEF RingType
<1>4. ASSUME NEW p \in Procs, SysPipe(p)
      PROVE  RingType'
  <2>1. nread' = 0 /\ nwrite' = 0 /\ data' = data /\ got' = got
    BY <1>4 DEF SysPipe
  <2>2. Count' = 0
    BY <2>1, RingAssumption, ModSmall DEF Count
  <2> QED BY <2>1, <2>2, RingAssumption DEF RingType, RingInv
<1>5. ASSUME NEW p \in Procs, NEW q \in Procs, NEW e \in Ends,
             \/ Fork(p, q) \/ SysClose(p, e) \/ Exit(p) \/ FileClose(p, e)
             \/ PipeClose(p, e) \/ KFree(p) \/ SysWrite(p) \/ SysRead(p)
             \/ ReadEmpty(p) \/ Sleep(p) \/ Kill(p)
      PROVE  RingType'
  BY <1>5, OtherEffect, RingSame
<1>6. "r" \in Ends
  BY DEF Ends
<1> QED BY <1>1, <1>2, <1>3, <1>4, <1>5, <1>6 DEF Next, Kernel

-----------------------------------------------------------------------------
(* Who is asleep.                                                          *)

RSleeping == {"rsleep", "rwait"}
WSleeping == {"wsleep", "wwait"}

SleepInv ==
  \A p \in Procs :
    /\ pc[p] \in RSleeping => wopen /\ (nread = nwrite \/ quiet)
    /\ pc[p] \in WSleeping => Room = 0 /\ ropen

LEMMA SleepSame ==
  ASSUME SleepInv, UNCHANGED <<nread, nwrite, ropen, wopen, quiet>>,
         \A q \in Procs :
           /\ pc'[q] \in RSleeping =>
                pc[q] \in RSleeping \/ (wopen /\ nread = nwrite)
           /\ pc'[q] \in WSleeping => pc[q] \in WSleeping
  PROVE  SleepInv'
<1>1. Room' = Room
  BY DEF Room
<1> QED BY <1>1 DEF SleepInv

LEMMA SleepFiles ==
  ASSUME Types, Shared, SleepInv, NEW p \in Procs, NEW q \in Procs, NEW e \in Ends,
         \/ SysPipe(p) \/ Fork(p, q) \/ SysClose(p, e) \/ Exit(p)
         \/ FileClose(p, e) \/ KFree(p)
  PROVE  SleepInv'
<1>1. CASE SysPipe(p)
  <2>1. pc' = pc /\ \A r \in Procs : pc[r] = "user"
    BY <1>1 DEF SysPipe, Shared, CloseInv
  <2> QED BY <2>1 DEF SleepInv, RSleeping, WSleeping
<1>2. CASE Fork(p, q)
  BY <1>2, SleepSame DEF Fork, pipe
<1>3. CASE SysClose(p, e)
  BY <1>3, SleepSame DEF SysClose, pipe
<1>4. CASE Exit(p)
  BY <1>4, SleepSame DEF Exit, pipe
<1>5. CASE FileClose(p, e)
  <2>1. \A r \in Procs : pc'[r] \in RSleeping \cup WSleeping => pc'[r] = pc[r]
    BY <1>5 DEF FileClose, Goto, Closing, Types, RSleeping, WSleeping
  <2> QED BY <1>5, <2>1, SleepSame DEF FileClose, pipe
<1>6. CASE KFree(p)
  <2>1. \A r \in Procs : pc'[r] \in RSleeping \cup WSleeping => pc'[r] = pc[r]
    BY <1>6 DEF KFree, Goto, Types, RSleeping, WSleeping
  <2> QED BY <1>6, <2>1, SleepSame DEF KFree, pipe
<1> QED BY <1>1, <1>2, <1>3, <1>4, <1>5, <1>6

LEMMA SleepCalls ==
  ASSUME Types, Shared, SleepInv, NEW p \in Procs,
         SysWrite(p) \/ SysRead(p) \/ ReadEmpty(p) \/ Sleep(p) \/ Kill(p)
  PROVE  SleepInv'
<1>1. CASE SysWrite(p) \/ SysRead(p)
  <2>1. \A r \in Procs : pc'[r] \in RSleeping \cup WSleeping => pc'[r] = pc[r]
    BY <1>1 DEF SysWrite, SysRead, Goto, Types, RSleeping, WSleeping
  <2> QED BY <1>1, <2>1, SleepSame DEF SysWrite, SysRead, pipe
<1>2. CASE ReadEmpty(p)
  <2>1. \A r \in Procs : /\ pc'[r] \in RSleeping => r = p \/ pc'[r] = pc[r]
                         /\ pc'[r] \in WSleeping => pc'[r] = pc[r]
    BY <1>2 DEF ReadEmpty, Goto, Types, RSleeping, WSleeping
  <2> QED BY <1>2, <2>1, SleepSame DEF ReadEmpty, pipe
<1>3. CASE Sleep(p)
  <2>1. pc[p] \in {"rsleep", "wsleep"}
    BY <1>3 DEF Sleep, Shared, CallInv
  <2>2. \A r \in Procs : /\ pc'[r] \in RSleeping => pc[r] \in RSleeping
                         /\ pc'[r] \in WSleeping => pc[r] \in WSleeping
    BY <1>3, <2>1 DEF Sleep, Goto, Types, RSleeping, WSleeping
  <2> QED BY <1>3, <2>2, SleepSame DEF Sleep, pipe
<1>4. CASE Kill(p)
  <2>1. \A r \in Procs : pc'[r] \in RSleeping \cup WSleeping => pc'[r] = pc[r]
    BY <1>4 DEF Kill, Resumed, Types, RSleeping, WSleeping
  <2> QED BY <1>4, <2>1, SleepSame DEF Kill, pipe
<1> QED BY <1>1, <1>2, <1>3, <1>4

\* With the lock free nobody is between the test and the sleep.
LEMMA NobodyFallsAsleep ==
  ASSUME Shared, Free, NEW q \in Procs
  PROVE  pc[q] # "rsleep" /\ pc[q] # "wsleep"
BY ProcAssumption DEF Free, Shared, CallInv

LEMMA SleepPipeClose ==
  ASSUME Types, Shared, SleepInv, NEW p \in Procs, NEW e \in Ends, PipeClose(p, e)
  PROVE  SleepInv'
<1> DEFINE l == IF BothClosed(ropen', wopen') THEN "kfree" ELSE "user"
<1>1. /\ Free /\ UNCHANGED <<nread, nwrite>>
      /\ wopen' = (wopen /\ e # "w") /\ ropen' = (ropen /\ e # "r")
      /\ quiet' = (quiet /\ e # "w")
      /\ pc' = Woken(HangupWakes(e), p, l)
  BY DEF PipeClose
<1>2. HangupWakes(e) \in SUBSET {"rwait", "wwait"} /\ l \in {"kfree", "user"}
  BY DEF HangupWakes
<1> HIDE DEF l
<1>3. l \in Labels
  BY <1>2 DEF Labels
<1>4. \A q \in Procs : pc'[q] \in RSleeping \cup WSleeping =>
        pc'[q] = pc[q] /\ pc[q] \notin HangupWakes(e)
  BY <1>1, <1>2, <1>3, WokenType DEF RSleeping, WSleeping
<1>5. Room' = Room
  BY <1>1 DEF Room
<1>6. CASE e = "w"
  <2>1. \A q \in Procs : pc'[q] \notin RSleeping
    BY <1>1, <1>4, <1>6, NobodyFallsAsleep DEF HangupWakes, RSleeping
  <2> QED BY <1>1, <1>4, <1>5, <1>6, <2>1 DEF SleepInv
<1>7. CASE e = "r"
  <2>1. \A q \in Procs : pc'[q] \notin WSleeping
    BY <1>1, <1>4, <1>7, NobodyFallsAsleep DEF HangupWakes, WSleeping
  <2> QED BY <1>1, <1>4, <1>5, <1>7, <2>1 DEF SleepInv
<1> QED BY <1>6, <1>7, EndFacts

LEMMA RoomCount == Types /\ RingInv => Room = PIPESIZE - Count
BY CountRoom DEF RingInv

LEMMA RoomCountNext == Types' /\ RingInv' => Room' = PIPESIZE - Count'
<1>1. (Types /\ RingInv => Room = PIPESIZE - Count)'
  BY RoomCount, PTL
<1> QED BY <1>1

LEMMA SleepWrite ==
  ASSUME Types, Types', Shared, RingInv, SleepInv, NEW p \in Procs,
         WriteAll(p) \/ WriteFull(p)
  PROVE  SleepInv'
<1>1. PICK s \in Seq(Bytes) : \E k \in 0..Len(s) :
        k <= Room /\ Store(s, k) /\ (WriteFull(p) => k = Room)
  BY WriteEffect
<1>2. PICK k \in 0..Len(s) : k <= Room /\ Store(s, k) /\ (WriteFull(p) => k = Room)
  BY <1>1
<1>3. nread' = nread /\ nwrite' = Plus(nwrite, k)
      /\ ropen' = ropen /\ wopen' = wopen /\ Free
  BY <1>2, WriteEffect DEF WriteAll, WriteFull, Store
<1>4. Count' = Count + k /\ RingInv'
  BY <1>2, <1>3, StoreRing
<1>5. Room' = Room - k /\ k \in Nat /\ Room \in Nat
  <2>1. Room = PIPESIZE - Count /\ Room' = PIPESIZE - Count'
    BY <1>4, RoomCount, RoomCountNext
  <2>2. Room \in Nat /\ Count \in Nat /\ PIPESIZE \in Nat /\ k \in Nat
    BY RoomType, RingAssumption
  <2> QED BY <1>4, <2>1, <2>2
<1>6. Room = 0 => Room' = 0 /\ nwrite' = nwrite
  <2>1. WRAP \in Nat /\ nwrite \in 0..WRAP-1
    BY RingAssumption DEF Types
  <2>2. nwrite % WRAP = nwrite /\ nwrite + 0 = nwrite
    BY <2>1, ModSmall
  <2>3. Plus(nwrite, 0) = nwrite
    BY <2>2 DEF Plus
  <2>4. Room = 0 => k = 0
    BY <1>2, <1>5
  <2>5. ASSUME Room = 0 PROVE Room' = 0
    <3>1. k = 0
      BY <2>4, <2>5
    <3>2. Room - k = 0
      BY <2>5, <3>1
    <3> QED BY <1>5, <3>2
  <2> QED BY <1>3, <2>3, <2>4, <2>5
<1>7. CASE pc' = Woken({"rwait"}, p, "user") \/ pc' = Woken({"rwait"}, p, "wsleep")
  <2>1. "user" \in Labels /\ "wsleep" \in Labels
    BY DEF Labels, Writing
  <2>2. \A q \in Procs : q # p => (pc'[q] \in RSleeping \cup WSleeping =>
                           pc'[q] = pc[q] /\ pc[q] # "rwait")
    BY <1>7, <2>1, WokenType DEF RSleeping, WSleeping
  <2>3. pc'[p] \in {"user", "wsleep"}
    BY <1>7, <2>1, WokenType
  <2>4. pc'[p] = "wsleep" => WriteFull(p) /\ ropen
    <3>1. CASE WriteAll(p)
      <4>1. pc' = Woken({"rwait"}, p, "user")
        BY <3>1 DEF WriteAll
      <4> QED BY <4>1, <2>1, WokenType
    <3>2. CASE WriteFull(p) /\ (~ropen \/ killed[p])
      BY <3>2 DEF WriteFull, Goto, Types
    <3>3. CASE WriteFull(p) /\ ~(~ropen \/ killed[p])
      BY <3>3
    <3> QED BY <3>1, <3>2, <3>3
  <2>5. \A q \in Procs : pc'[q] \notin RSleeping
    BY <1>3, <2>2, <2>3, NobodyFallsAsleep DEF RSleeping
  <2>6. \A q \in Procs : pc'[q] \in WSleeping => Room' = 0 /\ ropen'
    <3> SUFFICES ASSUME NEW q \in Procs, pc'[q] \in WSleeping
                 PROVE Room' = 0 /\ ropen'
      OBVIOUS
    <3>1. CASE q = p
      BY <1>2, <1>3, <1>5, <2>3, <2>4, <3>1 DEF WSleeping
    <3>2. CASE q # p
      BY <1>3, <1>6, <2>2, <3>2 DEF SleepInv
    <3> QED BY <3>1, <3>2
  <2> QED BY <2>5, <2>6 DEF SleepInv
<1>8. CASE WriteFull(p) /\ (~ropen \/ killed[p])
  <2>1. /\ pc' = [pc EXCEPT ![p] = "user"] /\ quiet' = (quiet \/ Room > 0)
    BY <1>8 DEF WriteFull, Goto
  <2>2. \A q \in Procs : pc'[q] \in RSleeping \cup WSleeping => pc'[q] = pc[q]
    BY <2>1 DEF Types, RSleeping, WSleeping
  <2>3. ASSUME nread = nwrite \/ quiet PROVE nread' = nwrite' \/ quiet'
    <3>1. CASE Room = 0
      BY <1>3, <1>6, <2>1, <2>3, <3>1
    <3>2. CASE Room > 0
      BY <2>1, <3>2
    <3> QED BY <1>5, <3>1, <3>2
  <2> QED BY <1>3, <1>6, <2>2, <2>3 DEF SleepInv
<1> QED BY <1>7, <1>8 DEF WriteAll, WriteFull, FullWakes

LEMMA SleepRead ==
  ASSUME Types, Shared, SleepInv, NEW p \in Procs, ReadSome(p)
  PROVE  SleepInv'
<1>1. /\ Free /\ (nread # nwrite \/ ~wopen) /\ pc' = Woken({"wwait"}, p, "user")
      /\ UNCHANGED <<wopen, ropen, quiet>>
  BY DEF ReadSome
<1>2. "user" \in Labels
  BY DEF Labels
<1>3. \A q \in Procs : pc'[q] \in RSleeping \cup WSleeping =>
        pc'[q] = pc[q] /\ pc[q] # "wwait"
  BY <1>1, <1>2, WokenType DEF RSleeping, WSleeping
<1>4. \A q \in Procs : pc'[q] \notin WSleeping
  BY <1>1, <1>3, NobodyFallsAsleep DEF WSleeping
<1>5. \A q \in Procs : pc'[q] \in RSleeping => wopen' /\ quiet'
  BY <1>1, <1>3 DEF SleepInv
<1> QED BY <1>4, <1>5 DEF SleepInv

LEMMA SleepStep ==
  ASSUME Types, Types', Shared, RingInv, SleepInv, [Next]_vars
  PROVE  SleepInv'
<1>1. CASE UNCHANGED vars
  BY <1>1, SleepSame DEF vars, pipe
<1>2. ASSUME NEW p \in Procs, NEW q \in Procs, NEW e \in Ends,
             \/ SysPipe(p) \/ Fork(p, q) \/ SysClose(p, e) \/ Exit(p)
             \/ FileClose(p, e) \/ PipeClose(p, e) \/ KFree(p)
             \/ SysWrite(p) \/ WriteAll(p) \/ WriteFull(p) \/ SysRead(p)
             \/ ReadSome(p) \/ ReadEmpty(p) \/ Sleep(p) \/ Kill(p)
      PROVE  SleepInv'
  BY <1>2, SleepFiles, SleepCalls, SleepPipeClose, SleepWrite, SleepRead
<1>3. "r" \in Ends
  BY DEF Ends
<1> QED BY <1>1, <1>2, <1>3 DEF Next, Kernel

-----------------------------------------------------------------------------
(* The theorems.                                                           *)

IInv == Types /\ Shared /\ RingType /\ SleepInv

LEMMA Inductive == Spec => []IInv
<1>1. Init => IInv
  <2>1. Init => SleepInv
    BY DEF Init, SleepInv, RSleeping, WSleeping
  <2> QED BY <2>1, TypesInit, SharedInit, RingInit DEF IInv
<1>2. IInv /\ [Next]_vars => IInv'
  <2> SUFFICES ASSUME IInv, [Next]_vars PROVE IInv'
    OBVIOUS
  <2>1. Types' /\ Shared' /\ RingType'
    BY TypeStep, SharedStep, RingStep DEF IInv
  <2>2. SleepInv'
    BY <2>1, SleepStep DEF IInv, RingType
  <2> QED BY <2>1, <2>2 DEF IInv
<1> QED BY <1>1, <1>2, PTL DEF Spec

(***************************************************************************)
(* Every variable has its type; in particular read() never returns what    *)
(* kfree() left in the page (piperead(), kernel/pipe.c).                   *)
(***************************************************************************)
THEOREM TypeCorrect == Spec => []TypeOK
<1>1. IInv => TypeOK
  <2> SUFFICES ASSUME IInv PROVE TypeOK
    OBVIOUS
  <2>1. \A e \in Ends : ref[e] \in Nat
    BY HoldersFinite, FS_CardinalityType DEF IInv, Shared, RefInv
  <2>2. ref \in [Ends -> Nat]
    BY <2>1 DEF IInv, Types
  <2>3. data \in [0..PIPESIZE-1 -> Bytes \cup {Junk}] /\ got \in Seq(Bytes)
    BY DEF IInv, RingType, RingInv
  <2> QED BY <2>2, <2>3 DEF IInv, Types, TypeOK, Labels, Writing, Reading
<1> QED BY <1>1, Inductive, PTL

(***************************************************************************)
(* No process sleeps in piperead() or pipewrite() for what is already so,  *)
(* whatever the interleaving of calls, closes and kills (pipe.c:64-93).    *)
(***************************************************************************)
THEOREM SleepSafety == Spec => []SleepersWait
<1>1. IInv => SleepersWait
  BY DEF IInv, SleepInv, SleepersWait, RSleeping, WSleeping
<1> QED BY <1>1, Inductive, PTL

(***************************************************************************)
(* pipeclose() frees the page once, after everybody has let go of it       *)
(* (pipe.c:44-62, file.c:52-77).                                           *)
(***************************************************************************)
THEOREM PageSafety == Spec => []PageHeld
<1>1. IInv => PageHeld
  BY DEF IInv, Shared, CloseInv, PageHeld
<1> QED BY <1>1, Inductive, PTL

(***************************************************************************)
(* End of file and a broken pipe are only seen when no descriptor of the   *)
(* other end is left, those of forked children included (file.c:39-77).    *)
(***************************************************************************)
THEOREM HangupSafety == Spec => []HangupJustified
<1>1. IInv => HangupJustified
  <2> SUFFICES ASSUME IInv, NEW p \in Procs, NEW e \in Ends,
                      e \in fds[p] \cup todo[p]
               PROVE  Open(e)
    BY DEF HangupJustified, Open, Ends
  <2>1. page = "used"
    BY PageUsed DEF IInv
  <2>2. Holders(e) # {}
    BY DEF Holders
  <2> QED BY <2>1, <2>2 DEF IInv, Shared, CloseInv
<1> QED BY <1>1, Inductive, PTL

-----------------------------------------------------------------------------
(* The queue that the ring implements.                                     *)

LEMMA ContentSeq ==
  ASSUME Types, RingInv
  PROVE  /\ Content \in Seq(Bytes) /\ Len(Content) = Count
         /\ \A j \in 1..Count : Content[j] = Cell(j)
<1>1. Count \in Nat /\ Content = [j \in 1..Count |-> Cell(j)]
  BY RoomType DEF Content, Cell, Place
<1>2. \A j \in 1..Count : Cell(j) \in Bytes
  BY DEF RingInv
<1> QED BY <1>1, <1>2

LEMMA ContentSeqThen ==
  Types /\ RingInv =>
    /\ Content \in Seq(Bytes) /\ Len(Content) = Count
    /\ \A j \in 1..Count : Content[j] = Cell(j)
BY ContentSeq

LEMMA ContentNext ==
  Types' /\ RingInv' =>
    /\ Content' \in Seq(Bytes) /\ Len(Content') = Count'
    /\ \A j \in 1..Count' : Content'[j] = Cell(j)'
<1>1. (Types /\ RingInv =>
        /\ Content \in Seq(Bytes) /\ Len(Content) = Count
        /\ \A j \in 1..Count : Content[j] = Cell(j))'
  BY ContentSeqThen, PTL
<1> QED BY <1>1

LEMMA QueueSame ==
  ASSUME UNCHANGED <<page, data, nread, nwrite>>
  PROVE  Queue' = Queue
BY DEF Queue, Content, Count, Index, Plus

LEMMA EndsSame ==
  ASSUME UNCHANGED <<page, ropen, wopen>>
  PROVE  OpenEnds' = OpenEnds
BY DEF OpenEnds

\* Whoever reads or writes finds its end open.
LEMMA OwnEndOpen ==
  ASSUME Types, Shared, NEW p \in Procs, NEW e \in Ends, e \in fds[p]
  PROVE  page = "used" /\ e \in OpenEnds
<1>1. page = "used"
  BY PageUsed
<1>2. p \in Holders(e)
  BY DEF Holders
<1>3. Open(e)
  BY <1>1, <1>2 DEF Shared, CloseInv
<1> QED BY <1>1, <1>3 DEF OpenEnds, Open, Ends

LEMMA WritePuts ==
  ASSUME IInv, IInv', NEW p \in Procs, WriteAll(p) \/ WriteFull(p)
  PROVE  [Fifo!Next]_(Fifo!vars)
<1>i. Types /\ Types' /\ Shared /\ RingInv /\ RingInv'
  BY DEF IInv, RingType
<1>1. PICK s \in Seq(Bytes) : \E k \in 0..Len(s) : k <= Room /\ Store(s, k)
  BY <1>i, WriteEffect
<1>2. PICK k \in 0..Len(s) : k <= Room /\ Store(s, k)
  BY <1>1
<1>3. nread' = nread
  BY <1>i, WriteEffect
<1>4. /\ Count' = Count + k
      /\ \A j \in 1..Count : Cell(j)' = Cell(j)
      /\ \A j \in 1..Count+k : j > Count => Cell(j)' = s[j - Count]
  BY <1>i, <1>2, <1>3, StoreRing
<1>5. /\ got' = got /\ page' = page /\ ropen' = ropen /\ wopen' = wopen
      /\ pc[p] = "write"
  BY DEF WriteAll, WriteFull
<1>6. page = "used" /\ "w" \in OpenEnds
  <2>1. "w" \in fds[p]
    BY <1>5, <1>i DEF Shared, CallInv, Writing
  <2> QED BY <1>i, <2>1, OwnEndOpen, EndFacts
<1>7. Queue = Content /\ Queue' = Content'
  BY <1>5, <1>6 DEF Queue
<1>8. /\ Count \in Nat /\ k \in Nat /\ k <= PIPESIZE - Count /\ Len(s) \in Nat
      /\ k <= Len(s) /\ PIPESIZE \in Nat
  BY <1>i, <1>2, RoomType, RoomCount, RingAssumption
<1>9. PICK t : t = SubSeq(s, 1, k)
  OBVIOUS
<1>10. /\ t \in Seq(Bytes) /\ Len(t) = k /\ t \in [1..k -> Bytes]
       /\ \A j \in 1..k : t[j] = s[j]
  <2>1. 1 \in Int /\ k \in Int /\ \A j \in 1..k : s[j] \in Bytes
    BY <1>8
  <2>2. /\ t \in Seq(Bytes) /\ Len(t) = (IF 1 <= k THEN k - 1 + 1 ELSE 0)
        /\ \A j \in 1..(k - 1) + 1 : t[j] = s[(1 + j) - 1]
    BY <1>9, <2>1
  <2>3. Len(t) = k
    BY <1>8, <2>2
  <2>4. \A j \in 1..k : t[j] = s[j]
    <3> SUFFICES ASSUME NEW j \in 1..k PROVE t[j] = s[j]
      OBVIOUS
    <3>1. j \in 1..(k - 1) + 1 /\ (1 + j) - 1 = j
      BY <1>8
    <3> QED BY <2>2, <3>1
  <2>5. t \in [1..k -> Bytes]
    BY <2>2, <2>3, LenProperties
  <2> QED BY <2>2, <2>3, <2>4, <2>5
<1>11. /\ Content \in Seq(Bytes) /\ Len(Content) = Count
       /\ \A j \in 1..Count : Content[j] = Cell(j)
  BY <1>i, ContentSeq
<1>12. /\ Content' \in Seq(Bytes) /\ Len(Content') = Count + k
       /\ \A j \in 1..Count+k : Content'[j] = Cell(j)'
  BY <1>i, <1>4, ContentNext
<1>13. Content' = Content \o t
  <2>1. /\ Content \o t \in Seq(Bytes) /\ Len(Content \o t) = Count + k
        /\ \A j \in 1..Count+k : (Content \o t)[j] =
             IF j <= Count THEN Content[j] ELSE t[j - Count]
    BY <1>8, <1>10, <1>11, ConcatProperties
  <2>2. \A j \in 1..Count+k : Content'[j] = (Content \o t)[j]
    <3> SUFFICES ASSUME NEW j \in 1..Count+k
                 PROVE Content'[j] = (Content \o t)[j]
      OBVIOUS
    <3>1. CASE j <= Count
      <4>1. j \in 1..Count
        BY <1>8, <3>1
      <4> QED BY <1>4, <1>11, <1>12, <2>1, <3>1, <4>1
    <3>2. CASE j > Count
      <4>1. j - Count \in 1..k /\ ~(j <= Count)
        BY <1>8, <3>2
      <4> QED BY <1>4, <1>10, <1>12, <2>1, <3>2, <4>1
    <3>3. j <= Count \/ j > Count
      BY <1>8
    <3> QED BY <3>1, <3>2, <3>3
  <2> QED BY <1>12, <2>1, <2>2, SeqEqual
<1>14. OpenEnds' = OpenEnds
  BY <1>5, EndsSame
<1>15. CASE k = 0
  <2>1. t = <<>> /\ Content \o <<>> = Content
    BY <1>10, <1>11, <1>15, EmptySeq, ConcatEmptySeq
  <2>2. Queue' = Queue
    BY <1>7, <1>13, <2>1
  <2> QED BY <1>5, <1>14, <2>2 DEF Fifo!vars
<1>16. CASE k # 0
  <2>1. k \in 1..PIPESIZE - Len(Queue)
    BY <1>7, <1>8, <1>11, <1>16
  <2>2. Queue' = Queue \o t
    BY <1>7, <1>13
  <2>3. Fifo!Put
    BY <1>5, <1>6, <1>10, <1>14, <2>1, <2>2 DEF Fifo!Put
  <2> QED BY <2>3 DEF Fifo!Next
<1> QED BY <1>15, <1>16

LEMMA ReadTakes ==
  ASSUME IInv, IInv', NEW p \in Procs, ReadSome(p)
  PROVE  Fifo!Next
<1>i. Types /\ Types' /\ Shared /\ RingInv /\ RingInv'
  BY DEF IInv, RingType
<1>1. PICK k \in 0..Count :
        /\ nread' = Plus(nread, k) /\ nwrite' = nwrite /\ data' = data
        /\ got' = [j \in 1..k |-> Cell(j)]
  BY <1>i, ReadEffect
<1>2. Count' = Count - k /\ \A j \in 1..Count-k : Cell(j)' = Cell(k + j)
  BY <1>i, <1>1, TakeRing
<1>3. page' = page /\ ropen' = ropen /\ wopen' = wopen /\ pc[p] = "read"
  BY DEF ReadSome
<1>4. page = "used" /\ "r" \in OpenEnds
  <2>1. "r" \in fds[p]
    BY <1>3, <1>i DEF Shared, CallInv, Reading
  <2> QED BY <1>i, <2>1, OwnEndOpen, EndFacts
<1>5. Queue = Content /\ Queue' = Content'
  BY <1>3, <1>4 DEF Queue
<1>6. Count \in Nat /\ k \in Nat /\ k <= Count /\ Count <= PIPESIZE /\ PIPESIZE \in Nat
  BY <1>i, RoomType, RingAssumption DEF RingInv
<1>7. /\ Content \in Seq(Bytes) /\ Len(Content) = Count
      /\ \A j \in 1..Count : Content[j] = Cell(j)
  BY <1>i, ContentSeq
<1>8. /\ Content' \in Seq(Bytes) /\ Len(Content') = Count - k
      /\ \A j \in 1..Count-k : Content'[j] = Cell(j)'
  BY <1>i, <1>2, ContentNext
<1>c. \A j \in 1..Count : Content[j] \in Bytes
  BY <1>7
<1>9. got' = SubSeq(Content, 1, k)
  <2>1. \A j \in 1..k : Content[j] = Cell(j)
    BY <1>6, <1>7
  <2>2. SubSeq(Content, 1, k) = [j \in 1..k |-> Content[j]]
    BY <1>6, <1>7
  <2> QED BY <1>1, <2>1, <2>2
<1>10. Content' = SubSeq(Content, k + 1, Count)
  <2>1. \A j \in k+1..Count : Content[j] \in Bytes
    BY <1>6, <1>c
  <2>2. k + 1 \in Int /\ Count \in Int
    BY <1>6
  <2>3. /\ SubSeq(Content, k + 1, Count) \in Seq(Bytes)
        /\ Len(SubSeq(Content, k + 1, Count)) =
             IF k + 1 <= Count THEN Count - (k + 1) + 1 ELSE 0
        /\ \A j \in 1..(Count - (k + 1)) + 1 :
             SubSeq(Content, k + 1, Count)[j] = Content[((k + 1) + j) - 1]
    BY <1>6, <2>1, <2>2, <1>7
  <2>4. Len(SubSeq(Content, k + 1, Count)) = Count - k
    BY <1>6, <2>3
  <2>5. \A j \in 1..Count-k : SubSeq(Content, k + 1, Count)[j] = Content'[j]
    <3> SUFFICES ASSUME NEW j \in 1..Count-k
                 PROVE SubSeq(Content, k + 1, Count)[j] = Content'[j]
      OBVIOUS
    <3>1. /\ j \in 1..(Count - (k + 1)) + 1 /\ ((k + 1) + j) - 1 = k + j
          /\ k + j \in 1..Count
      BY <1>6
    <3>2. SubSeq(Content, k + 1, Count)[j] = Content[k + j]
      BY <2>3, <3>1
    <3>3. Content[k + j] = Cell(k + j)
      BY <1>7, <3>1
    <3> QED BY <1>2, <1>8, <3>2, <3>3
  <2> QED BY <1>8, <2>3, <2>4, <2>5, SeqEqual
<1>11. OpenEnds' = OpenEnds
  BY <1>3, EndsSame
<1>12. Fifo!Take(k)
  BY <1>4, <1>5, <1>6, <1>7, <1>9, <1>10, <1>11 DEF Fifo!Take
<1>13. k \in 0..PIPESIZE
  BY <1>6
<1> QED BY <1>12, <1>13 DEF Fifo!Next

(***************************************************************************)
(* The ring of pipe.c, with its wrapping counters and any number of        *)
(* readers and writers, is a bounded first-in-first-out queue.             *)
(***************************************************************************)
THEOREM FifoImplemented == Spec => ImplementsFifo
<1>1. Init => Fifo!Init
  <2> SUFFICES ASSUME Init PROVE Fifo!Init
    OBVIOUS
  <2>1. Queue = <<>> /\ got = <<>>
    BY DEF Init, Queue
  <2>2. OpenEnds = {"r", "w"}
    BY DEF Init, OpenEnds, Ends
  <2> QED BY <2>1, <2>2 DEF Fifo!Init
<1>2. IInv /\ IInv' /\ [Next]_vars => [Fifo!Next]_(Fifo!vars)
  <2> SUFFICES ASSUME IInv, IInv', [Next]_vars
               PROVE [Fifo!Next]_(Fifo!vars)
    OBVIOUS
  <2>1. CASE UNCHANGED vars
    <3>1. Queue' = Queue /\ OpenEnds' = OpenEnds /\ got' = got
      BY <2>1, QueueSame, EndsSame DEF vars, pipe
    <3> QED BY <3>1 DEF Fifo!vars
  <2>2. ASSUME NEW p \in Procs, NEW q \in Procs, NEW e \in Ends,
               \/ Fork(p, q) \/ SysClose(p, e) \/ Exit(p) \/ FileClose(p, e)
               \/ SysWrite(p) \/ SysRead(p) \/ ReadEmpty(p) \/ Sleep(p)
               \/ Kill(p)
        PROVE  [Fifo!Next]_(Fifo!vars)
    <3>1. UNCHANGED <<page, data, nread, nwrite, got, ropen, wopen>>
      BY <2>2 DEF Fork, SysClose, Exit, FileClose, SysWrite, SysRead,
                  ReadEmpty, Sleep, Kill, pipe
    <3>2. Queue' = Queue /\ OpenEnds' = OpenEnds
      BY <3>1, QueueSame, EndsSame
    <3> QED BY <3>1, <3>2 DEF Fifo!vars
  <2>3. ASSUME NEW p \in Procs, SysPipe(p)
        PROVE  [Fifo!Next]_(Fifo!vars)
    <3>1. /\ page = "none" /\ page' = "used" /\ nread' = 0 /\ nwrite' = 0
          /\ ropen' = TRUE /\ wopen' = TRUE /\ got' = got
      BY <2>3 DEF SysPipe
    <3>2. ropen = TRUE /\ wopen = TRUE
      BY <3>1 DEF IInv, Shared, CloseInv, Types
    <3>3. OpenEnds' = OpenEnds
      BY <3>1, <3>2 DEF OpenEnds
    <3>4. Count' = 0
      BY <3>1, RingAssumption, ModSmall DEF Count
    <3>5. Content' \in Seq(Bytes) /\ Len(Content') = 0
      BY <3>4, ContentNext DEF IInv, RingType
    <3>6. Content' = <<>>
      BY <3>5, EmptySeq
    <3>7. Queue' = Queue
      BY <3>1, <3>6 DEF Queue
    <3> QED BY <3>1, <3>3, <3>7 DEF Fifo!vars
  <2>4. ASSUME NEW p \in Procs, KFree(p)
        PROVE  [Fifo!Next]_(Fifo!vars)
    <3>1. page' = "freed" /\ got' = got /\ pc[p] = "kfree"
      BY <2>4 DEF KFree
    <3>2. ~ropen /\ ~wopen
      BY <3>1 DEF IInv, Shared, CloseInv
    <3>3. OpenEnds = {} /\ OpenEnds' = {}
      BY <3>1, <3>2 DEF OpenEnds, Ends
    <3>4. Queue' = <<>>
      BY <3>1 DEF Queue
    <3>5. Fifo!Drop
      BY <3>1, <3>3, <3>4 DEF Fifo!Drop
    <3> QED BY <3>5 DEF Fifo!Next
  <2>5. ASSUME NEW p \in Procs, NEW e \in Ends, PipeClose(p, e)
        PROVE  [Fifo!Next]_(Fifo!vars)
    <3>1. /\ pc[p] = Closing(e) /\ got' = got
          /\ UNCHANGED <<page, data, nread, nwrite>>
          /\ wopen' = (wopen /\ e # "w") /\ ropen' = (ropen /\ e # "r")
      BY <2>5 DEF PipeClose
    <3>2. page = "used"
      BY <3>1, PageUsed DEF IInv, Closing
    <3>3. Open(e)
      BY <3>1, <3>2 DEF IInv, Shared, CloseInv
    <3>4. e \in OpenEnds /\ OpenEnds' = OpenEnds \ {e}
      BY <3>1, <3>2, <3>3 DEF OpenEnds, Open, Ends
    <3>5. Queue' = Queue
      BY <3>1, QueueSame
    <3>6. Fifo!Close(e)
      BY <3>1, <3>4, <3>5 DEF Fifo!Close
    <3> QED BY <3>6 DEF Fifo!Next, Ends
  <2>6. "r" \in Ends
    BY DEF Ends
  <2> QED BY <2>1, <2>2, <2>3, <2>4, <2>5, <2>6, WritePuts, ReadTakes DEF Next, Kernel
<1> QED BY <1>1, <1>2, Inductive, PTL DEF Spec, ImplementsFifo, Fifo!Spec
=============================================================================
