---------------------------- MODULE Mlfq_proofs ----------------------------
(***************************************************************************)
(* Proofs, for any number of CPUs, slots and levels and any tables, of the *)
(* safety properties of Mlfq.  IInv is inductive.  The tables are only     *)
(* used through TableFacts, and the layout of struct proc through          *)
(* StrikeFacts, so no other step does arithmetic on products.              *)
(***************************************************************************)
EXTENDS Mlfq, TLAPS

Threshold(l) == AgeFactor * TimeSlice[l]

LEMMA SlotFacts == NoSlot \notin Slots /\ Init0 \in Slots
BY SizeAssumption DEF Slots, NoSlot, Init0

(***************************************************************************)
(* What the tables hold, and that every level has a threshold in range.    *)
(***************************************************************************)
LEMMA TableFacts ==
  /\ TOP \in Nat /\ TOP > 0 /\ NPROC \in Nat
  /\ \A l \in 0..TOP : TimeSlice[l] \in Nat /\ Slices[l] \in Nat
  /\ \A l \in 0..TOP : /\ Threshold(l) \in Nat
                       /\ Threshold(l) > 0 /\ Threshold(l) < WAITCAP
  /\ WAITCAP \in Nat /\ MAXPASS \in Nat
<1>1. \A m, n \in Nat \ {0} : m * n \in Nat /\ m * n > 0
      OBVIOUS
<1>2. \A m, n \in Nat : m * n \in Nat
      OBVIOUS
<1>3. TOP \in Nat /\ TOP > 0 /\ NPROC \in Nat /\ WAITCAP \in Nat
      BY SizeAssumption, TableAssumption
<1>4. \A l \in 0..TOP : /\ TimeSlice[l] \in Nat \ {0}
                        /\ Slices[l] \in Nat \ {0}
      BY TableAssumption
<1>5. \A l \in 0..TOP : /\ Threshold(l) \in Nat
                        /\ Threshold(l) > 0 /\ Threshold(l) < WAITCAP
      BY <1>1, <1>4, TableAssumption DEF Threshold
<1>6. MAXPASS \in Nat
  <2>1. NPROC - 2 \in Nat
        BY SizeAssumption
  <2>2. TimeSlice[TOP - 1] \in Nat /\ TimeSlice[TOP] \in Nat
        BY <1>3, <1>4
  <2> QED  BY <2>1, <2>2, <1>2 DEF MAXPASS
<1> QED  BY <1>3, <1>4, <1>5, <1>6

LEMMA LookupType ==
  ASSUME NEW l \in Int
  PROVE  /\ \A t \in Lookup(TimeSlice, l) : t \in Int
         /\ \A n \in Lookup(Slices, l) : n \in Int
BY TableFacts, TableAssumption DEF Lookup

(***************************************************************************)
(* What p->ticks[p->priority]++ strikes: at most one more of any word; and *)
(* nothing in another slot, as long as it stays within its own.            *)
(***************************************************************************)
LEMMA StrikeFacts ==
  ASSUME NEW p \in Slots, NEW s \in Slots, NEW word \in 0..Words-1
  PROVE  /\ Strike(p, s, word) \in {0, 1}
         /\ priority[p] \in Nat /\ TicksAt + priority[p] < Words /\ s # p =>
              Strike(p, s, word) = 0
<1>1. Strike(p, s, word) \in {0, 1}
      BY DEF Strike
<1>2. ASSUME priority[p] \in Nat, TicksAt + priority[p] < Words, s # p
      PROVE  TicksAt + priority[p] # (s - p) * Words + word
  <2> DEFINE k == s - p
  <2>1. k \in Int /\ k # 0
        BY <1>2, TableFacts DEF Slots
  <2>2. Words \in Nat /\ word \in Nat /\ word < Words
        BY TableFacts DEF Words
  <2>3. \A w \in Nat : /\ k >= 1 => k * w >= w
                       /\ k <= -1 => k * w <= -w
    <3> HIDE DEF k
    <3>1. \A m, w \in Nat : m * w \in Nat
          OBVIOUS
    <3>2. ASSUME NEW w \in Nat, k >= 1 PROVE k * w >= w
      <4>1. (k - 1) * w \in Nat
            BY <2>1, <3>1, <3>2
      <4>2. k * w = (k - 1) * w + w
            BY <2>1
      <4> QED  BY <4>1, <4>2
    <3>3. ASSUME NEW w \in Nat, k <= -1 PROVE k * w <= -w
      <4>1. (-k - 1) * w \in Nat
            BY <2>1, <3>1, <3>3
      <4>2. k * w = -((-k - 1) * w) - w
            BY <2>1
      <4> QED  BY <4>1, <4>2
    <3> QED  BY <3>2, <3>3
  <2>4. CASE k >= 1
    <3> DEFINE there == (s - p) * Words
    <3>1. there >= Words
          BY <2>2, <2>3, <2>4
    <3>2. there \in Int
          BY <2>1, <2>2
    <3>3. TicksAt + priority[p] # there + word
      <4> HIDE DEF there
      <4> QED  BY <1>2, <2>2, <3>1, <3>2 DEF TicksAt
    <3> QED  BY <3>3
  <2>5. CASE k <= -1
    <3> DEFINE there == (s - p) * Words
    <3>1. there <= -Words
          BY <2>2, <2>3, <2>5
    <3>2. there \in Int
          BY <2>1, <2>2
    <3>3. TicksAt + priority[p] # there + word
      <4> HIDE DEF there
      <4> QED  BY <1>2, <2>2, <3>1, <3>2 DEF TicksAt
    <3> QED  BY <3>3
  <2> QED  BY <2>1, <2>4, <2>5
<1> QED  BY <1>1, <1>2 DEF Strike

LEMMA WordFacts ==
  {StateAt, WaitAt, PriorityAt, TickAt, SliceAt} \subseteq 0..Words-1
BY TableFacts DEF StateAt, WaitAt, PriorityAt, TickAt, SliceAt, Words

-----------------------------------------------------------------------------
(* The inductive invariant.                                                *)

\* While CPU c runs a process, its scheduler() stands at that slot.
CursorInv == \A c \in CPUS : running[c] # NoSlot => cursor[c] = running[c]

\* getheight() never chooses a negative level, and nothing lowers a running
\* process's level before it is back in scheduler().
RunningLevel ==
  ~overrun =>
    \A s \in Slots : /\ state[s] = "RUNNING" => priority[s] >= 0
                     /\ reg[s] >= 0

\* Only a RUNNABLE process has waited.
WaitInv ==
  ~overrun => \A s \in Slots : state[s] # "RUNNABLE" => wait_ticks[s] = 0

\* Nothing is claimed of processes once a slot was overwritten.
Claims == OneCpuEach /\ RunningLevel /\ WaitInv /\ WaitBelowThreshold

IInv == TypeOK /\ CursorInv /\ Claims

LEMMA NoClaims == overrun => Claims
BY DEF Claims, OneCpuEach, RunningLevel, WaitInv, WaitBelowThreshold

LEMMA InitInv == Init => IInv
<1> SUFFICES ASSUME Init PROVE IInv
    OBVIOUS
<1>1. TypeOK
  <2> USE SlotFacts, TableFacts DEF Init
  <2>1. /\ lock \in CPUS \cup {NoCpu}
        /\ running \in [CPUS -> Slots \cup {NoSlot}]
        /\ state \in [Slots -> {"UNUSED", "EMBRYO", "SLEEPING", "RUNNABLE",
                                "RUNNING"}]
        /\ pc \in [Slots -> {"other", "load", "store", "wait", "slice",
                             "tick"}]
        OBVIOUS
  <2>2. /\ cursor \in [CPUS -> 1..NPROC+1]
        /\ wait_ticks \in [Slots -> 0..WAITCAP]
        /\ passed \in [Slots -> 0..MAXPASS+1]
        OBVIOUS
  <2>3. priority \in [Slots -> Int] /\ reg \in [Slots -> Int]
        OBVIOUS
  <2>4. tick_remain \in [Slots -> Int] /\ slice_remain \in [Slots -> Int]
        OBVIOUS
  <2>5. overrun \in BOOLEAN
        OBVIOUS
  <2> QED  BY <2>1, <2>2, <2>3, <2>4, <2>5 DEF TypeOK
<1>2. OneCpuEach /\ CursorInv
      BY SlotFacts DEF Init, OneCpuEach, CursorInv, Idle
<1>3. RunningLevel /\ WaitInv
      BY DEF Init, RunningLevel, WaitInv
<1>4. WaitBelowThreshold
  <2>1. \A s \in Slots : priority[s] = TOP
        BY DEF Init
  <2> QED  BY <2>1, TableFacts DEF WaitBelowThreshold, Runnable
<1> QED  BY <1>1, <1>2, <1>3, <1>4 DEF IInv, Claims

(***************************************************************************)
(* A process that a CPU runs is RUNNING, and so are its levels in range.   *)
(***************************************************************************)
LEMMA RunsFacts ==
  ASSUME IInv, ~overrun, NEW c \in CPUS, running[c] # NoSlot
  PROVE  /\ running[c] \in Slots /\ state[running[c]] = "RUNNING"
         /\ priority[running[c]] >= 0
         /\ cursor[c] = running[c] /\ wait_ticks[running[c]] = 0
         /\ \A d \in CPUS : d # c => running[d] # running[c]
<1> USE DEF IInv, Claims
<1>1. running[c] \in Slots
      BY DEF TypeOK
<1>2. state[running[c]] = "RUNNING"
      BY <1>1 DEF OneCpuEach, Idle
<1>3. priority[running[c]] >= 0
      BY <1>1, <1>2 DEF RunningLevel
<1>4. cursor[c] = running[c] /\ wait_ticks[running[c]] = 0
      BY <1>1, <1>2 DEF CursorInv, WaitInv
<1>5. \A d \in CPUS : d # c => running[d] # running[c]
      BY DEF OneCpuEach
<1> QED  BY <1>1, <1>2, <1>3, <1>4, <1>5

LEMMA AtFacts ==
  ASSUME IInv, ~overrun, NEW s \in Slots, NEW l, At(s, l)
  PROVE  state[s] = "RUNNING" /\ priority[s] >= 0 /\ wait_ticks[s] = 0
<1>1. PICK c \in CPUS : Runs(c, s)
      BY DEF At
<1> QED  BY <1>1, RunsFacts DEF Runs

-----------------------------------------------------------------------------
(***************************************************************************)
(* The steps of scheduler() that leave every process alone.                *)
(***************************************************************************)
LEMMA PassStep ==
  ASSUME IInv, NEW c \in CPUS, SchedAcquire(c) \/ Skip(c) \/ SchedRelease(c)
  PROVE  IInv'
<1>1. /\ UNCHANGED <<running, state, queueVars, boostVars, history>>
      /\ lock' \in CPUS \cup {NoCpu}
      BY DEF SchedAcquire, Skip, SchedRelease, IInv, TypeOK
<1>2. cursor' \in [CPUS -> 1..NPROC+1]
  <2>1. \A n \in Slots : n + 1 \in 1..NPROC+1
        BY TableFacts DEF Slots
  <2>2. 1 \in 1..NPROC+1
        BY TableFacts
  <2> QED  BY <2>1, <2>2 DEF SchedAcquire, Skip, SchedRelease, IInv, TypeOK
<1>3. \A d \in CPUS : running[d] # NoSlot => cursor'[d] = cursor[d]
      BY DEF SchedAcquire, Skip, SchedRelease, IInv, TypeOK
<1> QED
    BY <1>1, <1>2, <1>3
    DEF IInv, Claims, TypeOK, OneCpuEach, Idle, CursorInv, RunningLevel,
        WaitInv, WaitBelowThreshold, Runnable, queueVars, boostVars, history

(***************************************************************************)
(* A dispatch.  A waiting process that has not met the threshold of its    *)
(* level stays below it after one more wait; a promoted one starts from 0. *)
(***************************************************************************)
LEMMA DispatchStep ==
  ASSUME IInv, NEW c \in CPUS, Dispatch(c)
  PROVE  IInv'
<1> DEFINE p == cursor[c]
           level == Struck(p, priority, PriorityAt)
           tick == ChargedTick(p)
           slice == ChargedSlice(p)
           waits == ChargedWait(p)
<1> USE DEF IInv, Claims
<1>1. /\ running[c] = NoSlot /\ p \in Slots
      /\ state[p] = "RUNNABLE" /\ priority[p] \in Nat
      BY DEF Dispatch, Eligible, getheight, TypeOK
<1>2. \A s \in Slots :
        \A word \in {StateAt, WaitAt, PriorityAt, TickAt, SliceAt} :
          Strike(p, s, word) \in {0, 1}
      BY <1>1, StrikeFacts, WordFacts
<1>3. PICK due \in SUBSET Waiting(p), t \in Lookup(TimeSlice, level[p]),
           n \in Lookup(Slices, level[p]) :
        /\ Escalates(p, due)
        /\ priority' = [s \in Slots |-> IF s \in due THEN level[s] + 1
                                       ELSE level[s]]
        /\ tick_remain' = [s \in Slots |-> IF s \in due THEN t ELSE tick[s]]
        /\ slice_remain' = [s \in Slots |-> IF s \in due THEN n ELSE slice[s]]
        /\ wait_ticks' =
             [s \in Slots |-> CASE s \in due -> 0
                                [] s \in Waiting(p) \ due ->
                                     Counted(wait_ticks[s])
                                [] OTHER -> waits[s]]
      BY DEF Dispatch
<1>4. /\ running' = [running EXCEPT ![c] = p]
      /\ lock' = NoCpu /\ cursor' = cursor /\ pc' = pc /\ reg' = reg
      /\ passed' = [s \in Slots |->
                      IF s # p /\ s \in Runnable /\ priority[s] = TOP
                      THEN PassedCount(passed[s]) ELSE 0]
      /\ overrun' = (overrun \/ TicksAt + priority[p] >= Words)
      BY DEF Dispatch, boostVars
<1>5. PICK zombie \in BOOLEAN :
        state' = [s \in Slots |->
                    IF s = p THEN "RUNNING"
                    ELSE IF Strike(p, s, StateAt) = 1
                    THEN NextState(state[s], zombie)
                    ELSE state[s]]
      BY DEF Dispatch
<1>6. \A s \in Waiting(p) : s \in Slots /\ s # p /\ state[s] = "RUNNABLE"
  <2>1. p \in Int
        BY <1>1, TableFacts DEF Slots
  <2> QED  BY <2>1 DEF Waiting, Runnable
<1>7. level \in [Slots -> Int] /\ tick \in [Slots -> Int]
      /\ slice \in [Slots -> Int] /\ waits \in [Slots -> 0..WAITCAP]
  <2>1. level \in [Slots -> Int]
        BY <1>2 DEF Struck, TypeOK
  <2>2. tick \in [Slots -> Int]
    <3>1. [tick_remain EXCEPT ![p] = @ - 1] \in [Slots -> Int]
          BY <1>1 DEF TypeOK
    <3> QED  BY <1>2, <3>1 DEF ChargedTick, Struck
  <2>3. slice \in [Slots -> Int]
    <3> DEFINE used == IF priority[p] = 0 /\ ~Level0Expires THEN 0 ELSE 1
    <3>1. [slice_remain EXCEPT ![p] = @ - used] \in [Slots -> Int]
          BY <1>1 DEF TypeOK
    <3> QED  BY <1>2, <3>1 DEF ChargedSlice, Struck
  <2>4. waits \in [Slots -> 0..WAITCAP]
    <3>1. \A k \in 0..WAITCAP : Counted(k) \in 0..WAITCAP
          BY TableFacts DEF Counted
    <3>2. 0 \in 0..WAITCAP
          BY TableFacts
    <3> QED  BY <3>1, <3>2 DEF ChargedWait, TypeOK
  <2> QED  BY <2>1, <2>2, <2>3, <2>4
<1> HIDE DEF level, tick, slice, waits
<1>8. TypeOK'
  <2>1. /\ lock' \in CPUS \cup {NoCpu} /\ cursor' \in [CPUS -> 1..NPROC+1]
        /\ running' \in [CPUS -> Slots \cup {NoSlot}]
        /\ pc' \in [Slots -> {"other", "load", "store", "wait", "slice",
                              "tick"}]
        /\ reg' \in [Slots -> Int] /\ overrun' \in BOOLEAN
        BY <1>1, <1>4 DEF TypeOK
  <2>2. priority' \in [Slots -> Int]
        BY <1>3, <1>7
  <2>3. tick_remain' \in [Slots -> Int] /\ slice_remain' \in [Slots -> Int]
    <3>1. t \in Int /\ n \in Int
          BY <1>1, <1>3, <1>7, LookupType
    <3> QED  BY <1>3, <1>7, <3>1
  <2>4. wait_ticks' \in [Slots -> 0..WAITCAP]
    <3>1. \A k \in 0..WAITCAP : Counted(k) \in 0..WAITCAP
          BY TableFacts DEF Counted
    <3>2. 0 \in 0..WAITCAP
          BY TableFacts
    <3> QED  BY <1>3, <1>7, <3>1, <3>2 DEF TypeOK
  <2>5. passed' \in [Slots -> 0..MAXPASS+1]
    <3>1. \A k \in 0..MAXPASS+1 : PassedCount(k) \in 0..MAXPASS+1
          BY TableFacts DEF PassedCount
    <3>2. 0 \in 0..MAXPASS+1
          BY TableFacts
    <3> QED  BY <1>4, <3>1, <3>2 DEF TypeOK
  <2>6. state' \in [Slots -> {"UNUSED", "EMBRYO", "SLEEPING", "RUNNABLE",
                             "RUNNING"}]
    <3>1. \A st \in {"UNUSED", "EMBRYO", "SLEEPING", "RUNNABLE", "RUNNING"} :
            NextState(st, zombie) \in {"UNUSED", "EMBRYO", "SLEEPING",
                                      "RUNNABLE", "RUNNING"}
          BY DEF NextState
    <3> QED  BY <1>5, <3>1 DEF TypeOK
  <2> QED  BY <2>1, <2>2, <2>3, <2>4, <2>5, <2>6 DEF TypeOK
<1>9. CursorInv'
      BY <1>1, <1>4 DEF CursorInv, TypeOK
<1>10. CASE overrun'
  <2>1. Claims'
        BY <1>10, NoClaims, PTL
  <2> QED  BY <1>8, <1>9, <2>1
<1>11. CASE ~overrun'
  <2>1. ~overrun /\ TicksAt + priority[p] < Words
    <3>1. TicksAt + priority[p] \in Int /\ Words \in Int
          BY <1>1, TableFacts DEF TicksAt, Words
    <3>2. ~overrun /\ ~(TicksAt + priority[p] >= Words)
          BY <1>4, <1>11, Zenon
    <3> QED  BY <3>1, <3>2
  <2>2. \A s \in Slots \ {p} :
          \A word \in {StateAt, WaitAt, PriorityAt} : Strike(p, s, word) = 0
        BY <1>1, <2>1, StrikeFacts, WordFacts
  <2>3. /\ running'[c] = p /\ state'[p] = "RUNNING"
        /\ \A d \in CPUS \ {c} : running'[d] = running[d]
        /\ \A s \in Slots \ {p} : state'[s] = state[s]
    <3>1. \A s \in Slots \ {p} : Strike(p, s, StateAt) # 1
          BY <2>2
    <3>2. state'[p] = "RUNNING" /\ \A s \in Slots \ {p} : state'[s] = state[s]
      <4> HIDE DEF p
      <4> QED  BY <1>1, <1>5, <3>1
    <3> QED  BY <1>1, <1>4, <3>2 DEF TypeOK
  <2>4. /\ level[p] >= 0
        /\ \A s \in Slots \ {p} : /\ level[s] = priority[s]
                                   /\ waits[s] = wait_ticks[s]
        /\ waits[p] = 0
    <3>1. level[p] >= 0
          BY <1>1, <1>2 DEF level, Struck
    <3>2. \A s \in Slots \ {p} : level[s] = priority[s]
          BY <2>2 DEF level, Struck, TypeOK
    <3>3. waits[p] = 0 /\ \A s \in Slots \ {p} : waits[s] = wait_ticks[s]
      <4>1. \A s \in Slots \ {p} : Strike(p, s, WaitAt) # 1
            BY <2>2
      <4> HIDE DEF p
      <4> QED  BY <1>1, <4>1 DEF waits, ChargedWait
    <3> QED  BY <3>1, <3>2, <3>3
  <2>5. OneCpuEach'
    <3>1. \A d \in CPUS : running[d] # p
          BY <1>1, <2>1 DEF OneCpuEach, Idle
    <3>2. \A d, e \in CPUS :
            d # e /\ running'[d] = running'[e] => running'[d] = NoSlot
          BY <2>1, <2>3, <3>1 DEF OneCpuEach
    <3>3. \A s \in Slots :
            state'[s] = "RUNNING" <=> \E d \in CPUS : running'[d] = s
      <4>1. \A s \in Slots : state[s] = "RUNNING" <=>
                               \E d \in CPUS : running[d] = s
            BY <2>1 DEF OneCpuEach, Idle
      <4>2. \A s \in Slots \ {p} : (\E d \in CPUS : running'[d] = s) <=>
                                     (\E d \in CPUS : running[d] = s)
            BY <1>1, <2>3, SlotFacts
      <4> QED  BY <2>3, <4>1, <4>2
    <3> QED  BY <3>2, <3>3 DEF OneCpuEach, Idle
  <2>6. RunningLevel'
    <3>1. priority'[p] >= 0
          BY <1>1, <1>3, <1>6, <2>4
    <3>2. \A s \in Slots \ {p} : state[s] = "RUNNING" =>
                                   priority'[s] = priority[s]
          BY <1>3, <1>6, <2>4
    <3> QED  BY <1>4, <2>1, <2>3, <3>1, <3>2 DEF RunningLevel
  <2>7. WaitInv'
    <3>1. wait_ticks'[p] = 0
          BY <1>1, <1>3, <1>6, <2>4
    <3>2. \A s \in Slots \ {p} : state[s] # "RUNNABLE" =>
                                   wait_ticks'[s] = wait_ticks[s]
          BY <1>3, <1>6, <2>4
    <3> QED  BY <2>1, <2>3, <3>1, <3>2 DEF WaitInv
  <2>8. WaitBelowThreshold'
    <3> SUFFICES ASSUME NEW s \in Slots, state'[s] = "RUNNABLE",
                        priority'[s] \in 0..TOP-1
                 PROVE  wait_ticks'[s] < Threshold(priority'[s])
        BY DEF WaitBelowThreshold, Runnable, Threshold
    <3>1. s # p /\ state[s] = "RUNNABLE"
          BY <2>3
    <3>2. wait_ticks[s] \in 0..WAITCAP
          BY DEF TypeOK
    <3>3. CASE s \in due
      <4>1. wait_ticks'[s] = 0
            BY <1>3, <3>3
      <4> QED  BY <4>1, TableFacts
    <3>4. CASE s \notin due
      <4>1. priority'[s] = priority[s]
            BY <1>3, <2>4, <3>1, <3>4
      <4>2. wait_ticks[s] < Threshold(priority[s])
            BY <2>1, <3>1, <4>1 DEF WaitBelowThreshold, Runnable, Threshold
      <4>3. CASE s \in Waiting(p)
        <5>1. wait_ticks[s] + 1 # Threshold(priority[s])
          <6>1. Lookup(TimeSlice, priority[s]) = {TimeSlice[priority[s]]}
                BY <4>1, TableFacts DEF Lookup
          <6>2. priority[s] < TOP
                BY <4>1, TableFacts
          <6> QED  BY <1>3, <3>4, <4>3, <6>1, <6>2 DEF Escalates, Threshold
        <5>2. wait_ticks'[s] = Counted(wait_ticks[s])
              BY <1>3, <3>4, <4>3
        <5>3. Threshold(priority[s]) \in Nat
              BY <4>1, TableFacts
        <5> QED  BY <3>2, <4>1, <4>2, <5>1, <5>2, <5>3, TableFacts DEF Counted
      <4>4. CASE s \notin Waiting(p)
        <5>1. wait_ticks'[s] = wait_ticks[s]
              BY <1>3, <2>4, <3>1, <3>4, <4>4
        <5> QED  BY <4>1, <4>2, <5>1
      <4> QED  BY <4>3, <4>4
    <3> QED  BY <3>3, <3>4
  <2> QED  BY <1>8, <1>9, <2>5, <2>6, <2>7, <2>8
<1> QED  BY <1>10, <1>11

(***************************************************************************)
(* A process gives the CPU back.  It may lose a level, from a level >= 0;  *)
(* its wait has not begun, and the waits of the others do not change.      *)
(***************************************************************************)
LEMMA ReturnStep ==
  ASSUME IInv, NEW c \in CPUS,
         NEW st \in {"RUNNABLE", "SLEEPING", "UNUSED"}, Return(c, st)
  PROVE  IInv'
<1> DEFINE p == running[c]
<1> USE DEF IInv, Claims
<1>1. p \in Slots /\ p # NoSlot /\ cursor[c] = p
      BY DEF Return, TypeOK, CursorInv
<1>2. /\ lock' = c /\ state' = [state EXCEPT ![p] = st]
      /\ running' = [running EXCEPT ![c] = NoSlot]
      /\ passed' = [passed EXCEPT ![p] = 0] /\ overrun' = overrun
      /\ wait_ticks' = wait_ticks /\ pc' = pc /\ reg' = reg
      /\ Relegate(c, p) \/ RunAgain(c, p) \/ RunNext(c, p)
      BY DEF Return, boostVars
<1>3. /\ running'[c] = NoSlot /\ state'[p] = st
      /\ \A d \in CPUS \ {c} : running'[d] = running[d]
      /\ \A s \in Slots \ {p} : state'[s] = state[s]
      BY <1>1, <1>2 DEF TypeOK
<1>4. /\ priority' \in [Slots -> Int]
      /\ \A s \in Slots \ {p} : priority'[s] = priority[s]
      BY <1>1, <1>2 DEF Relegate, RunAgain, RunNext, TypeOK
<1>5. tick_remain' \in [Slots -> Int] /\ slice_remain' \in [Slots -> Int]
  <2>1. priority[p] \in Int /\ priority[p] - 1 \in Int
        BY <1>1 DEF TypeOK
  <2>2. /\ \A t \in Lookup(TimeSlice, priority[p]) : t \in Int
        /\ \A t \in Lookup(TimeSlice, priority[p] - 1) : t \in Int
        /\ \A n \in Lookup(Slices, priority[p] - 1) : n \in Int
        BY <2>1, LookupType
  <2> QED  BY <1>2, <2>2 DEF Relegate, RunAgain, RunNext, TypeOK
<1>6. /\ cursor' \in [CPUS -> 1..NPROC+1]
      /\ \A d \in CPUS \ {c} : cursor'[d] = cursor[d]
  <2>1. cursor[c] + 1 \in 1..NPROC+1
        BY <1>1, TableFacts DEF Slots
  <2> QED  BY <1>2, <2>1 DEF Relegate, RunAgain, RunNext, TypeOK
<1>7. TypeOK'
  <2>1. passed' \in [Slots -> 0..MAXPASS+1]
    <3>1. 0 \in 0..MAXPASS+1
          BY TableFacts
    <3> QED  BY <1>2, <3>1 DEF TypeOK
  <2> QED  BY <1>2, <1>4, <1>5, <1>6, <2>1 DEF TypeOK
<1>8. CursorInv'
      BY <1>3, <1>6 DEF CursorInv
<1>9. CASE overrun
  <2>1. overrun'
        BY <1>2, <1>9
  <2>2. Claims'
        BY <2>1, NoClaims, PTL
  <2> QED  BY <1>7, <1>8, <2>2
<1>10. CASE ~overrun
  <2>1. /\ state[p] = "RUNNING" /\ wait_ticks[p] = 0
        /\ \A d \in CPUS : d # c => running[d] # p
        BY <1>1, <1>10, RunsFacts
  <2>2. OneCpuEach'
    <3>1. \A d, e \in CPUS :
            d # e /\ running'[d] = running'[e] => running'[d] = NoSlot
          BY <1>3, <1>10 DEF OneCpuEach
    <3>2. \A s \in Slots :
            state'[s] = "RUNNING" <=> \E d \in CPUS : running'[d] = s
      <4>1. \A s \in Slots : state[s] = "RUNNING" <=>
                               \E d \in CPUS : running[d] = s
            BY <1>10 DEF OneCpuEach, Idle
      <4>2. \A s \in Slots \ {p} : (\E d \in CPUS : running'[d] = s) <=>
                                     (\E d \in CPUS : running[d] = s)
            BY <1>3, SlotFacts
      <4>3. \A d \in CPUS : running'[d] # p
            BY <1>1, <1>3, <2>1
      <4> QED  BY <1>3, <4>1, <4>2, <4>3
    <3> QED  BY <3>1, <3>2 DEF OneCpuEach, Idle
  <2>3. RunningLevel' /\ WaitInv'
        BY <1>2, <1>3, <1>4, <1>10, <2>1 DEF RunningLevel, WaitInv
  <2>4. WaitBelowThreshold'
    <3> SUFFICES ASSUME NEW s \in Slots, state'[s] = "RUNNABLE",
                        priority'[s] \in 0..TOP-1
                 PROVE  wait_ticks'[s] < Threshold(priority'[s])
        BY DEF WaitBelowThreshold, Runnable, Threshold
    <3>1. CASE s = p
          BY <1>2, <2>1, <3>1, TableFacts
    <3>2. CASE s # p
          BY <1>2, <1>3, <1>4, <1>10, <3>2
          DEF WaitBelowThreshold, Runnable, Threshold
    <3> QED  BY <3>1, <3>2
  <2> QED  BY <1>7, <1>8, <2>2, <2>3, <2>4
<1> QED  BY <1>9, <1>10

(***************************************************************************)
(* A process becomes RUNNABLE or EMBRYO: it has not waited, and no CPU is  *)
(* concerned.                                                              *)
(***************************************************************************)
LEMMA LifeStep ==
  ASSUME IInv, NEW s \in Slots, Wakeup(s) \/ Alloc(s) \/ Launch(s)
  PROVE  IInv'
<1> USE DEF IInv, Claims
<1>1. /\ state[s] \in {"SLEEPING", "UNUSED", "EMBRYO"}
      /\ \E st \in {"RUNNABLE", "EMBRYO"} :
           state' = [state EXCEPT ![s] = st]
      /\ UNCHANGED <<cpuVars, boostVars, history>>
      BY DEF Wakeup, Alloc, Launch
<1>2. /\ state'[s] \in {"RUNNABLE", "EMBRYO"}
      /\ \A q \in Slots \ {s} : state'[q] = state[q]
      /\ state' \in [Slots -> {"UNUSED", "EMBRYO", "SLEEPING", "RUNNABLE",
                               "RUNNING"}]
      BY <1>1 DEF TypeOK
<1>3. /\ priority' \in [Slots -> Int]
      /\ tick_remain' \in [Slots -> Int] /\ slice_remain' \in [Slots -> Int]
      /\ \A q \in Slots \ {s} : priority'[q] = priority[q]
  <2>1. TOP \in Int /\ TimeSlice[TOP] \in Int /\ Slices[TOP] \in Int
        BY TableFacts
  <2> QED  BY <2>1 DEF Wakeup, Alloc, Launch, queueVars, TypeOK
<1>4. /\ wait_ticks' \in [Slots -> 0..WAITCAP]
      /\ wait_ticks' = wait_ticks \/ wait_ticks' = [wait_ticks EXCEPT ![s] = 0]
  <2>1. 0 \in 0..WAITCAP
        BY TableFacts
  <2> QED  BY <2>1 DEF Wakeup, Alloc, Launch, queueVars, TypeOK
<1>5. TypeOK' /\ CursorInv'
      BY <1>1, <1>2, <1>3, <1>4
      DEF cpuVars, boostVars, history, TypeOK, CursorInv
<1>6. CASE overrun
  <2>1. overrun'
        BY <1>1, <1>6 DEF history
  <2>2. Claims'
        BY <2>1, NoClaims, PTL
  <2> QED  BY <1>5, <2>2
<1>7. CASE ~overrun
  <2>1. wait_ticks' = wait_ticks /\ wait_ticks[s] = 0
    <3>1. wait_ticks[s] = 0
          BY <1>1, <1>7 DEF WaitInv
    <3> QED  BY <1>4, <3>1 DEF TypeOK
  <2>2. OneCpuEach'
        BY <1>1, <1>2, <1>7 DEF cpuVars, history, OneCpuEach, Idle
  <2>3. RunningLevel' /\ WaitInv'
        BY <1>1, <1>2, <1>3, <1>7, <2>1
        DEF RunningLevel, WaitInv, history, boostVars
  <2>4. WaitBelowThreshold'
    <3> SUFFICES ASSUME NEW q \in Slots, state'[q] = "RUNNABLE",
                        priority'[q] \in 0..TOP-1
                 PROVE  wait_ticks'[q] < Threshold(priority'[q])
        BY DEF WaitBelowThreshold, Runnable, Threshold
    <3>1. CASE q = s
          BY <2>1, <3>1, TableFacts
    <3>2. CASE q # s
          BY <1>2, <1>3, <1>7, <2>1, <3>2
          DEF WaitBelowThreshold, Runnable, Threshold
    <3> QED  BY <3>1, <3>2
  <2> QED  BY <1>5, <2>2, <2>3, <2>4
<1> QED  BY <1>6, <1>7

(***************************************************************************)
(* boostproc() only changes the process that executes it, which a CPU runs *)
(* and which is not RUNNABLE: the level it stores is the one it loaded     *)
(* plus one, whatever happened in between, so at least 1.                  *)
(***************************************************************************)
LEMMA BoostStep ==
  ASSUME IInv, NEW s \in Slots, Boosting(s)
  PROVE  IInv'
<1> USE DEF IInv, Claims
<1>1. UNCHANGED <<lock, running, cursor, state, passed, overrun>>
      BY DEF Boosting, BoostTest, BoostLoad, BoostStore, BoostWait,
             BoostSlice, BoostTick, cpuVars, history
<1>2. pc' \in [Slots -> {"other", "load", "store", "wait", "slice", "tick"}]
      BY DEF Boosting, BoostTest, BoostLoad, BoostStore, BoostWait,
             BoostSlice, BoostTick, Goto, TypeOK
<1>3. /\ reg' \in [Slots -> Int] /\ priority' \in [Slots -> Int]
      /\ \A q \in Slots \ {s} : priority'[q] = priority[q] /\ reg'[q] = reg[q]
      /\ reg'[s] \in {reg[s], priority[s], 0}
      /\ priority'[s] \in {priority[s], reg[s] + 1}
  <2>1. CASE BoostLoad(s)
        BY <2>1 DEF BoostLoad, queueVars, TypeOK
  <2>2. CASE BoostStore(s)
        BY <2>2 DEF BoostStore, TypeOK
  <2>3. CASE BoostTest(s) \/ BoostWait(s) \/ BoostSlice(s) \/ BoostTick(s)
    <3>1. UNCHANGED <<priority, reg>>
          BY <2>3 DEF BoostTest, BoostWait, BoostSlice, BoostTick, queueVars
    <3> QED  BY <3>1 DEF TypeOK
  <2> QED  BY <2>1, <2>2, <2>3 DEF Boosting
<1>4. tick_remain' \in [Slots -> Int] /\ slice_remain' \in [Slots -> Int]
  <2>1. /\ \A t \in Lookup(TimeSlice, priority[s]) : t \in Int
        /\ \A n \in Lookup(Slices, priority[s]) : n \in Int
        BY LookupType DEF TypeOK
  <2> QED  BY <2>1 DEF Boosting, BoostTest, BoostLoad, BoostStore, BoostWait,
                       BoostSlice, BoostTick, queueVars, TypeOK
<1>5. /\ wait_ticks' \in [Slots -> 0..WAITCAP]
      /\ wait_ticks' = wait_ticks \/ wait_ticks' = [wait_ticks EXCEPT ![s] = 0]
  <2>1. 0 \in 0..WAITCAP
        BY TableFacts
  <2> QED  BY <2>1 DEF Boosting, BoostTest, BoostLoad, BoostStore, BoostWait,
                       BoostSlice, BoostTick, queueVars, TypeOK
<1>6. TypeOK' /\ CursorInv'
      BY <1>1, <1>2, <1>3, <1>4, <1>5 DEF TypeOK, CursorInv
<1>7. CASE overrun
  <2>1. overrun'
        BY <1>1, <1>7
  <2>2. Claims'
        BY <2>1, NoClaims, PTL
  <2> QED  BY <1>6, <2>2
<1>8. CASE ~overrun
  <2>1. state[s] = "RUNNING" /\ priority[s] >= 0 /\ wait_ticks[s] = 0
        BY <1>8, AtFacts DEF Boosting, BoostTest, BoostLoad, BoostStore,
                             BoostWait, BoostSlice, BoostTick
  <2>2. wait_ticks' = wait_ticks
        BY <1>5, <2>1 DEF TypeOK
  <2>3. OneCpuEach'
        BY <1>1 DEF OneCpuEach, Idle
  <2>4. RunningLevel' /\ WaitInv'
    <3>1. reg[s] >= 0 /\ reg[s] \in Int
          BY <1>8 DEF RunningLevel, TypeOK
    <3>2. reg'[s] >= 0 /\ priority'[s] >= 0
          BY <1>3, <2>1, <3>1
    <3> QED  BY <1>1, <1>3, <1>8, <2>2, <3>2 DEF RunningLevel, WaitInv
  <2>5. WaitBelowThreshold'
        BY <1>1, <1>3, <1>8, <2>1, <2>2
        DEF WaitBelowThreshold, Runnable, Threshold
  <2> QED  BY <1>6, <2>3, <2>4, <2>5
<1> QED  BY <1>7, <1>8

LEMMA NextInv == IInv /\ [Next]_vars => IInv'
<1> SUFFICES ASSUME IInv, [Next]_vars PROVE IInv'
    OBVIOUS
<1>1. ASSUME NEW c \in CPUS, Scheduling(c) \/ Sleep(c) \/ Exit(c)
      PROVE  IInv'
      BY <1>1, PassStep, DispatchStep, ReturnStep
      DEF Scheduling, Yield, Sleep, Exit
<1>2. ASSUME NEW s \in Slots, Wakeup(s) \/ Alloc(s) \/ Launch(s) \/ Boosting(s)
      PROVE  IInv'
      BY <1>2, LifeStep, BoostStep
<1>3. CASE UNCHANGED vars
      BY <1>3 DEF vars, cpuVars, queueVars, boostVars, history, IInv, Claims,
                  TypeOK, OneCpuEach, Idle, CursorInv, RunningLevel, WaitInv,
                  WaitBelowThreshold, Runnable
<1> QED  BY <1>1, <1>2, <1>3 DEF Next

LEMMA Inductive == Spec => []IInv
BY InitInv, NextInv, PTL DEF Spec

(* Type correctness, however high boostproc() takes a process: whatever is *)
(* read outside the two tables, and whatever scheduler() writes outside    *)
(* ticks[], the cursors of the schedulers stay within ptable and states    *)
(* are states.                                                             *)
THEOREM TypeCorrect == Spec => []TypeOK
<1>1. IInv => TypeOK
      BY DEF IInv
<1> QED  BY <1>1, Inductive, PTL

(* However high boostproc() takes a process: unless scheduler() has        *)
(* counted a tick in another slot, no process is on two CPUs, and one is   *)
(* RUNNING just while it is on one.                                        *)
THEOREM MutualExclusion == Spec => []OneCpuEach
<1>1. IInv => OneCpuEach
      BY DEF IInv, Claims
<1> QED  BY <1>1, Inductive, PTL

(* The equality test of "escalate" never misses, unless a slot was         *)
(* overwritten: a process waiting below the top level has waited less than *)
(* the threshold of its level.                                             *)
THEOREM PromotionDue == Spec => []WaitBelowThreshold
<1>1. IInv => WaitBelowThreshold
      BY DEF IInv, Claims
<1> QED  BY <1>1, Inductive, PTL

-----------------------------------------------------------------------------
(* Without boostproc() that never happens.                                 *)

LevelsInv ==
  ~overrun /\ \A s \in Slots : priority[s] <= TOP /\ pc[s] = "other"

\* A level that scheduler() dispatches is an index of ticks[].
LEMMA DispatchLevels ==
  ASSUME TypeOK, LevelsInv, NEW c \in CPUS, Dispatch(c)
  PROVE  LevelsInv'
<1> DEFINE p == cursor[c]
<1>1. /\ p \in Slots /\ priority[p] \in 0..TOP /\ TOP \in Nat
      BY TableFacts DEF Dispatch, Eligible, getheight, TypeOK, LevelsInv
<1>2. TicksAt + priority[p] < Words /\ TicksAt + priority[p] # PriorityAt
      BY <1>1 DEF TicksAt, Words, PriorityAt
<1>3. ~overrun'
  <2>1. ~(TicksAt + priority[p] >= Words)
        BY <1>1, <1>2 DEF TicksAt, Words
  <2>2. overrun' = (overrun \/ TicksAt + priority[p] >= Words)
        BY DEF Dispatch
  <2>3. ~overrun
        BY DEF LevelsInv
  <2> HIDE DEF p
  <2> QED  BY <2>1, <2>2, <2>3, Zenon
<1>4. ASSUME NEW s \in Slots PROVE Strike(p, s, PriorityAt) = 0
  <2>1. CASE s # p
        BY <1>1, <1>2, <2>1, StrikeFacts, WordFacts
  <2>2. CASE s = p
    <3>1. Words \in Nat /\ (s - p) = 0
          BY <1>1, <2>2, TableFacts DEF Words, Slots
    <3>2. (s - p) * Words + PriorityAt = PriorityAt
          BY <3>1, <1>1 DEF PriorityAt
    <3> QED  BY <1>2, <3>2 DEF Strike
  <2> QED  BY <2>1, <2>2
<1> DEFINE level == Struck(p, priority, PriorityAt)
<1>5. \A s \in Slots : level[s] = priority[s]
      BY <1>4 DEF Struck, TypeOK
<1> HIDE DEF level
<1>6. PICK due \in SUBSET Waiting(p) :
        /\ Escalates(p, due)
        /\ priority' = [s \in Slots |-> IF s \in due THEN level[s] + 1
                                         ELSE level[s]]
      BY DEF Dispatch, level
<1>7. ASSUME NEW s \in Slots PROVE priority'[s] <= TOP
  <2>1. s \in due => priority[s] < TOP
        BY <1>6 DEF Escalates
  <2>2. priority[s] \in Int /\ priority[s] <= TOP
        BY DEF TypeOK, LevelsInv
  <2> QED  BY <1>1, <1>5, <1>6, <2>1, <2>2
<1>8. UNCHANGED pc
      BY DEF Dispatch, boostVars
<1> QED  BY <1>3, <1>7, <1>8 DEF LevelsInv

\* Every other step keeps levels, lowers one, or makes a process.
LEMMA NextLevels ==
  ASSUME Boosters = {}, TypeOK, LevelsInv, [Next]_vars PROVE LevelsInv'
<1>1. CASE UNCHANGED vars
      BY <1>1 DEF LevelsInv, vars, queueVars, boostVars, history
<1>2. CASE \E c \in CPUS : Dispatch(c)
      BY <1>2, DispatchLevels
<1>3. ASSUME NEW c \in CPUS,
             SchedAcquire(c) \/ Skip(c) \/ SchedRelease(c)
      PROVE  LevelsInv'
      BY <1>3 DEF LevelsInv, SchedAcquire, Skip, SchedRelease, queueVars,
                  boostVars, history
<1>4. ASSUME NEW c \in CPUS, NEW st, Return(c, st) PROVE LevelsInv'
  <2>1. UNCHANGED <<pc, overrun>>
        BY <1>4 DEF Return, boostVars
  <2>2. \/ UNCHANGED priority
        \/ priority' = [priority EXCEPT ![running[c]] = @ - 1]
        BY <1>4 DEF Return, Relegate, RunAgain, RunNext
  <2>3. TOP \in Nat /\ priority \in [Slots -> Int]
        BY TableFacts DEF TypeOK
  <2> QED  BY <2>1, <2>2, <2>3 DEF LevelsInv
<1>5. ASSUME NEW c \in CPUS, Yield(c) \/ Sleep(c) \/ Exit(c)
      PROVE  LevelsInv'
      BY <1>4, <1>5 DEF Yield, Sleep, Exit
<1>6. ASSUME NEW s \in Slots, Wakeup(s) \/ Alloc(s) \/ Launch(s)
      PROVE  LevelsInv'
      BY <1>6, TableFacts
         DEF Wakeup, Alloc, Launch, LevelsInv, queueVars, boostVars, history,
             TypeOK
<1>7. ASSUME NEW s \in Slots, Boosting(s) PROVE FALSE
      BY <1>7 DEF Boosting, BoostTest, BoostLoad, BoostStore, BoostWait,
                  BoostSlice, BoostTick, At, LevelsInv
<1> QED  BY <1>1, <1>2, <1>3, <1>5, <1>6, <1>7 DEF Next, Scheduling

(* A system whose programs do not call boostproc() never counts a tick     *)
(* outside ticks[]: the two safety properties hold of it as they stand,    *)
(* whatever relegation, promotion and fork() do.                           *)
THEOREM NoOverrun == Boosters = {} => (Spec => [](~overrun))
<1> SUFFICES ASSUME Boosters = {} PROVE Spec => [](~overrun)
    OBVIOUS
<1>1. Init => LevelsInv
      BY TableFacts DEF Init, LevelsInv
<1>2. TypeOK /\ LevelsInv /\ [Next]_vars => LevelsInv'
      BY NextLevels
<1>3. LevelsInv => ~overrun
      BY DEF LevelsInv
<1> QED  BY <1>1, <1>2, <1>3, TypeCorrect, PTL DEF Spec

=============================================================================
