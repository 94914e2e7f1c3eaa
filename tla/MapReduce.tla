----------------------------- MODULE MapReduce ------------------------------
(***************************************************************************)
(* The MapReduce library (MapReduce/mapreduce.c): MR_Run() with its mapper *)
(* and reducer threads, running a word count (MapReduce/wordcount.c), with *)
(* or without its combiner.                                                *)
(*                                                                         *)
(* A mapper's list is its own until MR_Run() frees it; the list of a       *)
(* reducer is shared by all mappers under a semaphore; so is the list of   *)
(* strings to free, which is left out.  The list of nodes to free          *)
(* (free_list_value) is shared by all threads without a lock, and filled   *)
(* here by a load and a store.  A list is a sequence of nodes, a node has  *)
(* a key and the values not fetched yet, and a value is the set of the     *)
(* words it counts.                                                        *)
(***************************************************************************)
EXTENDS Naturals, Sequences, FiniteSets, FiniteSetsExt

CONSTANTS
  Files,              \* Files[f]: the words of argv[f], a sequence of keys
  Keys,
  NMAPPER, NREDUCER,  \* number of threads of either kind
  Partition           \* Partition[k]: the reducer of key k

SizeAssumption ==
  /\ NMAPPER \in Nat \ {0} /\ NREDUCER \in Nat \ {0}
  /\ \A f \in DOMAIN Files : Files[f] \in Seq(Keys)
  /\ Partition \in [Keys -> 0..NREDUCER-1]

NFILE == Len(Files)
Mappers == 1..NMAPPER
Reducers == 0..NREDUCER-1
Threads == {<<"m", i>> : i \in Mappers} \cup {<<"r", i>> : i \in Reducers}
NoKey == "nokey"

Words == UNION {{f} \X DOMAIN Files[f] : f \in 1..NFILE}

VARIABLES
  combining,          \* whether MR_Run() was given a combiner
  stage, next,        \* main thread: what it does, next thread to create
  sem,                \* locker_for_wrapper
  pc,                 \* each thread
  file, pos,          \* mapper: loca, and how much of that file it has read
  keys,               \* the nodes head->next... it has yet to visit
  key, acc, seen,     \* the key at hand, the words counted, the list it saw
  maplist,            \* header_of_cur_mapper: the lists of the mappers
  redlist,            \* header_of_reduce: the lists of the reducers
  mutex,              \* sem_mutex: the thread that has a reducer's list
  spare, old,         \* free_list_value; what a thread has read of it
  gone,               \* history: the nodes meant to be in it
  out                 \* what the reducers have printed

mainVars == <<combining, stage, next>>
posVars == <<file, pos>>
dataVars == <<maplist, redlist, mutex>>
spareVars == <<spare, old, gone>>
vars == <<mainVars, sem, pc, posVars, keys, key, acc, seen, dataVars,
          spareVars, out>>

-----------------------------------------------------------------------------
Goto(t, l) == pc' = [pc EXCEPT ![t] = l]
Id(t) == t[2]

HasKey(list, k) == \E i \in DOMAIN list : list[i].key = k
First(list, k) == Min({i \in DOMAIN list : list[i].key = k})
KeysOf(list) == [i \in DOMAIN list |-> list[i].key]

\* ll_insert(), MR_EmitToCombiner(): new nodes and values come first.
Insert(list, k, v) ==
  IF HasKey(list, k)
  THEN [list EXCEPT ![First(list, k)].vals = <<v>> \o @]
  ELSE <<[key |-> k, vals |-> <<v>>]>> \o list

\* get_next_for_combine(), get_next_for_reducer(): take the first value of
\* the key; the node goes with its last value.
Fetched(list, k) == Head(list[First(list, k)].vals)
Drained(list, k) == Len(list[First(list, k)].vals) = 1
Rest(list, k) ==
  IF Drained(list, k)
  THEN [i \in 1..Len(list)-1 |->
          IF i < First(list, k) THEN list[i] ELSE list[i+1]]
  ELSE [list EXCEPT ![First(list, k)].vals = Tail(@)]

Init ==
  /\ combining \in BOOLEAN
  /\ stage = "map" /\ next = 1 /\ sem = 1
  /\ pc = [t \in Threads |-> "none"]
  /\ file = [m \in Mappers |-> m] /\ pos = [m \in Mappers |-> 0]
  /\ keys = [t \in Threads |-> <<>>] /\ key = [t \in Threads |-> NoKey]
  /\ acc = [t \in Threads |-> {}] /\ seen = [t \in Threads |-> <<>>]
  /\ maplist = [m \in Mappers |-> <<>>] /\ redlist = [r \in Reducers |-> <<>>]
  /\ mutex = [r \in Reducers |-> <<>>]
  /\ spare = {} /\ old = [t \in Threads |-> {}] /\ gone = {} /\ out = {}

-----------------------------------------------------------------------------
(* MR_Run()                                                                *)

\* One more thread, once the one before has read its index.
Create(kind, last, after) ==
  /\ sem > 0
  /\ sem' = sem - 1
  /\ Goto(<<kind, next>>, "start")
  /\ IF next = last THEN stage' = after /\ next' = 0
                    ELSE stage' = stage /\ next' = next + 1
  /\ UNCHANGED <<combining, posVars, keys, key, acc, seen, dataVars,
                 spareVars, out>>

CreateMapper == stage = "map" /\ Create("m", NMAPPER, "mapjoin")
CreateReducer == stage = "reduce" /\ Create("r", NREDUCER - 1, "reducejoin")

Joined(kind) == \A t \in Threads : t[1] = kind => pc[t] = "end"

\* The mappers are done; their lists are freed.
JoinMappers ==
  /\ stage = "mapjoin" /\ Joined("m")
  /\ stage' = "reduce"
  /\ maplist' = [m \in Mappers |-> <<>>]
  /\ UNCHANGED <<combining, next, sem, pc, posVars, keys, key, acc, seen, redlist,
                 mutex, spareVars, out>>

\* So are the reducers.
JoinReducers ==
  /\ stage = "reducejoin" /\ Joined("r")
  /\ stage' = "done"
  /\ redlist' = [r \in Reducers |-> <<>>]
  /\ UNCHANGED <<combining, next, sem, pc, posVars, keys, key, acc, seen, maplist,
                 mutex, spareVars, out>>

-----------------------------------------------------------------------------
(* mapper_wrapper(), reduce_wrapper()                                      *)

Posted(n) == n + 1

Start(t) ==
  /\ pc[t] = "start"
  /\ sem' = Posted(sem)
  /\ IF t[1] = "m"
     THEN Goto(t, "map") /\ keys' = keys
     ELSE /\ Goto(t, "visit")
          /\ keys' = [keys EXCEPT ![t] = KeysOf(redlist[Id(t)])]
  /\ UNCHANGED <<mainVars, posVars, key, acc, seen, dataVars, spareVars, out>>

\* The mapper emits the next word of its file, to the combiner (its own
\* list) or to the reducer, or goes on to its next file.
MapWord(t) ==
  LET m == Id(t)  n == pos[m] + 1 IN
  /\ pc[t] = "map" /\ file[m] <= NFILE /\ n <= Len(Files[file[m]])
  /\ pos' = [pos EXCEPT ![m] = n]
  /\ LET k == Files[file[m]][n]  w == {<<file[m], n>>} IN
       IF combining
       THEN /\ maplist' = [maplist EXCEPT ![m] = Insert(@, k, w)]
            /\ UNCHANGED <<pc, key, acc>>
       ELSE /\ key' = [key EXCEPT ![t] = k]
            /\ acc' = [acc EXCEPT ![t] = w]
            /\ Goto(t, "emit")
            /\ UNCHANGED maplist
  /\ UNCHANGED <<mainVars, sem, file, keys, seen, redlist, mutex, spareVars,
                 out>>

MapFile(t) ==
  LET m == Id(t) IN
  /\ pc[t] = "map" /\ file[m] <= NFILE /\ pos[m] = Len(Files[file[m]])
  /\ file' = [file EXCEPT ![m] = @ + NMAPPER]
  /\ pos' = [pos EXCEPT ![m] = 0]
  /\ UNCHANGED <<mainVars, sem, pc, keys, key, acc, seen, dataVars, spareVars,
                 out>>

\* All files read: the combiner visits the nodes there are now, unless the
\* mapper had no file.
MapEnd(t) ==
  LET m == Id(t) IN
  /\ pc[t] = "map" /\ file[m] > NFILE
  /\ IF combining /\ m <= NFILE
     THEN /\ Goto(t, "visit")
          /\ keys' = [keys EXCEPT ![t] = KeysOf(maplist[m])]
     ELSE Goto(t, "end") /\ keys' = keys
  /\ UNCHANGED <<mainVars, sem, posVars, key, acc, seen, dataVars, spareVars,
                 out>>

\* The next node, for Combine() or Reduce().
Visit(t) ==
  /\ pc[t] = "visit"
  /\ IF keys[t] = <<>>
     THEN Goto(t, "end") /\ UNCHANGED <<keys, key, acc>>
     ELSE /\ key' = [key EXCEPT ![t] = Head(keys[t])]
          /\ keys' = [keys EXCEPT ![t] = Tail(@)]
          /\ acc' = [acc EXCEPT ![t] = {}]
          /\ Goto(t, "fetch")
  /\ UNCHANGED <<mainVars, sem, posVars, seen, dataVars, spareVars, out>>

List(t) == IF t[1] = "m" THEN maplist[Id(t)] ELSE redlist[Id(t)]

\* One value, from a list nobody else uses now.
Fetch(t) ==
  /\ pc[t] = "fetch" /\ HasKey(List(t), key[t])
  /\ acc' = [acc EXCEPT ![t] = @ \cup Fetched(List(t), key[t])]
  /\ IF t[1] = "m"
     THEN /\ maplist' = [maplist EXCEPT ![Id(t)] = Rest(@, key[t])]
          /\ UNCHANGED redlist
     ELSE /\ redlist' = [redlist EXCEPT ![Id(t)] = Rest(@, key[t])]
          /\ UNCHANGED maplist
  /\ Goto(t, IF Drained(List(t), key[t]) THEN "unlink" ELSE "fetch")
  /\ UNCHANGED <<mainVars, sem, posVars, keys, key, seen, mutex, spareVars,
                 out>>

\* build_head_free_list(): temp->next = head->next ...
UnlinkLoad(t) ==
  /\ pc[t] = "unlink"
  /\ old' = [old EXCEPT ![t] = spare]
  /\ Goto(t, "link")
  /\ UNCHANGED <<mainVars, sem, posVars, keys, key, acc, seen, dataVars, spare,
                 gone, out>>

\* ... head->next = temp.
UnlinkStore(t) ==
  /\ pc[t] = "link"
  /\ spare' = old[t] \cup {<<t, key[t]>>}
  /\ gone' = gone \cup {<<t, key[t]>>}
  /\ old' = [old EXCEPT ![t] = {}]
  /\ Goto(t, "fetch")
  /\ UNCHANGED <<mainVars, sem, posVars, keys, key, acc, seen, dataVars, out>>

\* The values of a key are used up: Combine() emits their sum, Reduce()
\* prints it.
FetchEnd(t) ==
  /\ pc[t] = "fetch" /\ ~HasKey(List(t), key[t])
  /\ IF t[1] = "m"
     THEN Goto(t, "emit") /\ UNCHANGED <<acc, out>>
     ELSE /\ out' = out \cup {[key |-> key[t], words |-> acc[t]]}
          /\ acc' = [acc EXCEPT ![t] = {}]
          /\ Goto(t, "visit")
  /\ UNCHANGED <<mainVars, sem, posVars, keys, key, seen, dataVars, spareVars>>

-----------------------------------------------------------------------------
(* MR_EmitToReducer()                                                      *)

\* Variant: no semaphore.
MayEnter_Always(r) == TRUE

MayEnter(r) == mutex[r] = <<>>

\* sem_wait(), and the search for the key.
EmitSearch(t) ==
  LET r == Partition[key[t]] IN
  /\ pc[t] = "emit" /\ MayEnter(r)
  /\ mutex' = [mutex EXCEPT ![r] = t]
  /\ seen' = [seen EXCEPT ![t] = redlist[r]]
  /\ Goto(t, "insert")
  /\ UNCHANGED <<mainVars, sem, posVars, keys, key, acc, maplist, redlist,
                 spareVars, out>>

\* The insertion, and sem_post().
EmitInsert(t) ==
  LET r == Partition[key[t]] IN
  /\ pc[t] = "insert"
  /\ redlist' = [redlist EXCEPT ![r] = Insert(seen[t], key[t], acc[t])]
  /\ mutex' = [mutex EXCEPT ![r] = <<>>]
  /\ seen' = [seen EXCEPT ![t] = <<>>]
  /\ acc' = [acc EXCEPT ![t] = {}]
  /\ Goto(t, IF combining THEN "visit" ELSE "map")
  /\ UNCHANGED <<mainVars, sem, posVars, keys, key, maplist, spareVars, out>>

-----------------------------------------------------------------------------
Main == CreateMapper \/ JoinMappers \/ CreateReducer \/ JoinReducers

Thread(t) ==
  \/ Start(t) \/ MapWord(t) \/ MapFile(t) \/ MapEnd(t)
  \/ Visit(t) \/ Fetch(t) \/ UnlinkLoad(t) \/ UnlinkStore(t) \/ FetchEnd(t)
  \/ EmitSearch(t) \/ EmitInsert(t)

Next == Main \/ \E t \in Threads : Thread(t)

Spec == Init /\ [][Next]_vars

\* Every thread that can go on does so.
FairSpec == Spec /\ WF_vars(Main) /\ \A t \in Threads : WF_vars(Thread(t))
-----------------------------------------------------------------------------
(* Properties.                                                             *)

IsList(list) ==
  \A i \in DOMAIN list :
    list[i].key \in Keys /\ list[i].vals \in Seq(SUBSET Words)

TypeOK ==
  /\ combining \in BOOLEAN
  /\ stage \in {"map", "mapjoin", "reduce", "reducejoin", "done"}
  /\ next \in Nat /\ sem \in {0, 1}
  /\ pc \in [Threads -> {"none", "start", "map", "visit", "fetch", "unlink",
                         "link", "emit", "insert", "end"}]
  /\ file \in [Mappers -> 1..NFILE+NMAPPER] /\ pos \in [Mappers -> Nat]
  /\ \A t \in Threads : key[t] \in Keys \cup {NoKey} /\ acc[t] \subseteq Words
  /\ \A m \in Mappers : IsList(maplist[m])
  /\ \A r \in Reducers : IsList(redlist[r])
  /\ mutex \in [Reducers -> Threads \cup {<<>>}]
  /\ spare \subseteq Threads \X Keys /\ gone \subseteq Threads \X Keys

\* Where word w is counted: (list, node, value), thread, or output.
InList(list, w) ==
  {<<i, j>> \in (1..Len(list)) \X (1..Cardinality(Words)) :
     j \in DOMAIN list[i].vals /\ w \in list[i].vals[j]}

InLists(lists, w) ==
  UNION {{i} \X InList(lists[i], w) : i \in DOMAIN lists}

Places(w) ==
  Cardinality({t \in Threads : w \in acc[t]})
  + Cardinality({o \in out : w \in o.words})
  + Cardinality(InLists(maplist, w)) + Cardinality(InLists(redlist, w))

\* The mapper of file f has emitted its word n.
Emitted(f, n) ==
  \E m \in Mappers :
    /\ (f - m) % NMAPPER = 0 /\ f >= m
    /\ file[m] > f \/ (file[m] = f /\ pos[m] >= n)

(***************************************************************************)
(* No word is lost or counted twice on its way: from when its mapper emits *)
(* it until its reducer prints it, it is in one list, once, or with one    *)
(* thread.  Mappers divide the files by their index, insert into the       *)
(* reducers' lists in any order, and values are fetched from lists whose   *)
(* nodes disappear while the loop over them goes on.                       *)
(***************************************************************************)
Conserved ==
  \A w \in Words : Places(w) = IF Emitted(w[1], w[2]) THEN 1 ELSE 0

(***************************************************************************)
(* What comes out in the end: for every key one line, with all its words.  *)
(***************************************************************************)
AllReduced ==
  stage = "done" =>
    out = {[key |-> k, words |-> {w \in Words : Files[w[1]][w[2]] = k}] :
             k \in {Files[w[1]][w[2]] : w \in Words}}

\* MR_Run() returns: the main thread waits for the index to be read, and for
\* each thread, and threads wait for each other's lists.
Returns == <>(stage = "done")

(* What comments in the code say.                                          *)

\* mapreduce.c:102 "this is the function to clear the built head
\* free-list", which MR_Run() calls in "step4: free": all nodes given
\* to that list are freed.
NodesFreed == stage = "done" => gone = spare
=============================================================================
