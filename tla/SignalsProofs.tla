---------------------------- MODULE SignalsProofs ----------------------------
(***************************************************************************)
(* The signal's deferred deletion is right for every number of connections,*)
(* emitters and workers: an emission stands on memory that is held, nothing*)
(* is leaked, and a slot that stays connected is invoked exactly once.     *)
(*                                                                         *)
(* The invariant names what the pointers only imply: the list, as the      *)
(* sequence of connections next_ and prev_ lead through.  A removed        *)
(* connection leads back to it, directly or through the one connection     *)
(* that is being removed, so an emission that stands anywhere has a        *)
(* position in the list: it has invoked what it must before that position  *)
(* and nothing of it after.  Memory is safe because an emission that stands*)
(* on a connection removed under the version not in force is counted under *)
(* that version.  A thread deletes on counters it has read some steps ago: *)
(* an emission that began since can only have found what is on the list.   *)
(***************************************************************************)
EXTENDS Signals, FiniteSetTheorems, SequenceTheorems, WellFoundedInduction, TLAPS

-----------------------------------------------------------------------------
(* The invariant *)

\* Where a thread holds the mutex
Holding == {"scan", "unlink", "count", "drop", "clear", "clearCount", "clearDrop",
            "cleanup", "erase", "release", "unlock"}

Removing == {"unlink", "count", "drop"}

\* Where a thread can be in which call, and what its locals are there
CallOK(t) ==
    /\ pc[t] \in Holding <=> mutex = t
    /\ op[t] = "emit" <=> unit[t] # 0
    /\ pc[t] = "idle" <=> op[t] = "none"
    /\ pc[t] \in {"incr", "list", "visit", "next", "try", "decr", "unwind", "release"} =>
          op[t] = "emit"
    /\ pc[t] = "scan" => op[t] \in {"connect", "disconnect"}
    /\ pc[t] \in {"clear", "clearCount", "clearDrop"} => op[t] \in {"clear", "free"}
    /\ pc[t] \in Removing \cup {"cleanup", "erase"} => op[t] \in {"emit", "connect", "disconnect"}
    /\ pc[t] = "free" => op[t] = "free"
    /\ tmp[t] # Null <=> pc[t] \in Removing
    /\ pc[t] \in {"idle", "incr", "list", "try", "decr", "unwind", "cleanup", "erase"} => curr[t] = Null
    /\ pc[t] = "unlock" /\ op[t] = "emit" => curr[t] = Null
    /\ pc[t] = "next" => curr[t] \in Nodes
    /\ op[t] = "connect" /\ pc[t] \in Removing \cup {"scan"} =>
          \E n \in Nodes \ held : visited[t] = {n}

Calls == \A t \in Threads : CallOK(t)

\* The counters count, and the emissions are finitely many.
Counts == CountersExact /\ \A u \in 1..2 : IsFiniteSet(Counted(u))

\* Once the signal object is being destroyed only emissions are left, and the last of
\* them deletes the control block.
Ending ==
    /\ ~owned \/ (\E u \in Threads : op[u] = "free") =>
          \A t \in Threads : pc[t] # "incr" /\ op[t] \in {"none", "emit", "free"}
    /\ \A t \in Threads : op[t] = "free" => owned /\ (\A u \in Threads \ {t} : op[u] # "free")
    /\ deleted => ~owned /\ execs = NoneEmits
    /\ ~owned /\ execs = NoneEmits => deleted /\ held = {}

\* When the signal object has given its connections up, the list stays empty.
Emptied(list) ==
    ~owned \/ (\E t \in Threads : op[t] = "free" /\ pc[t] \in {"unlock", "free"}) => list = << >>

\* A thread has taken the list away and has not dropped it yet.
Clearing == \E t \in Threads : pc[t] \in {"clearCount", "clearDrop"}

At(list, i) == IF i \in 1..Len(list) THEN list[i] ELSE Null

\* The connections on the list, in its order
Linked(list) ==
    /\ Range(list) = Listed
    /\ \A i, j \in 1..Len(list) : list[i] = list[j] => i = j
    /\ \A i \in 1..Len(list) :
          /\ next[list[i]] = At(list, i + 1)
          /\ prev[list[i]] = IF i = 1 THEN ListHead ELSE list[i - 1]
    /\ next[ListHead] = IF Clearing THEN Null ELSE At(list, 1)

\* A removed connection keeps its memory and leads back to the list: directly, or
\* through the connection that is being removed.
Store ==
    /\ rmvd \subseteq held
    /\ \A n \in rmvd : tag[n] # "active"
    /\ \A n \in held \ rmvd : tag[n] = "active"
    /\ Unlinked \subseteq held \ rmvd
    /\ \A n \in rmvd : next[n] \in Listed \cup Unlinked \cup {Null}
    /\ \A n \in Unlinked : next[n] \in Listed \cup {Null}
    /\ rmvd # {} => cleanupFlag

\* The pointers of the thread that holds the mutex
Pointers(list, t) ==
    /\ pc[t] = "scan" => curr[t] \in Listed \cup {Null}
    /\ pc[t] \in Removing => curr[t] = next[tmp[t]] /\ tmp[t] \in held \ rmvd
    /\ pc[t] \in {"clear", "clearCount", "clearDrop"} => curr[t] = At(list, 1)

\* The version that is not in force: its counter is the one that has to run out
Old == IF version THEN 2 ELSE 1
OldTag == IF version THEN "rem_v2" ELSE "rem_v1"

\* An emission stands on a connection that is held; on one that was removed before
\* the versions changed only if it is counted under the version of that time.
Standing(e) ==
    op[e] = "emit" =>
        /\ curr[e] \in held \cup {Null}
        /\ curr[e] \in rmvd /\ tag[curr[e]] = OldTag => unit[e] = Old

\* A counter that thread t has seen at zero may count again, but then emissions
\* that have found nothing but what is on the list.
Stale(t, e) ==
    op[e] = "emit" /\ seen[t][unit[e]] = 0 =>
        /\ pc[t] \in {"drop", "erase"} => curr[e] \in Listed \cup {Null}
        /\ pc[t] = "clearDrop" => curr[e] = Null

\* From connection c on, the list is met from its i-th element on.
Gone == held \ Listed
From(list, c, i) ==
    \/ At(list, i) = c
    \/ c \in Gone /\ At(list, i) = next[c]
    \/ c \in Gone /\ next[c] \in Gone /\ At(list, i) = next[next[c]]

\* Of the connections an emission has to invoke, it has invoked those before i.
Split(list, e, i) ==
    \A j \in 1..Len(list) : list[j] \in expected[e] => (list[j] \in visited[e] <=> j < i)

Position(list, e) ==
    /\ expected[e] \subseteq Listed
    /\ op[e] # "emit" \/ pc[e] \in {"incr", "list"} \/ Clearing => expected[e] = {}
    /\ pc[e] \in {"idle", "incr", "list"} => visited[e] = {}
    /\ expected[e] # {} =>
          /\ pc[e] \in Removing \cup {"visit", "release"} =>
                \E i \in 1..(Len(list) + 1) : From(list, curr[e], i) /\ Split(list, e, i)
          /\ pc[e] = "next" =>
                \E i \in 1..(Len(list) + 1) : From(list, next[curr[e]], i) /\ Split(list, e, i)
          /\ pc[e] \in {"cleanup", "erase", "unlock", "try", "decr"} => expected[e] \subseteq visited[e]

\* What concerns the connections
Connections(list) ==
    /\ Linked(list) /\ Emptied(list) /\ Store /\ ~twice
    /\ \A t \in Threads : Pointers(list, t) /\ Standing(t) /\ Position(list, t)
    /\ \A t \in Threads : \A e \in Threads \ {t} : Stale(t, e)

Inv(list) == TypeOK /\ Calls /\ Counts /\ Ending /\ Connections(list)

\* The inductive invariant
IInv == \E list \in Lists : Inv(list)

-----------------------------------------------------------------------------
(* What the counters tell *)

\* An emission that has passed exe_guard's constructor is counted.
LEMMA CountedOne ==
    ASSUME TypeOK, Calls, Counts, NEW t \in Threads, op[t] = "emit", pc[t] # "incr"
    PROVE  unit[t] \in 1..2 /\ execs[unit[t]] >= 1
  <1>1. unit[t] \in 1..2
    BY DEF TypeOK, Calls, CallOK
  <1>2. t \in Counted(unit[t])
    BY DEF Counted
  <1>3. Cardinality(Counted(unit[t])) \in Nat /\ Cardinality(Counted(unit[t])) # 0
    BY <1>1, <1>2, FS_CardinalityType, FS_EmptySet DEF Counts
  <1> QED
    BY <1>1, <1>3 DEF Counts, CountersExact

\* execs_ less the unit of the calling emission is zero in a version only if no other
\* emission is counted under it.
LEMMA OthersSee ==
    ASSUME TypeOK, Calls, Counts, NEW t \in Threads, pc[t] # "incr"
    PROVE  /\ Others(t) \in [1..2 -> Nat]
           /\ \A e \in Threads \ {t} : op[e] = "emit" /\ pc[e] # "incr" => Others(t)[unit[e]] # 0
  <1>1. Others(t) \in [1..2 -> Nat]
    <2>1. CASE unit[t] = 0
      BY <2>1 DEF Others, TypeOK
    <2>2. CASE unit[t] # 0
      <3>1. unit[t] \in 1..2 /\ execs[unit[t]] - 1 \in Nat
        BY <2>2, CountedOne DEF TypeOK, Calls, CallOK
      <3> QED
        BY <2>2, <3>1 DEF Others, TypeOK
    <2> QED
      BY <2>1, <2>2
  <1>2. ASSUME NEW e \in Threads \ {t}, op[e] = "emit", pc[e] # "incr"
        PROVE  Others(t)[unit[e]] # 0
    <2>1. unit[e] \in 1..2 /\ execs[unit[e]] >= 1
      BY <1>2, CountedOne
    <2>2. CASE unit[t] # unit[e]
      BY <2>1, <2>2 DEF Others, TypeOK
    <2>3. CASE unit[t] = unit[e]
      <3>1. t \in Counted(unit[e]) /\ e \in Counted(unit[e]) \ {t}
        BY <1>2, <2>3 DEF Counted
      <3>2. IsFiniteSet(Counted(unit[e])) /\ execs[unit[e]] = Cardinality(Counted(unit[e]))
        BY <2>1 DEF Counts, CountersExact
      <3>3. /\ IsFiniteSet(Counted(unit[e]) \ {t})
            /\ Cardinality(Counted(unit[e]) \ {t}) = Cardinality(Counted(unit[e])) - 1
        BY <3>1, <3>2, FS_RemoveElement
      <3>4. Cardinality(Counted(unit[e]) \ {t}) \in Nat /\ Cardinality(Counted(unit[e]) \ {t}) # 0
        BY <3>1, <3>3, FS_CardinalityType, FS_EmptySet
      <3>5. execs[unit[e]] - 1 # 0 /\ unit[e] # 0
        BY <2>1, <3>2, <3>3, <3>4
      <3> QED
        BY <2>1, <2>3, <3>5 DEF Others, TypeOK
    <2> QED
      BY <2>2, <2>3
  <1> QED
    BY <1>1, <1>2

\* Nobody emits when both counters have run out.
LEMMA NoneEmitting ==
    ASSUME TypeOK, Calls, Counts, NEW t \in Threads, op[t] = "emit", pc[t] # "incr"
    PROVE  execs # NoneEmits
  BY CountedOne DEF NoneEmits

-----------------------------------------------------------------------------
(* The list *)

\* A list is a finite sequence of connections.
LEMMA ListType ==
    ASSUME NEW list \in Lists
    PROVE  /\ list \in Seq(Nodes) /\ Len(list) \in Nat /\ DOMAIN list = 1..Len(list)
           /\ \A i \in 1..Len(list) : list[i] \in Nodes
           /\ Range(list) = {list[i] : i \in 1..Len(list)}
           /\ (list = << >>) <=> (Len(list) = 0)
  <1>1. PICK k \in 0..Cardinality(Nodes) : list \in [1..k -> Nodes]
    BY DEF Lists
  <1>2. Cardinality(Nodes) \in Nat /\ k \in Nat
    BY NodesAssumption, FS_CardinalityType
  <1>3. list \in Seq(Nodes) /\ Len(list) = k
    BY <1>1, <1>2
  <1> QED
    BY <1>1, <1>2, <1>3 DEF Range

\* A sequence without repetitions is one of the lists: there is memory for it.
LEMMA ListsAre ==
    ASSUME NEW list \in Seq(Nodes), \A i, j \in 1..Len(list) : list[i] = list[j] => i = j
    PROVE  list \in Lists
  <1>1. /\ Len(list) \in Nat /\ list \in [1..Len(list) -> Nodes]
    OBVIOUS
  <1>2. IsFiniteSet(1..Len(list)) /\ Cardinality(1..Len(list)) = Len(list)
    BY <1>1, FS_Interval
  <1>3. list \in Injection(1..Len(list), Nodes)
    BY <1>1 DEF Injection, IsInjective
  <1>4. Cardinality(1..Len(list)) <= Cardinality(Nodes)
    BY <1>2, <1>3, NodesAssumption, FS_Injection
  <1> QED
    BY <1>1, <1>2, <1>4, FS_CardinalityType, NodesAssumption DEF Lists

\* The pointer connect appends at is that of the last connection, or list_ itself.
LEMMA TailIs ==
    ASSUME NEW list \in Lists, Linked(list), ~Clearing
    PROVE  /\ Tail_ = IF list = << >> THEN ListHead ELSE list[Len(list)]
           /\ Tail_ \in Listed \cup {ListHead} /\ next[Tail_] = Null
  <1> USE ListType
  <1> DEFINE last == IF list = << >> THEN ListHead ELSE list[Len(list)]
  <1>1. last \in Listed \cup {ListHead} /\ next[last] = Null
    BY DEF Linked, At
  <1>2. ASSUME NEW p \in Listed \cup {ListHead}, next[p] = Null PROVE p = last
    <2>1. CASE p = ListHead
      BY <1>2, <2>1, NodesAssumption DEF Linked, At
    <2>2. CASE p # ListHead
      <3>1. PICK i \in 1..Len(list) : p = list[i]
        BY <1>2, <2>2 DEF Linked
      <3>2. i = Len(list)
        BY <1>2, <3>1, NodesAssumption DEF Linked, At
      <3> QED
        BY <3>1, <3>2
    <2> QED
      BY <2>1, <2>2
  <1> HIDE DEF last
  <1>3. Tail_ = last
    BY <1>1, <1>2 DEF Tail_
  <1> QED
    BY <1>1, <1>3 DEF last

\* The thread that holds the mutex is alone with it.
LEMMA Sole ==
    ASSUME TypeOK, Calls, NEW t \in Threads, pc[t] \in Holding
    PROVE  /\ mutex = t
           /\ \A o \in Threads \ {t} : pc[o] \notin Holding /\ tmp[o] = Null
  BY ThreadsAssumption DEF Calls, CallOK, Holding, Removing

-----------------------------------------------------------------------------
(* The threads *)

\* A step leaves the locals of thread o alone, but for what it has to invoke.
Same(o) ==
    /\ pc'[o] = pc[o] /\ op'[o] = op[o] /\ unit'[o] = unit[o] /\ curr'[o] = curr[o]
    /\ tmp'[o] = tmp[o] /\ seen'[o] = seen[o] /\ visited'[o] = visited[o]
    /\ mutex' = o <=> mutex = o

\* Every step is the step of one thread.
Step(t) ==
    \/ Emission(t) \/ Locked(t)
    \/ \E o \in {"connect", "disconnect", "clear", "free"}, n \in Nodes \cup {Null} : Call(t, o, n)

\* A step changes the locals of its own thread only, and nobody else's hold of the mutex.
LEMMA Frame ==
    ASSUME TypeOK, Calls, NEW t \in Threads, Step(t)
    PROVE  \A o \in Threads \ {t} : Same(o)
  <1> SUFFICES ASSUME NEW o \in Threads \ {t} PROVE Same(o)
    OBVIOUS
  <1>0. (pc[t] \in Holding <=> mutex = t) /\ t # Null /\ o # Null
    BY ThreadsAssumption DEF Calls, CallOK, Threads
  <1>1. CASE Emit(t)
    BY <1>0, <1>1 DEF Emit, Same, TypeOK, Goto, sharedVars, stateVars, Holding
  <1>2. CASE Incr(t)
    BY <1>0, <1>2 DEF Incr, Same, TypeOK, Goto, sharedVars, stateVars, Holding
  <1>3. CASE LoadList(t)
    BY <1>0, <1>3 DEF LoadList, Same, TypeOK, Goto, sharedVars, stateVars, Holding
  <1>4. CASE Invoke(t) \/ Throws(t)
    BY <1>0, <1>4 DEF Invoke, Throws, Same, TypeOK, Goto, sharedVars, stateVars, Holding
  <1>5. CASE Discard(t)
    BY <1>0, <1>5 DEF Discard, Same, TypeOK, Goto, sharedVars, stateVars, Holding
  <1>6. CASE LoadNext(t)
    BY <1>0, <1>6 DEF LoadNext, Same, TypeOK, Goto, sharedVars, stateVars, Holding
  <1>7. CASE EndOfList(t)
    BY <1>0, <1>7 DEF EndOfList, Same, TypeOK, Goto, sharedVars, stateVars, Holding
  <1>8. CASE TryCleanup(t)
    BY <1>0, <1>8 DEF TryCleanup, Same, TypeOK, Goto, sharedVars, stateVars, Holding
  <1>9. CASE Decr(t)
    BY <1>0, <1>9 DEF Decr, Rests, Same, TypeOK, Goto, sharedVars, stateVars, Holding
  <1>10. CASE Scan(t)
    BY <1>0, <1>10 DEF Scan, Same, TypeOK, Goto, sharedVars, stateVars, Holding
  <1>11. CASE ScanEnds(t)
    BY <1>0, <1>11 DEF ScanEnds, Same, TypeOK, Goto, sharedVars, stateVars, Holding
  <1>12. CASE Unlink(t)
    BY <1>0, <1>12 DEF Unlink, Same, TypeOK, Goto, sharedVars, stateVars, Holding
  <1>13. CASE Count(t)
    BY <1>0, <1>13 DEF Count, Same, TypeOK, Goto, sharedVars, stateVars, Holding
  <1>14. CASE Drop(t)
    BY <1>0, <1>14 DEF Drop, AfterRemove, Same, TypeOK, Goto, sharedVars, stateVars, Holding
  <1>15. CASE Clear(t)
    BY <1>0, <1>15 DEF Clear, Same, TypeOK, Goto, sharedVars, stateVars, Holding
  <1>16. CASE ClearCount(t)
    BY <1>0, <1>16 DEF ClearCount, Same, TypeOK, Goto, sharedVars, stateVars, Holding
  <1>17. CASE ClearDrop(t)
    BY <1>0, <1>17 DEF ClearDrop, Same, TypeOK, Goto, sharedVars, stateVars, Holding
  <1>18. CASE CleanupLoad(t)
    BY <1>0, <1>18 DEF CleanupLoad, Same, TypeOK, Goto, sharedVars, stateVars, Holding
  <1>19. CASE CleanupErase(t)
    BY <1>0, <1>19 DEF CleanupErase, Same, TypeOK, Goto, sharedVars, stateVars, Holding
  <1>20. CASE Unlock(t)
    BY <1>0, <1>20 DEF Unlock, Rests, Same, TypeOK, Goto, sharedVars, stateVars, Holding
  <1>21. CASE Free(t)
    BY <1>0, <1>21 DEF Free, Rests, Same, TypeOK, Goto, sharedVars, stateVars, Holding
  <1>22. ASSUME NEW c \in {"connect", "disconnect", "clear", "free"},
                NEW n \in Nodes \cup {Null}, Call(t, c, n)
         PROVE  Same(o)
    BY <1>0, <1>22 DEF Call, Same, TypeOK, Goto, sharedVars, stateVars, Holding
  <1> QED
    BY <1>1, <1>2, <1>3, <1>4, <1>5, <1>6, <1>7, <1>8, <1>9, <1>10, <1>11, <1>12, <1>13, <1>14,
       <1>15, <1>16, <1>17, <1>18, <1>19, <1>20, <1>21, <1>22 DEF Step, Emission, Locked

\* Every step keeps the types: a counter that is decremented has counted somebody.
LEMMA TypeStep ==
    ASSUME NEW list \in Lists, Inv(list), NEW t \in Threads, Step(t)
    PROVE  TypeOK'
  <1>0. TypeOK /\ Calls /\ Counts /\ Linked(list)
    BY DEF Inv, Connections
  <1>1. CASE Emit(t)
    BY <1>1, <1>0, NodesAssumption DEF Emit, TypeOK, Goto, sharedVars, stateVars, Labels, Tags
  <1>2. CASE Incr(t)
    <2>1. unit[t] \in 1..2
      BY <1>0, <1>2 DEF Incr, Calls, CallOK, TypeOK
    <2> QED
      BY <1>2, <1>0, NodesAssumption, <2>1 DEF Incr, TypeOK, Goto, sharedVars, stateVars,
         Labels, Tags
  <1>3. CASE LoadList(t)
    BY <1>3, <1>0, NodesAssumption DEF LoadList, Listed, TypeOK, Goto, sharedVars, stateVars,
       Labels, Tags
  <1>4. CASE Invoke(t) \/ Throws(t)
    <2>1. twice' \in BOOLEAN
      BY <1>4, <1>0, Zenon DEF Invoke, Throws, TypeOK
    <2>2. /\ pc' \in [Threads -> Labels] /\ curr' \in [Threads -> Nodes \cup {Null}]
          /\ visited' \in [Threads -> SUBSET (Nodes \cup {Null})]
      <3>1. curr[t] \in Nodes \cup {Null} /\ visited[t] \subseteq Nodes \cup {Null}
        BY <1>0 DEF TypeOK
      <3>2. visited' = [visited EXCEPT ![t] = visited[t] \cup {curr[t]}]
        BY <1>4 DEF Invoke, Throws
      <3>3. visited' \in [Threads -> SUBSET (Nodes \cup {Null})]
        BY <1>0, <3>1, <3>2 DEF TypeOK
      <3>4. CASE Invoke(t)
        BY <1>0, <3>3, <3>4 DEF Invoke, TypeOK, Goto, Labels
      <3>5. CASE Throws(t)
        BY <1>0, <3>3, <3>5 DEF Throws, TypeOK, Goto, Labels
      <3> QED
        BY <1>4, <3>4, <3>5
    <2> QED
      BY <1>4, <1>0, <2>1, <2>2 DEF Invoke, Throws, TypeOK, sharedVars, stateVars
  <1>5. CASE Discard(t)
    <2>1. curr[t] \in Nodes /\ next[curr[t]] \in Nodes \cup {Null}
      BY <1>0, <1>5 DEF Discard, TypeOK
    <2>2. expected' \in [Threads -> SUBSET Nodes]
      BY <1>0, <1>5 DEF Discard, TypeOK
    <2>3. CASE mutex = Null /\ tag[curr[t]] = "active"
      BY <1>5, <1>0, NodesAssumption, <2>1, <2>2, <2>3 DEF Discard, TypeOK, Goto, sharedVars,
         stateVars, Labels, Tags
    <2>4. CASE mutex = Null /\ tag[curr[t]] # "active"
      BY <1>5, <1>0, NodesAssumption, <2>1, <2>2, <2>4 DEF Discard, TypeOK, Goto, sharedVars,
         stateVars, Labels, Tags
    <2>5. CASE mutex # Null
      BY <1>5, <1>0, NodesAssumption, <2>1, <2>2, <2>5 DEF Discard, TypeOK, Goto, sharedVars,
         stateVars, Labels, Tags
    <2> QED
      BY <2>3, <2>4, <2>5 DEF TypeOK
  <1>6. CASE LoadNext(t)
    BY <1>6, <1>0, NodesAssumption DEF LoadNext, TypeOK, Goto, sharedVars, stateVars, Labels,
       Tags, Calls, CallOK, Removing
  <1>7. CASE EndOfList(t)
    BY <1>7, <1>0, NodesAssumption DEF EndOfList, TypeOK, Goto, sharedVars, stateVars, Labels,
       Tags
  <1>8. CASE TryCleanup(t)
    <2>1. CASE mutex = Null
      BY <1>8, <1>0, NodesAssumption, <2>1 DEF TryCleanup, TypeOK, Goto, sharedVars, stateVars,
         Labels, Tags
    <2>2. CASE mutex # Null
      BY <1>8, <1>0, NodesAssumption, <2>2 DEF TryCleanup, TypeOK, Goto, sharedVars, stateVars,
         Labels, Tags
    <2> QED
      BY <2>1, <2>2
  <1>9. CASE Decr(t)
    <2>1. unit[t] \in 1..2 /\ execs[unit[t]] - 1 \in Nat
      BY <1>0, <1>9, CountedOne DEF Decr, Calls, CallOK, TypeOK
    <2>2. execs' \in [1..2 -> Nat]
      BY <1>0, <1>9, <2>1 DEF Decr, TypeOK
    <2>3. NoneEmits \in [1..2 -> Nat]
      BY DEF NoneEmits
    <2>4. /\ seen' \in [Threads -> [1..2 -> Nat]]
          /\ visited' \in [Threads -> SUBSET (Nodes \cup {Null})]
          /\ expected' \in [Threads -> SUBSET Nodes]
      BY <1>0, <1>9, <2>3 DEF Decr, Rests, TypeOK
    <2>5. held' \subseteq Nodes /\ rmvd' \subseteq Nodes /\ deleted' \in BOOLEAN
      BY <1>0, <1>9 DEF Decr, Delete, TypeOK
    <2> QED
      BY <1>9, <1>0, NodesAssumption, <2>1, <2>2, <2>3, <2>4, <2>5 DEF Decr, Delete, Rests,
         TypeOK, Goto, sharedVars, stateVars, Labels, Tags
  <1>10. CASE Scan(t)
    BY <1>10, <1>0, NodesAssumption DEF Scan, TypeOK, Goto, sharedVars, stateVars, Labels, Tags,
       Calls, CallOK, Removing
  <1>11. CASE ScanEnds(t)
    <2>1. ~Clearing
      BY <1>0, <1>11, Sole DEF ScanEnds, Clearing, Holding
    <2>2. Tail_ \in Nodes \cup {ListHead}
      BY <1>0, <2>1, TailIs DEF Listed, TypeOK
    <2>3. op[t] = "connect" => \A n \in visited[t] : n \in Nodes
      BY <1>0, <1>11 DEF ScanEnds, Calls, CallOK, TypeOK
    <2>4. next' \in [Nodes \cup {ListHead} -> Nodes \cup {Null}]
      BY <1>0, <1>11, <2>2, <2>3 DEF ScanEnds, TypeOK
    <2>5. prev' \in [Nodes -> Nodes \cup {ListHead}]
      BY <1>0, <1>11, <2>2, <2>3 DEF ScanEnds, TypeOK
    <2>6. tag' \in [Nodes -> Tags] /\ held' \subseteq Nodes
      BY <1>0, <1>11, <2>2, <2>3 DEF ScanEnds, TypeOK, Tags
    <2>7. CASE op[t] = "connect"
      BY <1>11, <1>0, NodesAssumption, <2>1, <2>2, <2>3, <2>4, <2>5, <2>6, <2>7 DEF ScanEnds,
         TypeOK, Goto, sharedVars, stateVars, Labels, Tags
    <2>8. CASE op[t] # "connect"
      BY <1>11, <1>0, NodesAssumption, <2>1, <2>2, <2>3, <2>4, <2>5, <2>6, <2>8 DEF ScanEnds,
         TypeOK, Goto, sharedVars, stateVars, Labels, Tags
    <2> QED
      BY <2>7, <2>8
  <1>12. CASE Unlink(t)
    BY <1>12, <1>0, NodesAssumption DEF Unlink, TypeOK, Goto, sharedVars, stateVars, Labels,
       Tags, Calls, CallOK, Removing
  <1>13. CASE Count(t)
    BY <1>13, OthersSee, <1>0, NodesAssumption DEF Count, TypeOK, Goto, sharedVars, stateVars,
       Labels, Tags
  <1>14. CASE Drop(t)
    <2>1. tmp[t] \in Nodes
      BY <1>0, <1>14 DEF Drop, Calls, CallOK, TypeOK, Removing
    <2>2. next' \in [Nodes \cup {ListHead} -> Nodes \cup {Null}] /\ tag' \in [Nodes -> Tags]
      BY <1>0, <1>14, <2>1 DEF Drop, Bypass, TypeOK, Tags
    <2>3. CASE seen[t] = NoneEmits
      BY <1>14, <1>0, NodesAssumption, <2>1, <2>2, <2>3 DEF Drop, EraseAll, Release, Bypass,
         AfterRemove, TypeOK, Goto, sharedVars, stateVars, Labels, Tags
    <2>4. CASE seen[t] # NoneEmits
      BY <1>14, <1>0, NodesAssumption, <2>1, <2>2, <2>4 DEF Drop, EraseAll, Release, Bypass,
         AfterRemove, TypeOK, Goto, sharedVars, stateVars, Labels, Tags
    <2> QED
      BY <2>3, <2>4
  <1>15. CASE Clear(t)
    BY <1>15, <1>0, NodesAssumption DEF Clear, TypeOK, Goto, sharedVars, stateVars, Labels, Tags
  <1>16. CASE ClearCount(t)
    BY <1>16, <1>0, NodesAssumption DEF ClearCount, TypeOK, Goto, sharedVars, stateVars, Labels,
       Tags
  <1>17. CASE ClearDrop(t)
    <2>1. \A l \in Lists : Range(l) \subseteq Nodes
      BY DEF Lists, Range
    <2>2. CASE seen[t] = NoneEmits
      BY <1>17, <1>0, NodesAssumption, <2>1, <2>2 DEF ClearDrop, EraseAll, Release, TypeOK,
         Goto, sharedVars, stateVars, Labels, Tags
    <2>3. CASE seen[t] # NoneEmits
      BY <1>17, <1>0, NodesAssumption, <2>1, <2>3 DEF ClearDrop, EraseAll, Release, TypeOK,
         Goto, sharedVars, stateVars, Labels, Tags
    <2> QED
      BY <2>2, <2>3
  <1>18. CASE CleanupLoad(t)
    BY <1>18, OthersSee, <1>0, NodesAssumption DEF CleanupLoad, TypeOK, Goto, sharedVars,
       stateVars, Labels, Tags
  <1>19. CASE CleanupErase(t)
    <2>1. CASE seen[t] = NoneEmits
      BY <1>19, <1>0, NodesAssumption, <2>1 DEF CleanupErase, EraseOther, Erase, Release,
         TypeOK, Goto, sharedVars, stateVars, Labels, Tags
    <2>2. CASE seen[t] # NoneEmits /\ version
      BY <1>19, <1>0, NodesAssumption, <2>2 DEF CleanupErase, EraseOther, Erase, Release,
         TypeOK, Goto, sharedVars, stateVars, Labels, Tags
    <2>3. CASE seen[t] # NoneEmits /\ ~version
      BY <1>19, <1>0, NodesAssumption, <2>3 DEF CleanupErase, EraseOther, Erase, Release,
         TypeOK, Goto, sharedVars, stateVars, Labels, Tags
    <2> QED
      BY <2>1, <2>2, <2>3 DEF TypeOK
  <1>20. CASE Unlock(t)
    <2>1. NoneEmits \in [1..2 -> Nat]
      BY DEF NoneEmits
    <2>2. /\ seen' \in [Threads -> [1..2 -> Nat]]
          /\ visited' \in [Threads -> SUBSET (Nodes \cup {Null})]
      BY <1>0, <1>20, <2>1 DEF Unlock, Rests, TypeOK
    <2>3. CASE op[t] = "emit"
      BY <1>20, <1>0, NodesAssumption, <2>1, <2>2, <2>3 DEF Unlock, Rests, TypeOK, Goto,
         sharedVars, stateVars, Labels, Tags
    <2>4. CASE op[t] = "free"
      BY <1>20, <1>0, NodesAssumption, <2>1, <2>2, <2>4 DEF Unlock, Rests, TypeOK, Goto,
         sharedVars, stateVars, Labels, Tags
    <2>5. CASE op[t] \notin {"emit", "free"}
      BY <1>20, <1>0, NodesAssumption, <2>1, <2>2, <2>5 DEF Unlock, Rests, TypeOK, Goto,
         sharedVars, stateVars, Labels, Tags
    <2> QED
      BY <2>3, <2>4, <2>5
  <1>21. CASE Free(t)
    <2>1. NoneEmits \in [1..2 -> Nat]
      BY DEF NoneEmits
    <2>2. CASE execs = NoneEmits
      BY <1>21, <1>0, NodesAssumption, <2>1, <2>2 DEF Free, Delete, Rests, TypeOK, Goto,
         sharedVars, stateVars, Labels, Tags
    <2>3. CASE execs # NoneEmits
      BY <1>21, <1>0, NodesAssumption, <2>1, <2>3 DEF Free, Delete, Rests, TypeOK, Goto,
         sharedVars, stateVars, Labels, Tags
    <2> QED
      BY <2>2, <2>3
  <1>22. ASSUME NEW c \in {"connect", "disconnect", "clear", "free"}, NEW n \in Nodes \cup {Null},
               Call(t, c, n)
        PROVE  TypeOK'
    BY <1>22, <1>0, NodesAssumption DEF Call, MayFree, TypeOK, Goto, sharedVars, stateVars,
       Labels, Tags
  <1> QED
    BY <1>1, <1>2, <1>3, <1>4, <1>5, <1>6, <1>7, <1>8, <1>9, <1>10, <1>11, <1>12, <1>13, <1>14,
       <1>15, <1>16, <1>17, <1>18, <1>19, <1>20, <1>21, <1>22 DEF Step, Emission, Locked

\* What a step of another thread leaves of CallOK
LEMMA CallsMove ==
    ASSUME TypeOK, Calls, NEW t \in Threads, Step(t), CallOK(t)', held' \subseteq held \/ mutex = t
    PROVE  Calls'
  <1> SUFFICES ASSUME NEW o \in Threads, o # t PROVE CallOK(o)'
    BY DEF Calls
  <1>1. CallOK(o) /\ Same(o) /\ (held' \subseteq held \/ mutex # o)
    BY Frame DEF Calls
  <1> QED
    BY <1>1 DEF CallOK, Same, Holding, Removing

\* Every step leaves its thread where its call may be, with the mutex exactly where it
\* has to be held.
LEMMA CallsStep ==
    ASSUME NEW list \in Lists, Inv(list), NEW t \in Threads, Step(t)
    PROVE  Calls'
  <1>0. TypeOK /\ Calls /\ CallOK(t) /\ t # Null
    BY ThreadsAssumption DEF Inv, Calls, Threads
  <1> SUFFICES CallOK(t)' /\ (held' \subseteq held \/ mutex = t)
    BY <1>0, CallsMove
  <1>1. CASE Emit(t)
    BY <1>1, <1>0 DEF Emit, CallOK, Goto, sharedVars, stateVars, Holding, Removing, TypeOK
  <1>2. CASE Incr(t)
    BY <1>2, <1>0 DEF Incr, CallOK, Goto, sharedVars, stateVars, Holding, Removing, TypeOK
  <1>3. CASE LoadList(t)
    BY <1>3, <1>0 DEF LoadList, Listed, CallOK, Goto, sharedVars, stateVars, Holding, Removing,
       TypeOK
  <1>4. CASE Invoke(t) \/ Throws(t)
    BY <1>4, <1>0 DEF Invoke, Throws, CallOK, Goto, sharedVars, stateVars, Holding, Removing, TypeOK
  <1>5. CASE Discard(t)
    <2>1. CASE mutex = Null /\ tag[curr[t]] = "active"
      BY <1>5, <1>0, <2>1 DEF Discard, CallOK, Goto, sharedVars, stateVars, Holding, Removing,
         TypeOK
    <2>2. CASE mutex = Null /\ tag[curr[t]] # "active"
      BY <1>5, <1>0, <2>2 DEF Discard, CallOK, Goto, sharedVars, stateVars, Holding, Removing,
         TypeOK
    <2>3. CASE mutex # Null
      BY <1>5, <1>0, <2>3 DEF Discard, CallOK, Goto, sharedVars, stateVars, Holding, Removing,
         TypeOK
    <2> QED
      BY <2>1, <2>2, <2>3 DEF TypeOK
  <1>6. CASE LoadNext(t)
    BY <1>6, <1>0 DEF LoadNext, CallOK, Goto, sharedVars, stateVars, Holding, Removing, TypeOK
  <1>7. CASE EndOfList(t)
    BY <1>7, <1>0 DEF EndOfList, CallOK, Goto, sharedVars, stateVars, Holding, Removing, TypeOK
  <1>8. CASE TryCleanup(t)
    <2>1. CASE mutex = Null
      BY <1>8, <1>0, <2>1 DEF TryCleanup, CallOK, Goto, sharedVars, stateVars, Holding,
         Removing, TypeOK
    <2>2. CASE mutex # Null
      BY <1>8, <1>0, <2>2 DEF TryCleanup, CallOK, Goto, sharedVars, stateVars, Holding,
         Removing, TypeOK
    <2> QED
      BY <2>1, <2>2
  <1>9. CASE Decr(t)
    <2>1. CASE execs' = NoneEmits /\ ~owned
      BY <1>9, <1>0, <2>1 DEF Decr, Delete, Rests, CallOK, Goto, sharedVars, stateVars, Holding,
         Removing, TypeOK
    <2>2. CASE ~(execs' = NoneEmits /\ ~owned)
      BY <1>9, <1>0, <2>2 DEF Decr, Delete, Rests, CallOK, Goto, sharedVars, stateVars, Holding,
         Removing, TypeOK
    <2> QED
      BY <2>1, <2>2
  <1>10. CASE Scan(t)
    BY <1>10, <1>0 DEF Scan, CallOK, Goto, sharedVars, stateVars, Holding, Removing, TypeOK
  <1>11. CASE ScanEnds(t)
    <2>1. CASE op[t] = "connect"
      BY <1>11, <1>0, <2>1 DEF ScanEnds, CallOK, Goto, sharedVars, stateVars, Holding, Removing,
         TypeOK
    <2>2. CASE op[t] # "connect"
      BY <1>11, <1>0, <2>2 DEF ScanEnds, CallOK, Goto, sharedVars, stateVars, Holding, Removing,
         TypeOK
    <2> QED
      BY <2>1, <2>2
  <1>12. CASE Unlink(t)
    BY <1>12, <1>0 DEF Unlink, CallOK, Goto, sharedVars, stateVars, Holding, Removing, TypeOK
  <1>13. CASE Count(t)
    BY <1>13, <1>0 DEF Count, CallOK, Goto, sharedVars, stateVars, Holding, Removing, TypeOK
  <1>14. CASE Drop(t)
    <2>1. CASE seen[t] = NoneEmits
      BY <1>14, <1>0, <2>1 DEF Drop, EraseAll, Release, Bypass, AfterRemove, CallOK, Goto,
         sharedVars, stateVars, Holding, Removing, TypeOK
    <2>2. CASE seen[t] # NoneEmits
      BY <1>14, <1>0, <2>2 DEF Drop, EraseAll, Release, Bypass, AfterRemove, CallOK, Goto,
         sharedVars, stateVars, Holding, Removing, TypeOK
    <2> QED
      BY <2>1, <2>2
  <1>15. CASE Clear(t)
    BY <1>15, <1>0 DEF Clear, CallOK, Goto, sharedVars, stateVars, Holding, Removing, TypeOK
  <1>16. CASE ClearCount(t)
    BY <1>16, <1>0 DEF ClearCount, CallOK, Goto, sharedVars, stateVars, Holding, Removing,
       TypeOK
  <1>17. CASE ClearDrop(t)
    <2>1. CASE seen[t] = NoneEmits
      BY <1>17, <1>0, <2>1 DEF ClearDrop, EraseAll, Release, CallOK, Goto, sharedVars,
         stateVars, Holding, Removing, TypeOK
    <2>2. CASE seen[t] # NoneEmits
      BY <1>17, <1>0, <2>2 DEF ClearDrop, EraseAll, Release, CallOK, Goto, sharedVars,
         stateVars, Holding, Removing, TypeOK
    <2> QED
      BY <2>1, <2>2
  <1>18. CASE CleanupLoad(t)
    BY <1>18, <1>0 DEF CleanupLoad, CallOK, Goto, sharedVars, stateVars, Holding, Removing,
       TypeOK
  <1>19. CASE CleanupErase(t)
    <2>1. CASE seen[t] = NoneEmits
      BY <1>19, <1>0, <2>1 DEF CleanupErase, EraseOther, Erase, Release, CallOK, Goto,
         sharedVars, stateVars, Holding, Removing, TypeOK
    <2>2. CASE seen[t] # NoneEmits /\ version
      BY <1>19, <1>0, <2>2 DEF CleanupErase, EraseOther, Erase, Release, CallOK, Goto,
         sharedVars, stateVars, Holding, Removing, TypeOK
    <2>3. CASE seen[t] # NoneEmits /\ ~version
      BY <1>19, <1>0, <2>3 DEF CleanupErase, EraseOther, Erase, Release, CallOK, Goto,
         sharedVars, stateVars, Holding, Removing, TypeOK
    <2> QED
      BY <2>1, <2>2, <2>3 DEF TypeOK
  <1>20. CASE Unlock(t)
    <2>1. CASE op[t] = "emit"
      BY <1>20, <1>0, <2>1 DEF Unlock, Rests, CallOK, Goto, sharedVars, stateVars, Holding,
         Removing, TypeOK
    <2>2. CASE op[t] = "free"
      BY <1>20, <1>0, <2>2 DEF Unlock, Rests, CallOK, Goto, sharedVars, stateVars, Holding,
         Removing, TypeOK
    <2>3. CASE op[t] \notin {"emit", "free"}
      BY <1>20, <1>0, <2>3 DEF Unlock, Rests, CallOK, Goto, sharedVars, stateVars, Holding,
         Removing, TypeOK
    <2> QED
      BY <2>1, <2>2, <2>3
  <1>21. CASE Free(t)
    <2>1. CASE execs = NoneEmits
      BY <1>21, <1>0, <2>1 DEF Free, Delete, Rests, CallOK, Goto, sharedVars, stateVars,
         Holding, Removing, TypeOK
    <2>2. CASE execs # NoneEmits
      BY <1>21, <1>0, <2>2 DEF Free, Delete, Rests, CallOK, Goto, sharedVars, stateVars,
         Holding, Removing, TypeOK
    <2> QED
      BY <2>1, <2>2
  <1>22. ASSUME NEW c \in {"connect", "disconnect", "clear", "free"}, NEW n \in Nodes \cup {Null},
               Call(t, c, n)
        PROVE  CallOK(t)' /\ (held' \subseteq held \/ mutex = t)
    <2>1. CASE c = "connect"
      BY <1>22, NodesAssumption, <1>0, <2>1 DEF Call, MayFree, CallOK, Goto, sharedVars,
         stateVars, Holding, Removing, TypeOK, Listed
    <2>2. CASE c = "disconnect"
      BY <1>22, NodesAssumption, <1>0, <2>2 DEF Call, MayFree, CallOK, Goto, sharedVars,
         stateVars, Holding, Removing, TypeOK, Listed
    <2>3. CASE c \in {"clear", "free"}
      BY <1>22, NodesAssumption, <1>0, <2>3 DEF Call, MayFree, CallOK, Goto, sharedVars,
         stateVars, Holding, Removing, TypeOK, Listed
    <2> QED
      BY <2>1, <2>2, <2>3
  <1> QED
    BY <1>1, <1>2, <1>3, <1>4, <1>5, <1>6, <1>7, <1>8, <1>9, <1>10, <1>11, <1>12, <1>13, <1>14,
       <1>15, <1>16, <1>17, <1>18, <1>19, <1>20, <1>21, <1>22 DEF Step, Emission, Locked

\* Every step keeps the counters exact: only Incr and Decr change who is counted.
LEMMA CountsStep ==
    ASSUME NEW list \in Lists, Inv(list), NEW t \in Threads, Step(t)
    PROVE  Counts'
  <1>0. TypeOK /\ Calls /\ Counts /\ CallOK(t)
    BY DEF Inv, Calls
  <1> DEFINE Stays == execs' = execs /\ unit'[t] = unit[t] /\ (pc'[t] = "incr" <=> pc[t] = "incr")
             Begins == execs' = execs /\ unit[t] = 0 /\ pc'[t] = "incr"
  <1>a. ASSUME Stays \/ Begins PROVE Counts'
    <2>1. ASSUME NEW u \in 1..2 PROVE Counted(u)' = Counted(u)
      <3>1. \A o \in Threads \ {t} : unit'[o] = unit[o] /\ pc'[o] = pc[o]
        BY <1>0, Frame DEF Same
      <3> QED
        BY <1>a, <3>1 DEF Counted
    <2> QED
      BY <1>0, <1>a, <2>1 DEF Counts, CountersExact
  <1>b. ASSUME NEW v \in 1..2, NEW u \in 1..2, u # v, unit[t] = v, unit'[t] \in {v, 0}
        PROVE  Counted(u)' = Counted(u)
    <2>1. \A o \in Threads \ {t} : unit'[o] = unit[o] /\ pc'[o] = pc[o]
      BY <1>0, Frame DEF Same
    <2> QED
      BY <1>b, <2>1 DEF Counted
  <1>c. CASE Incr(t)
    <2>0. PICK v \in 1..2 : v = unit[t]
      BY <1>0, <1>c DEF Incr, CallOK, TypeOK
    <2>1. /\ v \in 1..2 /\ unit'[t] = v /\ pc[t] = "incr" /\ pc'[t] # "incr"
          /\ execs' = [execs EXCEPT ![v] = @ + 1]
      BY <1>0, <1>c, <2>0 DEF Incr, TypeOK, Goto
    <2>2. Counted(v)' = Counted(v) \cup {t} /\ t \notin Counted(v)
      <3>1. \A o \in Threads \ {t} : unit'[o] = unit[o] /\ pc'[o] = pc[o]
        BY <1>0, Frame DEF Same
      <3> QED
        BY <2>0, <2>1, <3>1 DEF Counted
    <2>3. IsFiniteSet(Counted(v)) /\ execs[v] = Cardinality(Counted(v))
      BY <1>0, <2>1 DEF Counts, CountersExact
    <2>4. IsFiniteSet(Counted(v)') /\ Cardinality(Counted(v)') = execs[v] + 1
      BY <2>2, <2>3, FS_AddElement
    <2>5. ASSUME NEW u \in 1..2, u # v
          PROVE  Counted(u)' = Counted(u) /\ execs'[u] = execs[u]
      BY <1>0, <1>b, <2>0, <2>1, <2>5 DEF TypeOK
    <2>6. execs'[v] = execs[v] + 1
      BY <1>0, <2>1 DEF TypeOK
    <2>7. ASSUME NEW u \in 1..2
          PROVE  IsFiniteSet(Counted(u)') /\ execs'[u] = Cardinality(Counted(u)')
      <3>1. CASE u = v
        BY <2>4, <2>6, <3>1
      <3>2. CASE u # v
        BY <1>0, <2>5, <3>2 DEF Counts, CountersExact
      <3> QED
        BY <3>1, <3>2
    <2> QED
      BY <2>7 DEF Counts, CountersExact
  <1>d. CASE Decr(t)
    <2>0. PICK v \in 1..2 : v = unit[t]
      BY <1>0, <1>d DEF Decr, CallOK, TypeOK
    <2>1. /\ v \in 1..2 /\ unit'[t] = 0 /\ pc[t] # "incr"
          /\ execs' = [execs EXCEPT ![v] = @ - 1]
      BY <1>0, <1>d, <2>0 DEF Decr, TypeOK, Goto
    <2>2. Counted(v)' = Counted(v) \ {t} /\ t \in Counted(v)
      <3>1. \A o \in Threads \ {t} : unit'[o] = unit[o] /\ pc'[o] = pc[o]
        BY <1>0, Frame DEF Same
      <3> QED
        BY <2>0, <2>1, <3>1 DEF Counted
    <2>3. IsFiniteSet(Counted(v)) /\ execs[v] = Cardinality(Counted(v))
      BY <1>0, <2>1 DEF Counts, CountersExact
    <2>4. IsFiniteSet(Counted(v)') /\ Cardinality(Counted(v)') = execs[v] - 1
      BY <2>2, <2>3, FS_RemoveElement
    <2>5. ASSUME NEW u \in 1..2, u # v
          PROVE  Counted(u)' = Counted(u) /\ execs'[u] = execs[u]
      BY <1>0, <1>b, <2>0, <2>1, <2>5 DEF TypeOK
    <2>6. execs'[v] = execs[v] - 1
      BY <1>0, <2>1 DEF TypeOK
    <2>7. ASSUME NEW u \in 1..2
          PROVE  IsFiniteSet(Counted(u)') /\ execs'[u] = Cardinality(Counted(u)')
      <3>1. CASE u = v
        BY <2>4, <2>6, <3>1
      <3>2. CASE u # v
        BY <1>0, <2>5, <3>2 DEF Counts, CountersExact
      <3> QED
        BY <3>1, <3>2
    <2> QED
      BY <2>7 DEF Counts, CountersExact
  <1> SUFFICES ASSUME ~Incr(t), ~Decr(t) PROVE Stays \/ Begins
    BY <1>a, <1>c, <1>d
  <1>1. CASE Emit(t)
    BY <1>1, <1>0 DEF Emit, CallOK, Goto, TypeOK
  <1>2. CASE Incr(t)
    BY <1>2
  <1>3. CASE LoadList(t)
    BY <1>3, <1>0 DEF LoadList, CallOK, Goto, TypeOK
  <1>4. CASE Invoke(t) \/ Throws(t)
    BY <1>4, <1>0 DEF Invoke, Throws, CallOK, Goto, TypeOK
  <1>5. CASE Discard(t)
    BY <1>5, <1>0 DEF Discard, CallOK, Goto, TypeOK
  <1>6. CASE LoadNext(t)
    BY <1>6, <1>0 DEF LoadNext, CallOK, Goto, TypeOK
  <1>7. CASE EndOfList(t)
    BY <1>7, <1>0 DEF EndOfList, CallOK, Goto, TypeOK
  <1>8. CASE TryCleanup(t)
    BY <1>8, <1>0 DEF TryCleanup, CallOK, Goto, TypeOK
  <1>9. CASE Decr(t)
    BY <1>9
  <1>10. CASE Scan(t)
    BY <1>10, <1>0 DEF Scan, CallOK, Goto, TypeOK
  <1>11. CASE ScanEnds(t)
    BY <1>11, <1>0 DEF ScanEnds, CallOK, Goto, TypeOK
  <1>12. CASE Unlink(t)
    BY <1>12, <1>0 DEF Unlink, CallOK, Goto, TypeOK
  <1>13. CASE Count(t)
    BY <1>13, <1>0 DEF Count, CallOK, Goto, TypeOK
  <1>14. CASE Drop(t)
    BY <1>14, <1>0 DEF Drop, CallOK, Goto, TypeOK, AfterRemove
  <1>15. CASE Clear(t)
    BY <1>15, <1>0 DEF Clear, CallOK, Goto, TypeOK
  <1>16. CASE ClearCount(t)
    BY <1>16, <1>0 DEF ClearCount, CallOK, Goto, TypeOK
  <1>17. CASE ClearDrop(t)
    BY <1>17, <1>0 DEF ClearDrop, CallOK, Goto, TypeOK
  <1>18. CASE CleanupLoad(t)
    BY <1>18, <1>0 DEF CleanupLoad, CallOK, Goto, TypeOK
  <1>19. CASE CleanupErase(t)
    BY <1>19, <1>0 DEF CleanupErase, CallOK, Goto, TypeOK
  <1>20. CASE Unlock(t)
    BY <1>20, <1>0 DEF Unlock, Rests, CallOK, Goto, TypeOK
  <1>21. CASE Free(t)
    BY <1>21, <1>0 DEF Free, Rests, CallOK, Goto, TypeOK
  <1>22. ASSUME NEW c \in {"connect", "disconnect", "clear", "free"}, NEW n \in Nodes \cup {Null},
               Call(t, c, n)
        PROVE  Stays \/ Begins
    BY <1>22, <1>0 DEF Call, CallOK, Goto, TypeOK
  <1> QED
    BY <1>1, <1>2, <1>3, <1>4, <1>5, <1>6, <1>7, <1>8, <1>9, <1>10, <1>11, <1>12, <1>13, <1>14,
       <1>15, <1>16, <1>17, <1>18, <1>19, <1>20, <1>21, <1>22 DEF Step, Emission, Locked

\* Every step keeps the end in order: after free() only emissions are left, and the one
\* that leaves last deletes the control block.
LEMMA EndingStep ==
    ASSUME NEW list \in Lists, Inv(list), NEW t \in Threads, Step(t)
    PROVE  Ending'
  <1>0. TypeOK /\ Calls /\ Counts /\ CallOK(t) /\ Ending /\ \A o \in Threads \ {t} : Same(o)
    BY Frame DEF Inv, Calls
  <1>1. CASE Emit(t)
    BY <1>1, <1>0 DEF Emit, Ending, Same, Goto, CallOK, TypeOK, sharedVars
  <1>2. CASE Incr(t)
    BY <1>2, <1>0 DEF Incr, Ending, Same, Goto, CallOK, TypeOK, sharedVars
  <1>3. CASE LoadList(t)
    BY <1>3, <1>0 DEF LoadList, Listed, Ending, Same, Goto, CallOK, TypeOK, sharedVars
  <1>4. CASE Invoke(t) \/ Throws(t)
    BY <1>4, <1>0 DEF Invoke, Throws, Ending, Same, Goto, CallOK, TypeOK, sharedVars
  <1>5. CASE Discard(t)
    BY <1>5, <1>0 DEF Discard, Ending, Same, Goto, CallOK, TypeOK, sharedVars
  <1>6. CASE LoadNext(t)
    BY <1>6, <1>0 DEF LoadNext, Ending, Same, Goto, CallOK, TypeOK, sharedVars
  <1>7. CASE EndOfList(t)
    BY <1>7, <1>0 DEF EndOfList, Ending, Same, Goto, CallOK, TypeOK, sharedVars
  <1>8. CASE TryCleanup(t)
    BY <1>8, <1>0 DEF TryCleanup, Ending, Same, Goto, CallOK, TypeOK, sharedVars
  <1>9. CASE Decr(t)
    <2>1. ~deleted
      BY <1>0, <1>9, NoneEmitting DEF Decr, CallOK, Ending
    <2>2. deleted' => ~owned' /\ execs' = NoneEmits
      BY <2>1, <1>9 DEF Decr, Delete
    <2>3. ~owned' /\ execs' = NoneEmits => deleted' /\ held' = {}
      BY <1>9 DEF Decr, Delete
    <2>4. owned' = owned /\ op'[t] = "none" /\ op[t] = "emit" /\ pc'[t] = "idle"
      BY <1>0, <1>9 DEF Decr, Rests, Goto, TypeOK, CallOK
    <2>5. /\ ~owned' \/ (\E u \in Threads : op'[u] = "free") =>
                \A o \in Threads : pc'[o] # "incr" /\ op'[o] \in {"none", "emit", "free"}
          /\ \A o \in Threads : op'[o] = "free" => owned' /\ (\A u \in Threads \ {o} : op'[u] # "free")
      BY <1>0, <2>4 DEF Ending, Same
    <2> QED
      BY <1>9, <1>0, <2>1, <2>2, <2>3, <2>4, <2>5 DEF Decr, Delete, Rests, Ending, Same, Goto,
         CallOK, TypeOK, sharedVars
  <1>10. CASE Scan(t)
    BY <1>10, <1>0 DEF Scan, Ending, Same, Goto, CallOK, TypeOK, sharedVars, Removing
  <1>11. CASE ScanEnds(t)
    BY <1>11, <1>0 DEF ScanEnds, Ending, Same, Goto, CallOK, TypeOK, sharedVars
  <1>12. CASE Unlink(t)
    BY <1>12, <1>0 DEF Unlink, Ending, Same, Goto, CallOK, TypeOK, sharedVars, Removing
  <1>13. CASE Count(t)
    BY <1>13, <1>0 DEF Count, Ending, Same, Goto, CallOK, TypeOK, sharedVars
  <1>14. CASE Drop(t)
    BY <1>14, <1>0 DEF Drop, EraseAll, Release, Bypass, AfterRemove, Ending, Same, Goto, CallOK,
       TypeOK, sharedVars, Removing
  <1>15. CASE Clear(t)
    BY <1>15, <1>0 DEF Clear, Ending, Same, Goto, CallOK, TypeOK, sharedVars
  <1>16. CASE ClearCount(t)
    BY <1>16, <1>0 DEF ClearCount, Ending, Same, Goto, CallOK, TypeOK, sharedVars
  <1>17. CASE ClearDrop(t)
    BY <1>17, <1>0 DEF ClearDrop, EraseAll, Release, Ending, Same, Goto, CallOK, TypeOK,
       sharedVars
  <1>18. CASE CleanupLoad(t)
    BY <1>18, <1>0 DEF CleanupLoad, Ending, Same, Goto, CallOK, TypeOK, sharedVars
  <1>19. CASE CleanupErase(t)
    BY <1>19, <1>0 DEF CleanupErase, EraseOther, Erase, Release, Ending, Same, Goto, CallOK,
       TypeOK, sharedVars
  <1>20. CASE Unlock(t)
    BY <1>20, <1>0 DEF Unlock, Rests, Ending, Same, Goto, CallOK, TypeOK, sharedVars
  <1>21. CASE Free(t)
    <2>1. CASE execs = NoneEmits
      BY <1>21, <1>0, <2>1 DEF Free, Delete, Rests, Ending, Same, Goto, CallOK, TypeOK,
         sharedVars
    <2>2. CASE execs # NoneEmits
      BY <1>21, <1>0, <2>2 DEF Free, Delete, Rests, Ending, Same, Goto, CallOK, TypeOK,
         sharedVars
    <2> QED
      BY <2>1, <2>2
  <1>22. ASSUME NEW c \in {"connect", "disconnect", "clear", "free"}, NEW n \in Nodes \cup {Null},
               Call(t, c, n)
        PROVE  Ending'
    <2>1. \A u \in Threads : pc[u] = "idle" <=> op[u] = "none"
      BY <1>0 DEF Calls, CallOK
    <2>2. CASE c = "connect"
      BY <1>22, Frame, <1>0, <2>1, <2>2 DEF Call, MayFree, Ending, Same, Goto, CallOK, TypeOK,
         sharedVars, Calls
    <2>3. CASE c = "disconnect"
      BY <1>22, Frame, <1>0, <2>1, <2>3 DEF Call, MayFree, Ending, Same, Goto, CallOK, TypeOK,
         sharedVars, Calls
    <2>4. CASE c \in {"clear", "free"}
      BY <1>22, Frame, <1>0, <2>1, <2>4 DEF Call, MayFree, Ending, Same, Goto, CallOK, TypeOK,
         sharedVars, Calls
    <2> QED
      BY <2>2, <2>3, <2>4
  <1> QED
    BY <1>1, <1>2, <1>3, <1>4, <1>5, <1>6, <1>7, <1>8, <1>9, <1>10, <1>11, <1>12, <1>13, <1>14,
       <1>15, <1>16, <1>17, <1>18, <1>19, <1>20, <1>21, <1>22 DEF Step, Emission, Locked

-----------------------------------------------------------------------------
(* The connections: steps that leave them where they are *)

\* A connection that is held is on the list, or being removed, or removed; where
\* each of them leads.
LEMMA Places ==
    ASSUME NEW list \in Lists, Inv(list)
    PROVE  /\ Listed \cap Unlinked = {} /\ Listed \cap rmvd = {} /\ Unlinked \cap rmvd = {}
           /\ held = Listed \cup Unlinked \cup rmvd /\ Gone = Unlinked \cup rmvd
           /\ Null \notin held /\ held \subseteq Nodes
           /\ \A n \in Listed : next[n] \in Listed \cup {Null}
           /\ \A n \in held : next[n] \in Listed \cup Unlinked \cup {Null}
           /\ \A n \in Unlinked : next[n] \in Listed \cup {Null}
           /\ next[ListHead] \in Listed \cup {Null}
  <1>1. TypeOK /\ Linked(list) /\ Store
    BY DEF Inv, Connections
  <1>2. /\ Listed \cap Unlinked = {} /\ Listed \cap rmvd = {} /\ Unlinked \cap rmvd = {}
        /\ held = Listed \cup Unlinked \cup rmvd /\ Gone = Unlinked \cup rmvd
        /\ Null \notin held /\ held \subseteq Nodes
    BY <1>1, NodesAssumption DEF TypeOK, Store, Listed, Gone
  <1>3. ASSUME NEW n \in Listed PROVE next[n] \in Listed \cup {Null}
    <2>1. PICK i \in 1..Len(list) : n = list[i]
      BY <1>1, <1>3, ListType DEF Linked
    <2>2. At(list, i + 1) \in Range(list) \cup {Null}
      BY <2>1, ListType DEF At
    <2> QED
      BY <1>1, <2>1, <2>2 DEF Linked
  <1>4. next[ListHead] \in Listed \cup {Null}
    BY <1>1, ListType DEF Linked, At
  <1> QED
    BY <1>1, <1>2, <1>3, <1>4 DEF Store

\* While nobody holds the mutex nothing is being removed.
LEMMA Unlocked ==
    ASSUME TypeOK, Calls, mutex = Null
    PROVE  Unlinked = {} /\ ~Clearing /\ \A o \in Threads : pc[o] \notin Holding
  BY ThreadsAssumption DEF Calls, CallOK, Unlinked, Clearing, Holding, Threads

\* A step of t that leaves the connections where they are
Quiet(t) ==
    /\ UNCHANGED <<sharedVars, stateVars>>
    /\ pc'[t] \in {"count", "drop"} <=> pc[t] \in {"count", "drop"}
    /\ pc[t] \in {"count", "drop"} => tmp'[t] = tmp[t]
    /\ pc'[t] \in {"clearCount", "clearDrop"} <=> pc[t] \in {"clearCount", "clearDrop"}
    /\ \A o \in Threads \ {t} : Same(o) /\ expected'[o] = expected[o]

\* A step that changes neither connections nor versions leaves the list as it is.
LEMMA QuietFrame ==
    ASSUME NEW t \in Threads, Quiet(t)
    PROVE  /\ Unlinked' = Unlinked /\ Listed' = Listed /\ Gone' = Gone /\ Clearing' = Clearing
           /\ Old' = Old /\ OldTag' = OldTag
  <1>1. Unlinked' = Unlinked
    BY DEF Quiet, Same, Unlinked
  <1>2. Clearing' = Clearing
    BY DEF Quiet, Same, Clearing
  <1> QED
    BY <1>1, <1>2 DEF Quiet, sharedVars, stateVars, Listed, Gone, Old, OldTag

\* Of such a step it is enough to show what it does to its own thread.
LEMMA QuietStep ==
    ASSUME NEW list \in Lists, Inv(list), NEW t \in Threads, Quiet(t),
           Pointers(list, t)', Standing(t)', Position(list, t)', Emptied(list)', ~twice',
           \A e \in Threads \ {t} : Stale(t, e)' /\ Stale(e, t)'
    PROVE  Connections(list)'
  <1>1. /\ Unlinked' = Unlinked /\ Listed' = Listed /\ Gone' = Gone /\ Clearing' = Clearing
        /\ Old' = Old /\ OldTag' = OldTag
    BY QuietFrame
  <1>2. /\ next' = next /\ prev' = prev /\ tag' = tag /\ held' = held /\ rmvd' = rmvd
        /\ cleanupFlag' = cleanupFlag
    BY DEF Quiet, sharedVars, stateVars
  <1>3. Connections(list)
    BY DEF Inv
  <1>4. Linked(list)'
    BY <1>1, <1>2, <1>3 DEF Connections, Linked
  <1>5. Store'
    BY <1>1, <1>2, <1>3 DEF Connections, Store
  <1>6. ASSUME NEW o \in Threads PROVE Pointers(list, o)' /\ Standing(o)' /\ Position(list, o)'
    <2>1. CASE o = t
      BY <2>1
    <2>2. CASE o # t
      <3>1. Same(o) /\ expected'[o] = expected[o] /\ Pointers(list, o) /\ Standing(o) /\ Position(list, o)
        BY <1>3, <2>2 DEF Connections, Quiet
      <3>2. Pointers(list, o)' /\ Standing(o)'
        BY <1>1, <1>2, <3>1 DEF Same, Pointers, Standing
      <3>3. Position(list, o)'
        BY <1>1, <1>2, <3>1 DEF Same, Position, From, Split
      <3> QED
        BY <3>2, <3>3
    <2> QED
      BY <2>1, <2>2
  <1>7. ASSUME NEW o \in Threads, NEW e \in Threads \ {o} PROVE Stale(o, e)'
    <2>1. CASE o = t \/ e = t
      BY <2>1
    <2>2. CASE o # t /\ e # t
      <3>1. Same(o) /\ Same(e) /\ Stale(o, e)
        BY <1>3, <2>2 DEF Connections, Quiet
      <3> QED
        BY <1>1, <3>1 DEF Same, Stale
    <2> QED
      BY <2>1, <2>2
  <1> QED
    BY <1>4, <1>5, <1>6, <1>7 DEF Connections

\* From the next connection on, the list is met after the one just passed.
LEMMA Advance ==
    ASSUME NEW list \in Lists, Inv(list), NEW c \in held, NEW i \in 1..(Len(list) + 1),
           From(list, c, i)
    PROVE  \E k \in 1..(Len(list) + 1) :
              /\ From(list, next[c], k)
              /\ \A j \in 1..Len(list) : j < k <=> j < i \/ list[j] = c
  <1>0. Linked(list) /\ Len(list) \in Nat /\ c # Null
    BY ListType, Places DEF Inv, Connections
  <1>1. \A j \in 1..Len(list) : list[j] \in Listed /\ list[j] \notin Gone
    BY <1>0, ListType DEF Linked, Gone
  <1>2. CASE At(list, i) = c
    <2>1. i \in 1..Len(list) /\ c = list[i]
      BY <1>0, <1>2 DEF At
    <2>2. At(list, i + 1) = next[c] /\ i + 1 \in 1..(Len(list) + 1)
      BY <1>0, <2>1 DEF Linked
    <2>3. \A j \in 1..Len(list) : list[j] = c <=> j = i
      BY <1>0, <2>1 DEF Linked
    <2>4. \A j \in 1..Len(list) : j < i + 1 <=> j < i \/ list[j] = c
      BY <1>0, <2>1, <2>3
    <2> QED
      BY <2>2, <2>4 DEF From
  <1>3. CASE c \in Gone
    <2>1. \A j \in 1..Len(list) : list[j] # c
      BY <1>1, <1>3
    <2>2. At(list, i) # c
      BY <1>0, <2>1 DEF At
    <2>3. From(list, next[c], i)
      BY <2>2 DEF From
    <2> QED
      BY <2>1, <2>3
  <1> QED
    BY <1>2, <1>3 DEF From

\* An emission reads the version to be counted under.
LEMMA EmitKeeps ==
    ASSUME NEW list \in Lists, Inv(list), NEW t \in Threads, Emit(t)
    PROVE  Connections(list)'
  <1>0. TypeOK /\ Calls /\ Counts /\ Ending /\ Connections(list) /\ CallOK(t) /\ t # Null
    BY ThreadsAssumption DEF Inv, Calls, Threads
  <1>1. Pointers(list, t) /\ Standing(t) /\ Position(list, t) /\ ~twice /\ Emptied(list)
    BY <1>0 DEF Connections
  <1>2. \A o \in Threads \ {t} : Same(o)
    <2>1. Step(t)
      BY DEF Step, Emission, Locked
    <2> QED
      BY <1>0, <2>1, Frame
  <1>3. Quiet(t)
    BY <1>0, <1>2 DEF Emit, Goto, Quiet, sharedVars, stateVars, TypeOK
  <1>4. /\ Unlinked' = Unlinked /\ Listed' = Listed /\ Gone' = Gone /\ Clearing' = Clearing
        /\ Old' = Old /\ OldTag' = OldTag
        /\ next' = next /\ tag' = tag /\ held' = held /\ rmvd' = rmvd
    BY <1>3, QuietFrame DEF Quiet, sharedVars, stateVars
  <1>5. Pointers(list, t)'
    BY <1>0, <1>1, <1>4 DEF Emit, Goto, Pointers, Removing, TypeOK, CallOK
  <1>6. Standing(t)'
    BY <1>0, <1>1, <1>4, Places DEF Emit, Goto, Standing, TypeOK, CallOK
  <1>7. Position(list, t)'
    BY <1>0, <1>1, <1>4 DEF Emit, Goto, Position, From, Split, Removing, TypeOK, CallOK
  <1>8. ASSUME NEW e \in Threads \ {t} PROVE Stale(t, e)'
    BY <1>0, <1>2, <1>8, <1>1, <1>4 DEF Emit, Goto, Stale, Connections, Same, TypeOK, CallOK
  <1>9. ASSUME NEW e \in Threads \ {t} PROVE Stale(e, t)'
    BY <1>0, <1>2, <1>9, <1>1, <1>4, Places DEF Emit, Goto, Stale, Connections, Same, TypeOK,
       CallOK
  <1>10. Emptied(list)'
    BY <1>0, <1>2, <1>1, <1>4 DEF Emit, Goto, Emptied, Same, CallOK, TypeOK
  <1>11. ~twice'
    BY <1>0, <1>1 DEF Emit
  <1> QED
    BY <1>3, <1>5, <1>6, <1>7, <1>8, <1>9, <1>10, <1>11, QuietStep

\* The emission is counted.
LEMMA IncrKeeps ==
    ASSUME NEW list \in Lists, Inv(list), NEW t \in Threads, Incr(t)
    PROVE  Connections(list)'
  <1>0. TypeOK /\ Calls /\ Counts /\ Ending /\ Connections(list) /\ CallOK(t) /\ t # Null
    BY ThreadsAssumption DEF Inv, Calls, Threads
  <1>1. Pointers(list, t) /\ Standing(t) /\ Position(list, t) /\ ~twice /\ Emptied(list)
    BY <1>0 DEF Connections
  <1>2. \A o \in Threads \ {t} : Same(o)
    <2>1. Step(t)
      BY DEF Step, Emission, Locked
    <2> QED
      BY <1>0, <2>1, Frame
  <1>3. Quiet(t)
    BY <1>0, <1>2 DEF Incr, Goto, Quiet, sharedVars, stateVars, TypeOK
  <1>4. /\ Unlinked' = Unlinked /\ Listed' = Listed /\ Gone' = Gone /\ Clearing' = Clearing
        /\ Old' = Old /\ OldTag' = OldTag
        /\ next' = next /\ tag' = tag /\ held' = held /\ rmvd' = rmvd
    BY <1>3, QuietFrame DEF Quiet, sharedVars, stateVars
  <1>5. Pointers(list, t)'
    BY <1>0, <1>1, <1>4 DEF Incr, Goto, Pointers, Removing, TypeOK, CallOK
  <1>6. Standing(t)'
    BY <1>0, <1>1, <1>4, Places DEF Incr, Goto, Standing, TypeOK, CallOK
  <1>7. Position(list, t)'
    BY <1>0, <1>1, <1>4 DEF Incr, Goto, Position, From, Split, Removing, TypeOK, CallOK
  <1>8. ASSUME NEW e \in Threads \ {t} PROVE Stale(t, e)'
    BY <1>0, <1>2, <1>8, <1>1, <1>4 DEF Incr, Goto, Stale, Connections, Same, TypeOK, CallOK
  <1>9. ASSUME NEW e \in Threads \ {t} PROVE Stale(e, t)'
    BY <1>0, <1>2, <1>9, <1>1, <1>4 DEF Incr, Goto, Stale, Connections, Same, TypeOK, CallOK
  <1>10. Emptied(list)'
    BY <1>0, <1>2, <1>1, <1>4 DEF Incr, Goto, Emptied, Same, CallOK, TypeOK
  <1>11. ~twice'
    BY <1>0, <1>1 DEF Incr
  <1> QED
    BY <1>3, <1>5, <1>6, <1>7, <1>8, <1>9, <1>10, <1>11, QuietStep

\* An emission finds what is on the list, and has to invoke all of it.
LEMMA LoadListKeeps ==
    ASSUME NEW list \in Lists, Inv(list), NEW t \in Threads, LoadList(t)
    PROVE  Connections(list)'
  <1>0. TypeOK /\ Calls /\ Counts /\ Ending /\ Connections(list) /\ CallOK(t) /\ t # Null
    BY ThreadsAssumption DEF Inv, Calls, Threads
  <1>1. Pointers(list, t) /\ Standing(t) /\ Position(list, t) /\ ~twice /\ Emptied(list)
    BY <1>0 DEF Connections
  <1>2. \A o \in Threads \ {t} : Same(o)
    <2>1. Step(t)
      BY DEF Step, Emission, Locked
    <2> QED
      BY <1>0, <2>1, Frame
  <1>3. Quiet(t)
    BY <1>0, <1>2 DEF LoadList, Listed, Goto, Quiet, sharedVars, stateVars, TypeOK
  <1>4. /\ Unlinked' = Unlinked /\ Listed' = Listed /\ Gone' = Gone /\ Clearing' = Clearing
        /\ Old' = Old /\ OldTag' = OldTag
        /\ next' = next /\ tag' = tag /\ held' = held /\ rmvd' = rmvd
    BY <1>3, QuietFrame DEF Quiet, sharedVars, stateVars
  <1>5. Pointers(list, t)'
    BY <1>0, <1>1, <1>4 DEF LoadList, Listed, Goto, Pointers, Removing, TypeOK, CallOK
  <1>6. Standing(t)'
    BY <1>0, <1>1, <1>4, Places DEF LoadList, Listed, Goto, Standing, TypeOK, CallOK
  <1>7. Position(list, t)'
    <2>1. CASE next[ListHead] = Null
      BY <1>0, <1>1, <1>4, <2>1 DEF LoadList, Goto, Position, TypeOK, CallOK, Removing
    <2>2. CASE next[ListHead] # Null
      <3>1. ~Clearing /\ At(list, 1) = next[ListHead] /\ Len(list) \in Nat
        BY <1>0, <2>2, ListType DEF Connections, Linked
      <3>2. curr'[t] = next[ListHead] /\ pc'[t] = "visit" /\ op'[t] = "emit" /\ visited'[t] = {} /\ expected'[t] = Listed
        BY <1>0, <1>1, <2>2 DEF LoadList, Goto, TypeOK, Position, CallOK
      <3>3. From(list, curr[t], 1)' /\ Split(list, t, 1)'
        BY <3>1, <3>2 DEF From, Split, At
      <3> QED
        BY <1>4, <3>1, <3>2, <3>3 DEF Position, Removing
    <2> QED
      BY <2>1, <2>2
  <1>8. ASSUME NEW e \in Threads \ {t} PROVE Stale(t, e)'
    BY <1>0, <1>2, <1>8, <1>1, <1>4 DEF LoadList, Listed, Goto, Stale, Connections, Same,
       TypeOK, CallOK
  <1>9. ASSUME NEW e \in Threads \ {t} PROVE Stale(e, t)'
    <2>1. curr'[t] = next[ListHead] /\ Same(e)
      BY <1>0, <1>2, <1>9 DEF LoadList, TypeOK
    <2>2. pc[e] = "clearDrop" => next[ListHead] = Null
      BY <1>0, <1>9 DEF Connections, Linked, Clearing
    <2> QED
      BY <1>4, <2>1, <2>2, Places DEF Stale, Same
  <1>10. Emptied(list)'
    BY <1>0, <1>2, <1>1, <1>4 DEF LoadList, Listed, Goto, Emptied, Same, CallOK, TypeOK
  <1>11. ~twice'
    BY <1>0, <1>1 DEF LoadList
  <1> QED
    BY <1>3, <1>5, <1>6, <1>7, <1>8, <1>9, <1>10, <1>11, QuietStep

\* An emission invokes the slot it stands on, which it has not invoked before.
LEMMA InvokeKeeps ==
    ASSUME NEW list \in Lists, Inv(list), NEW t \in Threads, Invoke(t)
    PROVE  Connections(list)'
  <1>0. TypeOK /\ Calls /\ Counts /\ Ending /\ Connections(list) /\ CallOK(t) /\ t # Null
    BY ThreadsAssumption DEF Inv, Calls, Threads
  <1>1. Pointers(list, t) /\ Standing(t) /\ Position(list, t) /\ ~twice /\ Emptied(list)
    BY <1>0 DEF Connections
  <1>2. \A o \in Threads \ {t} : Same(o)
    <2>1. Step(t)
      BY DEF Step, Emission, Locked
    <2> QED
      BY <1>0, <2>1, Frame
  <1>3. Quiet(t)
    BY <1>0, <1>2 DEF Invoke, Goto, Quiet, sharedVars, stateVars, TypeOK
  <1>4. /\ Unlinked' = Unlinked /\ Listed' = Listed /\ Gone' = Gone /\ Clearing' = Clearing
        /\ Old' = Old /\ OldTag' = OldTag
        /\ next' = next /\ tag' = tag /\ held' = held /\ rmvd' = rmvd
    BY <1>3, QuietFrame DEF Quiet, sharedVars, stateVars
  <1>5. Pointers(list, t)'
    BY <1>0, <1>1, <1>4 DEF Invoke, Goto, Pointers, Removing, TypeOK, CallOK
  <1>6. Standing(t)'
    BY <1>0, <1>1, <1>4 DEF Invoke, Goto, Standing, TypeOK, CallOK
  <1>7. Position(list, t)'
    <2>1. /\ op'[t] = op[t] /\ pc[t] = "visit" /\ pc'[t] = "next" /\ curr'[t] = curr[t]
          /\ expected'[t] = expected[t] /\ visited'[t] = visited[t] \cup {curr[t]}
          /\ curr[t] \in held /\ op[t] = "emit"
      BY <1>0, <1>1 DEF Invoke, Goto, TypeOK, CallOK, Standing
    <2>2. ASSUME expected[t] # {}
          PROVE  \E i \in 1..(Len(list) + 1) : From(list, next[curr[t]], i)' /\ Split(list, t, i)'
      <3>1. PICK i \in 1..(Len(list) + 1) : From(list, curr[t], i) /\ Split(list, t, i)
        BY <1>1, <2>1, <2>2 DEF Position
      <3>2. PICK k \in 1..(Len(list) + 1) :
              /\ From(list, next[curr[t]], k)
              /\ \A j \in 1..Len(list) : j < k <=> j < i \/ list[j] = curr[t]
        BY <2>1, <3>1, Advance
      <3>3. From(list, next[curr[t]], k)'
        BY <1>4, <2>1, <3>2 DEF From
      <3>4. Split(list, t, k)'
        BY <2>1, <3>1, <3>2 DEF Split
      <3> QED
        BY <3>3, <3>4
    <2> QED
      BY <1>1, <1>4, <2>1, <2>2 DEF Position, Removing
  <1>8. ASSUME NEW e \in Threads \ {t} PROVE Stale(t, e)'
    BY <1>0, <1>2, <1>8, <1>1, <1>4 DEF Invoke, Goto, Stale, Connections, Same, TypeOK, CallOK
  <1>9. ASSUME NEW e \in Threads \ {t} PROVE Stale(e, t)'
    BY <1>0, <1>2, <1>9, <1>1, <1>4 DEF Invoke, Goto, Stale, Connections, Same, TypeOK, CallOK
  <1>10. Emptied(list)'
    BY <1>0, <1>2, <1>1, <1>4 DEF Invoke, Goto, Emptied, Same, CallOK, TypeOK
  <1>11. ~twice'
    <2> SUFFICES ASSUME curr[t] \in visited[t], curr[t] \in expected[t] PROVE FALSE
      BY <1>1 DEF Invoke
    <2>1. PICK i \in 1..(Len(list) + 1) : From(list, curr[t], i) /\ Split(list, t, i)
      BY <1>1 DEF Invoke, Position
    <2>2. curr[t] \in Listed /\ curr[t] \notin Gone /\ curr[t] # Null /\ Len(list) \in Nat
      BY <1>1, ListType DEF Invoke, Position, Gone
    <2>3. i \in 1..Len(list) /\ list[i] = curr[t]
      BY <2>1, <2>2 DEF From, At
    <2> QED
      BY <2>1, <2>2, <2>3 DEF Split
  <1> QED
    BY <1>3, <1>5, <1>6, <1>7, <1>8, <1>9, <1>10, <1>11, QuietStep

\* So does one whose slot throws, and it stands nowhere after that.
LEMMA ThrowsKeeps ==
    ASSUME NEW list \in Lists, Inv(list), NEW t \in Threads, Throws(t)
    PROVE  Connections(list)'
  <1>0. TypeOK /\ Calls /\ Counts /\ Ending /\ Connections(list) /\ CallOK(t) /\ t # Null
    BY ThreadsAssumption DEF Inv, Calls, Threads
  <1>1. Pointers(list, t) /\ Standing(t) /\ Position(list, t) /\ ~twice /\ Emptied(list)
    BY <1>0 DEF Connections
  <1>2. \A o \in Threads \ {t} : Same(o)
    <2>1. Step(t)
      BY DEF Step, Emission, Locked
    <2> QED
      BY <1>0, <2>1, Frame
  <1>3. Quiet(t)
    BY <1>0, <1>2 DEF Throws, Goto, Quiet, sharedVars, stateVars, TypeOK
  <1>4. /\ Unlinked' = Unlinked /\ Listed' = Listed /\ Gone' = Gone /\ Clearing' = Clearing
        /\ Old' = Old /\ OldTag' = OldTag
        /\ next' = next /\ tag' = tag /\ held' = held /\ rmvd' = rmvd
    BY <1>3, QuietFrame DEF Quiet, sharedVars, stateVars
  <1>5. Pointers(list, t)'
    BY <1>0, <1>1, <1>4 DEF Throws, Goto, Pointers, Removing, TypeOK, CallOK
  <1>6. Standing(t)'
    BY <1>0, <1>1, <1>4, NodesAssumption DEF Throws, Goto, Standing, TypeOK, CallOK
  <1>7. Position(list, t)'
    BY <1>0, <1>1, <1>4 DEF Throws, Goto, Position, Removing, TypeOK, CallOK
  <1>8. ASSUME NEW e \in Threads \ {t} PROVE Stale(t, e)'
    BY <1>0, <1>2, <1>8, <1>1, <1>4 DEF Throws, Goto, Stale, Connections, Same, TypeOK, CallOK
  <1>9. ASSUME NEW e \in Threads \ {t} PROVE Stale(e, t)'
    BY <1>0, <1>2, <1>9, <1>1, <1>4 DEF Throws, Goto, Stale, Connections, Same, TypeOK, CallOK
  <1>10. Emptied(list)'
    BY <1>0, <1>2, <1>1, <1>4 DEF Throws, Goto, Emptied, Same, CallOK, TypeOK
  <1>11. ~twice'
    <2> SUFFICES ASSUME curr[t] \in visited[t], curr[t] \in expected[t] PROVE FALSE
      BY <1>1 DEF Throws
    <2>1. PICK i \in 1..(Len(list) + 1) : From(list, curr[t], i) /\ Split(list, t, i)
      BY <1>1 DEF Throws, Position
    <2>2. curr[t] \in Listed /\ curr[t] \notin Gone /\ curr[t] # Null /\ Len(list) \in Nat
      BY <1>1, ListType DEF Throws, Position, Gone
    <2>3. i \in 1..Len(list) /\ list[i] = curr[t]
      BY <2>1, <2>2 DEF From, At
    <2> QED
      BY <2>1, <2>2, <2>3 DEF Split
  <1> QED
    BY <1>3, <1>5, <1>6, <1>7, <1>8, <1>9, <1>10, <1>11, QuietStep

\* From where an emission stands, it goes on to the list or to what is being removed.
LEMMA LoadNextKeeps ==
    ASSUME NEW list \in Lists, Inv(list), NEW t \in Threads, LoadNext(t)
    PROVE  Connections(list)'
  <1>0. TypeOK /\ Calls /\ Counts /\ Ending /\ Connections(list) /\ CallOK(t) /\ t # Null
    BY ThreadsAssumption DEF Inv, Calls, Threads
  <1>1. Pointers(list, t) /\ Standing(t) /\ Position(list, t) /\ ~twice /\ Emptied(list)
    BY <1>0 DEF Connections
  <1>2. \A o \in Threads \ {t} : Same(o)
    <2>1. Step(t)
      BY DEF Step, Emission, Locked
    <2> QED
      BY <1>0, <2>1, Frame
  <1>3. Quiet(t)
    BY <1>0, <1>2 DEF LoadNext, Goto, Quiet, sharedVars, stateVars, TypeOK
  <1>4. /\ Unlinked' = Unlinked /\ Listed' = Listed /\ Gone' = Gone /\ Clearing' = Clearing
        /\ Old' = Old /\ OldTag' = OldTag
        /\ next' = next /\ tag' = tag /\ held' = held /\ rmvd' = rmvd
    BY <1>3, QuietFrame DEF Quiet, sharedVars, stateVars
  <1>5. Pointers(list, t)'
    BY <1>0, <1>1, <1>4 DEF LoadNext, Goto, Pointers, Removing, TypeOK, CallOK
  <1>6. Standing(t)'
    <2>1. curr[t] \in held /\ curr'[t] = next[curr[t]] /\ op[t] = "emit"
      BY <1>0, <1>1, NodesAssumption DEF LoadNext, TypeOK, CallOK, Standing
    <2>2. next[curr[t]] \in (held \cup {Null}) \ rmvd
      BY <2>1, Places
    <2> QED
      BY <1>4, <2>1, <2>2 DEF Standing
  <1>7. Position(list, t)'
    BY <1>0, <1>1, <1>4 DEF LoadNext, Goto, Position, From, Split, Removing, TypeOK, CallOK
  <1>8. ASSUME NEW e \in Threads \ {t} PROVE Stale(t, e)'
    BY <1>0, <1>2, <1>8, <1>1, <1>4 DEF LoadNext, Goto, Stale, Connections, Same, TypeOK, CallOK
  <1>9. ASSUME NEW e \in Threads \ {t} PROVE Stale(e, t)'
    <2>1. curr[t] \in held /\ curr'[t] = next[curr[t]] /\ op[t] = "emit" /\ Same(e) /\ Stale(e, t)
      BY <1>0, <1>1, <1>2, <1>9, NodesAssumption DEF LoadNext, TypeOK, CallOK, Standing,
         Connections
    <2>2. op'[t] = op[t] /\ unit'[t] = unit[t] /\ curr[t] # Null
      BY <2>1, Places DEF LoadNext
    <2> QED
      BY <1>4, <2>1, <2>2, Places DEF Stale, Same
  <1>10. Emptied(list)'
    BY <1>0, <1>2, <1>1, <1>4 DEF LoadNext, Goto, Emptied, Same, CallOK, TypeOK
  <1>11. ~twice'
    BY <1>0, <1>1 DEF LoadNext
  <1> QED
    BY <1>3, <1>5, <1>6, <1>7, <1>8, <1>9, <1>10, <1>11, QuietStep

\* At the end of the list an emission has invoked what it had to.
LEMMA EndOfListKeeps ==
    ASSUME NEW list \in Lists, Inv(list), NEW t \in Threads, EndOfList(t)
    PROVE  Connections(list)'
  <1>0. TypeOK /\ Calls /\ Counts /\ Ending /\ Connections(list) /\ CallOK(t) /\ t # Null
    BY ThreadsAssumption DEF Inv, Calls, Threads
  <1>1. Pointers(list, t) /\ Standing(t) /\ Position(list, t) /\ ~twice /\ Emptied(list)
    BY <1>0 DEF Connections
  <1>2. \A o \in Threads \ {t} : Same(o)
    <2>1. Step(t)
      BY DEF Step, Emission, Locked
    <2> QED
      BY <1>0, <2>1, Frame
  <1>3. Quiet(t)
    BY <1>0, <1>2 DEF EndOfList, Goto, Quiet, sharedVars, stateVars, TypeOK
  <1>4. /\ Unlinked' = Unlinked /\ Listed' = Listed /\ Gone' = Gone /\ Clearing' = Clearing
        /\ Old' = Old /\ OldTag' = OldTag
        /\ next' = next /\ tag' = tag /\ held' = held /\ rmvd' = rmvd
    BY <1>3, QuietFrame DEF Quiet, sharedVars, stateVars
  <1>5. Pointers(list, t)'
    BY <1>0, <1>1, <1>4 DEF EndOfList, Goto, Pointers, Removing, TypeOK, CallOK
  <1>6. Standing(t)'
    BY <1>0, <1>1, <1>4 DEF EndOfList, Goto, Standing, TypeOK, CallOK
  <1>7. Position(list, t)'
    <2>1. /\ op'[t] = op[t] /\ pc[t] = "visit" /\ pc'[t] \in {"try", "decr"} /\ curr[t] = Null
          /\ expected'[t] = expected[t] /\ visited'[t] = visited[t] /\ op[t] = "emit"
      BY <1>0, <1>1 DEF EndOfList, Goto, TypeOK, CallOK
    <2>2. ASSUME expected[t] # {}
          PROVE  expected[t] \subseteq visited[t]
      <3>1. PICK i \in 1..(Len(list) + 1) : From(list, Null, i) /\ Split(list, t, i)
        BY <1>1, <2>1, <2>2 DEF Position
      <3>2. At(list, i) = Null /\ Len(list) \in Nat
        BY <3>1, Places, ListType DEF From, Gone
      <3>3. \A j \in 1..Len(list) : j < i
        BY <3>2, ListType, NodesAssumption DEF At
      <3>4. \A n \in expected[t] : \E j \in 1..Len(list) : n = list[j]
        BY <1>0, <1>1, ListType DEF Position, Connections, Linked
      <3> QED
        BY <3>1, <3>3, <3>4 DEF Split
    <2> QED
      BY <1>1, <1>4, <2>1, <2>2 DEF Position, Removing
  <1>8. ASSUME NEW e \in Threads \ {t} PROVE Stale(t, e)'
    BY <1>0, <1>2, <1>8, <1>1, <1>4 DEF EndOfList, Goto, Stale, Connections, Same, TypeOK,
       CallOK
  <1>9. ASSUME NEW e \in Threads \ {t} PROVE Stale(e, t)'
    BY <1>0, <1>2, <1>9, <1>1, <1>4 DEF EndOfList, Goto, Stale, Connections, Same, TypeOK,
       CallOK
  <1>10. Emptied(list)'
    BY <1>0, <1>2, <1>1, <1>4 DEF EndOfList, Goto, Emptied, Same, CallOK, TypeOK
  <1>11. ~twice'
    BY <1>0, <1>1 DEF EndOfList
  <1> QED
    BY <1>3, <1>5, <1>6, <1>7, <1>8, <1>9, <1>10, <1>11, QuietStep

\* An emission takes the mutex for cleanup(), or ends.
LEMMA TryCleanupKeeps ==
    ASSUME NEW list \in Lists, Inv(list), NEW t \in Threads, TryCleanup(t)
    PROVE  Connections(list)'
  <1>0. TypeOK /\ Calls /\ Counts /\ Ending /\ Connections(list) /\ CallOK(t) /\ t # Null
    BY ThreadsAssumption DEF Inv, Calls, Threads
  <1>1. Pointers(list, t) /\ Standing(t) /\ Position(list, t) /\ ~twice /\ Emptied(list)
    BY <1>0 DEF Connections
  <1>2. \A o \in Threads \ {t} : Same(o)
    <2>1. Step(t)
      BY DEF Step, Emission, Locked
    <2> QED
      BY <1>0, <2>1, Frame
  <1>3. Quiet(t)
    BY <1>0, <1>2 DEF TryCleanup, Goto, Quiet, sharedVars, stateVars, TypeOK
  <1>4. /\ Unlinked' = Unlinked /\ Listed' = Listed /\ Gone' = Gone /\ Clearing' = Clearing
        /\ Old' = Old /\ OldTag' = OldTag
        /\ next' = next /\ tag' = tag /\ held' = held /\ rmvd' = rmvd
    BY <1>3, QuietFrame DEF Quiet, sharedVars, stateVars
  <1>5. Pointers(list, t)'
    BY <1>0, <1>1, <1>4 DEF TryCleanup, Goto, Pointers, Removing, TypeOK, CallOK
  <1>6. Standing(t)'
    BY <1>0, <1>1, <1>4 DEF TryCleanup, Goto, Standing, TypeOK, CallOK
  <1>7. Position(list, t)'
    BY <1>0, <1>1, <1>4 DEF TryCleanup, Goto, Position, From, Split, Removing, TypeOK, CallOK
  <1>8. ASSUME NEW e \in Threads \ {t} PROVE Stale(t, e)'
    BY <1>0, <1>2, <1>8, <1>1, <1>4 DEF TryCleanup, Goto, Stale, Connections, Same, TypeOK,
       CallOK
  <1>9. ASSUME NEW e \in Threads \ {t} PROVE Stale(e, t)'
    BY <1>0, <1>2, <1>9, <1>1, <1>4 DEF TryCleanup, Goto, Stale, Connections, Same, TypeOK,
       CallOK
  <1>10. Emptied(list)'
    BY <1>0, <1>2, <1>1, <1>4 DEF TryCleanup, Goto, Emptied, Same, CallOK, TypeOK
  <1>11. ~twice'
    BY <1>0, <1>1 DEF TryCleanup
  <1> QED
    BY <1>3, <1>5, <1>6, <1>7, <1>8, <1>9, <1>10, <1>11, QuietStep

\* The loop of connect and disconnect stays on the list.
LEMMA ScanKeeps ==
    ASSUME NEW list \in Lists, Inv(list), NEW t \in Threads, Scan(t)
    PROVE  Connections(list)'
  <1>0. TypeOK /\ Calls /\ Counts /\ Ending /\ Connections(list) /\ CallOK(t) /\ t # Null
    BY ThreadsAssumption DEF Inv, Calls, Threads
  <1>1. Pointers(list, t) /\ Standing(t) /\ Position(list, t) /\ ~twice /\ Emptied(list)
    BY <1>0 DEF Connections
  <1>2. \A o \in Threads \ {t} : Same(o)
    <2>1. Step(t)
      BY DEF Step, Emission, Locked
    <2> QED
      BY <1>0, <2>1, Frame
  <1>3. Quiet(t)
    BY <1>0, <1>2 DEF Scan, Goto, Quiet, sharedVars, stateVars, TypeOK
  <1>4. /\ Unlinked' = Unlinked /\ Listed' = Listed /\ Gone' = Gone /\ Clearing' = Clearing
        /\ Old' = Old /\ OldTag' = OldTag
        /\ next' = next /\ tag' = tag /\ held' = held /\ rmvd' = rmvd
    BY <1>3, QuietFrame DEF Quiet, sharedVars, stateVars
  <1>5. Pointers(list, t)'
    <2>1. curr[t] \in Listed /\ curr'[t] = next[curr[t]] /\ pc[t] = "scan"
      BY <1>0, <1>1 DEF Scan, Pointers, TypeOK
    <2>2. CASE pc'[t] = "scan"
      BY <1>4, <2>1, <2>2, Places DEF Pointers, Removing
    <2>3. CASE pc'[t] # "scan"
      <3>1. pc'[t] = "unlink" /\ tmp'[t] = curr[t]
        BY <1>0, <2>1, <2>3 DEF Scan, Goto, TypeOK
      <3> QED
        BY <1>4, <2>1, <3>1, Places DEF Pointers, Removing
    <2> QED
      BY <2>2, <2>3
  <1>6. Standing(t)'
    BY <1>0, <1>1, <1>4 DEF Scan, Goto, Standing, TypeOK, CallOK
  <1>7. Position(list, t)'
    BY <1>0, <1>1, <1>4 DEF Scan, Goto, Position, From, Split, Removing, TypeOK, CallOK
  <1>8. ASSUME NEW e \in Threads \ {t} PROVE Stale(t, e)'
    BY <1>0, <1>2, <1>8, <1>1, <1>4 DEF Scan, Goto, Stale, Connections, Same, TypeOK, CallOK
  <1>9. ASSUME NEW e \in Threads \ {t} PROVE Stale(e, t)'
    BY <1>0, <1>2, <1>9, <1>1, <1>4 DEF Scan, Goto, Stale, Connections, Same, TypeOK, CallOK
  <1>10. Emptied(list)'
    BY <1>0, <1>2, <1>1, <1>4 DEF Scan, Goto, Emptied, Same, CallOK, TypeOK
  <1>11. ~twice'
    BY <1>0, <1>1 DEF Scan
  <1> QED
    BY <1>3, <1>5, <1>6, <1>7, <1>8, <1>9, <1>10, <1>11, QuietStep

\* The loop of disconnect ends.
LEMMA ScanEndsKeeps ==
    ASSUME NEW list \in Lists, Inv(list), NEW t \in Threads, ScanEnds(t), op[t] # "connect"
    PROVE  Connections(list)'
  <1>0. TypeOK /\ Calls /\ Counts /\ Ending /\ Connections(list) /\ CallOK(t) /\ t # Null
    BY ThreadsAssumption DEF Inv, Calls, Threads
  <1>1. Pointers(list, t) /\ Standing(t) /\ Position(list, t) /\ ~twice /\ Emptied(list)
    BY <1>0 DEF Connections
  <1>2. \A o \in Threads \ {t} : Same(o)
    <2>1. Step(t)
      BY DEF Step, Emission, Locked
    <2> QED
      BY <1>0, <2>1, Frame
  <1>3. Quiet(t)
    BY <1>0, <1>2 DEF ScanEnds, Goto, Quiet, sharedVars, stateVars, TypeOK
  <1>4. /\ Unlinked' = Unlinked /\ Listed' = Listed /\ Gone' = Gone /\ Clearing' = Clearing
        /\ Old' = Old /\ OldTag' = OldTag
        /\ next' = next /\ tag' = tag /\ held' = held /\ rmvd' = rmvd
    BY <1>3, QuietFrame DEF Quiet, sharedVars, stateVars
  <1>5. Pointers(list, t)'
    BY <1>0, <1>1, <1>4 DEF ScanEnds, Goto, Pointers, Removing, TypeOK, CallOK
  <1>6. Standing(t)'
    BY <1>0, <1>1, <1>4 DEF ScanEnds, Goto, Standing, TypeOK, CallOK
  <1>7. Position(list, t)'
    BY <1>0, <1>1, <1>4 DEF ScanEnds, Goto, Position, From, Split, Removing, TypeOK, CallOK
  <1>8. ASSUME NEW e \in Threads \ {t} PROVE Stale(t, e)'
    BY <1>0, <1>2, <1>8, <1>1, <1>4 DEF ScanEnds, Goto, Stale, Connections, Same, TypeOK, CallOK
  <1>9. ASSUME NEW e \in Threads \ {t} PROVE Stale(e, t)'
    BY <1>0, <1>2, <1>9, <1>1, <1>4 DEF ScanEnds, Goto, Stale, Connections, Same, TypeOK, CallOK
  <1>10. Emptied(list)'
    BY <1>0, <1>2, <1>1, <1>4 DEF ScanEnds, Goto, Emptied, Same, CallOK, TypeOK
  <1>11. ~twice'
    BY <1>0, <1>1 DEF ScanEnds
  <1> QED
    BY <1>3, <1>5, <1>6, <1>7, <1>8, <1>9, <1>10, <1>11, QuietStep

\* A counter read as zero counts only emissions that have not found the list yet.
LEMMA CountKeeps ==
    ASSUME NEW list \in Lists, Inv(list), NEW t \in Threads, Count(t)
    PROVE  Connections(list)'
  <1>0. TypeOK /\ Calls /\ Counts /\ Ending /\ Connections(list) /\ CallOK(t) /\ t # Null
    BY ThreadsAssumption DEF Inv, Calls, Threads
  <1>1. Pointers(list, t) /\ Standing(t) /\ Position(list, t) /\ ~twice /\ Emptied(list)
    BY <1>0 DEF Connections
  <1>2. \A o \in Threads \ {t} : Same(o)
    <2>1. Step(t)
      BY DEF Step, Emission, Locked
    <2> QED
      BY <1>0, <2>1, Frame
  <1>3. Quiet(t)
    BY <1>0, <1>2 DEF Count, Goto, Quiet, sharedVars, stateVars, TypeOK
  <1>4. /\ Unlinked' = Unlinked /\ Listed' = Listed /\ Gone' = Gone /\ Clearing' = Clearing
        /\ Old' = Old /\ OldTag' = OldTag
        /\ next' = next /\ tag' = tag /\ held' = held /\ rmvd' = rmvd
    BY <1>3, QuietFrame DEF Quiet, sharedVars, stateVars
  <1>5. Pointers(list, t)'
    BY <1>0, <1>1, <1>4 DEF Count, Goto, Pointers, Removing, TypeOK, CallOK
  <1>6. Standing(t)'
    BY <1>0, <1>1, <1>4 DEF Count, Goto, Standing, TypeOK, CallOK
  <1>7. Position(list, t)'
    BY <1>0, <1>1, <1>4 DEF Count, Goto, Position, From, Split, Removing, TypeOK, CallOK
  <1>8. ASSUME NEW e \in Threads \ {t} PROVE Stale(t, e)'
    <2>1. CASE op'[e] = "emit" /\ seen'[t][unit'[e]] = 0
      <3>1. Same(e) /\ CallOK(e) /\ seen'[t] = Others(t) /\ pc[t] # "incr"
        BY <1>0, <1>2, <1>8 DEF Count, Calls, CallOK, TypeOK
      <3>2. pc[e] = "incr"
        BY <1>0, <1>8, <2>1, <3>1, OthersSee DEF Same
      <3> QED
        BY <3>1, <3>2 DEF Stale, Same, CallOK
    <2>2. CASE ~(op'[e] = "emit" /\ seen'[t][unit'[e]] = 0)
      BY <2>2 DEF Stale
    <2> QED
      BY <2>1, <2>2
  <1>9. ASSUME NEW e \in Threads \ {t} PROVE Stale(e, t)'
    BY <1>0, <1>2, <1>9, <1>1, <1>4 DEF Count, Goto, Stale, Connections, Same, TypeOK, CallOK
  <1>10. Emptied(list)'
    BY <1>0, <1>2, <1>1, <1>4 DEF Count, Goto, Emptied, Same, CallOK, TypeOK
  <1>11. ~twice'
    BY <1>0, <1>1 DEF Count
  <1> QED
    BY <1>3, <1>5, <1>6, <1>7, <1>8, <1>9, <1>10, <1>11, QuietStep

\* The same when the list was taken away.
LEMMA ClearCountKeeps ==
    ASSUME NEW list \in Lists, Inv(list), NEW t \in Threads, ClearCount(t)
    PROVE  Connections(list)'
  <1>0. TypeOK /\ Calls /\ Counts /\ Ending /\ Connections(list) /\ CallOK(t) /\ t # Null
    BY ThreadsAssumption DEF Inv, Calls, Threads
  <1>1. Pointers(list, t) /\ Standing(t) /\ Position(list, t) /\ ~twice /\ Emptied(list)
    BY <1>0 DEF Connections
  <1>2. \A o \in Threads \ {t} : Same(o)
    <2>1. Step(t)
      BY DEF Step, Emission, Locked
    <2> QED
      BY <1>0, <2>1, Frame
  <1>3. Quiet(t)
    BY <1>0, <1>2 DEF ClearCount, Goto, Quiet, sharedVars, stateVars, TypeOK
  <1>4. /\ Unlinked' = Unlinked /\ Listed' = Listed /\ Gone' = Gone /\ Clearing' = Clearing
        /\ Old' = Old /\ OldTag' = OldTag
        /\ next' = next /\ tag' = tag /\ held' = held /\ rmvd' = rmvd
    BY <1>3, QuietFrame DEF Quiet, sharedVars, stateVars
  <1>5. Pointers(list, t)'
    BY <1>0, <1>1, <1>4 DEF ClearCount, Goto, Pointers, Removing, TypeOK, CallOK
  <1>6. Standing(t)'
    BY <1>0, <1>1, <1>4 DEF ClearCount, Goto, Standing, TypeOK, CallOK
  <1>7. Position(list, t)'
    BY <1>0, <1>1, <1>4 DEF ClearCount, Goto, Position, From, Split, Removing, TypeOK, CallOK
  <1>8. ASSUME NEW e \in Threads \ {t} PROVE Stale(t, e)'
    <2>1. CASE op'[e] = "emit" /\ seen'[t][unit'[e]] = 0
      <3>1. Same(e) /\ CallOK(e) /\ seen'[t] = Others(t) /\ pc[t] # "incr"
        BY <1>0, <1>2, <1>8 DEF ClearCount, Calls, CallOK, TypeOK, Others
      <3>2. pc[e] = "incr"
        BY <1>0, <1>8, <2>1, <3>1, OthersSee DEF Same
      <3> QED
        BY <3>1, <3>2 DEF Stale, Same, CallOK
    <2>2. CASE ~(op'[e] = "emit" /\ seen'[t][unit'[e]] = 0)
      BY <2>2 DEF Stale
    <2> QED
      BY <2>1, <2>2
  <1>9. ASSUME NEW e \in Threads \ {t} PROVE Stale(e, t)'
    BY <1>0, <1>2, <1>9, <1>1, <1>4 DEF ClearCount, Goto, Stale, Connections, Same, TypeOK,
       CallOK
  <1>10. Emptied(list)'
    BY <1>0, <1>2, <1>1, <1>4 DEF ClearCount, Goto, Emptied, Same, CallOK, TypeOK
  <1>11. ~twice'
    BY <1>0, <1>1 DEF ClearCount
  <1> QED
    BY <1>3, <1>5, <1>6, <1>7, <1>8, <1>9, <1>10, <1>11, QuietStep

\* The same in cleanup().
LEMMA CleanupLoadKeeps ==
    ASSUME NEW list \in Lists, Inv(list), NEW t \in Threads, CleanupLoad(t)
    PROVE  Connections(list)'
  <1>0. TypeOK /\ Calls /\ Counts /\ Ending /\ Connections(list) /\ CallOK(t) /\ t # Null
    BY ThreadsAssumption DEF Inv, Calls, Threads
  <1>1. Pointers(list, t) /\ Standing(t) /\ Position(list, t) /\ ~twice /\ Emptied(list)
    BY <1>0 DEF Connections
  <1>2. \A o \in Threads \ {t} : Same(o)
    <2>1. Step(t)
      BY DEF Step, Emission, Locked
    <2> QED
      BY <1>0, <2>1, Frame
  <1>3. Quiet(t)
    BY <1>0, <1>2 DEF CleanupLoad, Goto, Quiet, sharedVars, stateVars, TypeOK
  <1>4. /\ Unlinked' = Unlinked /\ Listed' = Listed /\ Gone' = Gone /\ Clearing' = Clearing
        /\ Old' = Old /\ OldTag' = OldTag
        /\ next' = next /\ tag' = tag /\ held' = held /\ rmvd' = rmvd
    BY <1>3, QuietFrame DEF Quiet, sharedVars, stateVars
  <1>5. Pointers(list, t)'
    BY <1>0, <1>1, <1>4 DEF CleanupLoad, Goto, Pointers, Removing, TypeOK, CallOK
  <1>6. Standing(t)'
    BY <1>0, <1>1, <1>4 DEF CleanupLoad, Goto, Standing, TypeOK, CallOK
  <1>7. Position(list, t)'
    BY <1>0, <1>1, <1>4 DEF CleanupLoad, Goto, Position, From, Split, Removing, TypeOK, CallOK
  <1>8. ASSUME NEW e \in Threads \ {t} PROVE Stale(t, e)'
    <2>1. CASE op'[e] = "emit" /\ seen'[t][unit'[e]] = 0
      <3>1. Same(e) /\ CallOK(e) /\ seen'[t] = Others(t) /\ pc[t] # "incr"
        BY <1>0, <1>2, <1>8 DEF CleanupLoad, Calls, CallOK, TypeOK
      <3>2. pc[e] = "incr"
        BY <1>0, <1>8, <2>1, <3>1, OthersSee DEF Same
      <3> QED
        BY <3>1, <3>2 DEF Stale, Same, CallOK
    <2>2. CASE ~(op'[e] = "emit" /\ seen'[t][unit'[e]] = 0)
      BY <2>2 DEF Stale
    <2> QED
      BY <2>1, <2>2
  <1>9. ASSUME NEW e \in Threads \ {t} PROVE Stale(e, t)'
    BY <1>0, <1>2, <1>9, <1>1, <1>4 DEF CleanupLoad, Goto, Stale, Connections, Same, TypeOK,
       CallOK
  <1>10. Emptied(list)'
    BY <1>0, <1>2, <1>1, <1>4 DEF CleanupLoad, Goto, Emptied, Same, CallOK, TypeOK
  <1>11. ~twice'
    BY <1>0, <1>1 DEF CleanupLoad
  <1> QED
    BY <1>3, <1>5, <1>6, <1>7, <1>8, <1>9, <1>10, <1>11, QuietStep

\* The mutex is let go of.
LEMMA UnlockKeeps ==
    ASSUME NEW list \in Lists, Inv(list), NEW t \in Threads, Unlock(t)
    PROVE  Connections(list)'
  <1>0. TypeOK /\ Calls /\ Counts /\ Ending /\ Connections(list) /\ CallOK(t) /\ t # Null
    BY ThreadsAssumption DEF Inv, Calls, Threads
  <1>1. Pointers(list, t) /\ Standing(t) /\ Position(list, t) /\ ~twice /\ Emptied(list)
    BY <1>0 DEF Connections
  <1>2. \A o \in Threads \ {t} : Same(o)
    <2>1. Step(t)
      BY DEF Step, Emission, Locked
    <2> QED
      BY <1>0, <2>1, Frame
  <1>3. Quiet(t)
    BY <1>0, <1>2 DEF Unlock, Rests, Goto, Quiet, sharedVars, stateVars, TypeOK
  <1>4. /\ Unlinked' = Unlinked /\ Listed' = Listed /\ Gone' = Gone /\ Clearing' = Clearing
        /\ Old' = Old /\ OldTag' = OldTag
        /\ next' = next /\ tag' = tag /\ held' = held /\ rmvd' = rmvd
    BY <1>3, QuietFrame DEF Quiet, sharedVars, stateVars
  <1>5. Pointers(list, t)'
    BY <1>0, <1>1, <1>4 DEF Unlock, Rests, Goto, Pointers, Removing, TypeOK, CallOK
  <1>6. Standing(t)'
    BY <1>0, <1>1, <1>4 DEF Unlock, Rests, Goto, Standing, TypeOK, CallOK
  <1>7. Position(list, t)'
    <2>1. CASE op[t] = "emit"
      <3>1. /\ op'[t] = "emit" /\ expected'[t] = expected[t]
            /\ visited'[t] = visited[t] /\ curr'[t] = curr[t]
            /\ (pc[t] = "release" /\ pc'[t] = "visit") \/ (pc[t] = "unlock" /\ pc'[t] = "decr")
        BY <1>0, <2>1 DEF Unlock, Goto, TypeOK
      <3>2. CASE pc[t] = "release"
        BY <1>1, <1>4, <2>1, <3>1, <3>2 DEF Position, Removing, From, Split
      <3>3. CASE pc[t] = "unlock"
        BY <1>1, <1>4, <2>1, <3>1, <3>3 DEF Position, Removing
      <3> QED
        BY <3>1, <3>2, <3>3
    <2>2. CASE op[t] # "emit"
      <3>1. /\ op'[t] # "emit" /\ expected'[t] = expected[t] /\ pc'[t] \in {"idle", "free"}
            /\ pc'[t] = "idle" => visited'[t] = {}
        BY <1>0, <2>2 DEF Unlock, Rests, Goto, TypeOK
      <3> QED
        BY <1>1, <1>4, <2>2, <3>1 DEF Position, Removing
    <2> QED
      BY <2>1, <2>2
  <1>8. ASSUME NEW e \in Threads \ {t} PROVE Stale(t, e)'
    BY <1>0, <1>2, <1>8, <1>1, <1>4 DEF Unlock, Rests, Goto, Stale, Connections, Same, TypeOK,
       CallOK
  <1>9. ASSUME NEW e \in Threads \ {t} PROVE Stale(e, t)'
    BY <1>0, <1>2, <1>9, <1>1, <1>4 DEF Unlock, Rests, Goto, Stale, Connections, Same, TypeOK,
       CallOK
  <1>10. Emptied(list)'
    BY <1>0, <1>2, <1>1, <1>4 DEF Unlock, Rests, Goto, Emptied, Same, CallOK, TypeOK
  <1>11. ~twice'
    BY <1>0, <1>1 DEF Unlock
  <1> QED
    BY <1>3, <1>5, <1>6, <1>7, <1>8, <1>9, <1>10, <1>11, QuietStep

\* A call of a worker takes the mutex, and finds the list whole.
LEMMA CallKeeps ==
    ASSUME NEW list \in Lists, Inv(list), NEW t \in Threads,
           NEW c \in {"connect", "disconnect", "clear", "free"},
           NEW n \in Nodes \cup {Null}, Call(t, c, n)
    PROVE  Connections(list)'
  <1>0. TypeOK /\ Calls /\ Counts /\ Ending /\ Connections(list) /\ CallOK(t) /\ t # Null
    BY ThreadsAssumption DEF Inv, Calls, Threads
  <1>1. Pointers(list, t) /\ Standing(t) /\ Position(list, t) /\ ~twice /\ Emptied(list)
    BY <1>0 DEF Connections
  <1>2. \A o \in Threads \ {t} : Same(o)
    <2>1. Step(t)
      BY DEF Step, Emission, Locked
    <2> QED
      BY <1>0, <2>1, Frame
  <1>3. Quiet(t)
    BY <1>0, <1>2 DEF Call, MayFree, Goto, Quiet, sharedVars, stateVars, TypeOK
  <1>4. /\ Unlinked' = Unlinked /\ Listed' = Listed /\ Gone' = Gone /\ Clearing' = Clearing
        /\ Old' = Old /\ OldTag' = OldTag
        /\ next' = next /\ tag' = tag /\ held' = held /\ rmvd' = rmvd
    BY <1>3, QuietFrame DEF Quiet, sharedVars, stateVars
  <1>5. Pointers(list, t)'
    <2>1. ~Clearing /\ curr'[t] = next[ListHead] /\ pc'[t] \in {"scan", "clear"}
      BY <1>0, Unlocked DEF Call, Goto, TypeOK
    <2>2. next[ListHead] = At(list, 1)
      BY <1>0, <2>1 DEF Connections, Linked
    <2> QED
      BY <1>4, <2>1, <2>2, Places DEF Pointers, Removing
  <1>6. Standing(t)'
    BY <1>0, <1>1, <1>4 DEF Call, MayFree, Goto, Standing, TypeOK, CallOK
  <1>7. Position(list, t)'
    BY <1>0, <1>1, <1>4 DEF Call, MayFree, Goto, Position, From, Split, Removing, TypeOK, CallOK
  <1>8. ASSUME NEW e \in Threads \ {t} PROVE Stale(t, e)'
    BY <1>0, <1>2, <1>8, <1>1, <1>4 DEF Call, MayFree, Goto, Stale, Connections, Same, TypeOK,
       CallOK
  <1>9. ASSUME NEW e \in Threads \ {t} PROVE Stale(e, t)'
    BY <1>0, <1>2, <1>9, <1>1, <1>4 DEF Call, MayFree, Goto, Stale, Connections, Same, TypeOK,
       CallOK
  <1>10. Emptied(list)'
    BY <1>0, <1>2, <1>1, <1>4 DEF Call, MayFree, Goto, Emptied, Same, CallOK, TypeOK
  <1>11. ~twice'
    BY <1>0, <1>1 DEF Call
  <1> QED
    BY <1>3, <1>5, <1>6, <1>7, <1>8, <1>9, <1>10, <1>11, QuietStep

\* An emission passes a connection whose context is gone, and removes it if it can.
LEMMA DiscardKeeps ==
    ASSUME NEW list \in Lists, Inv(list), NEW t \in Threads, Discard(t)
    PROVE  Connections(list)'
  <1>0. TypeOK /\ Calls /\ Counts /\ Ending /\ Connections(list) /\ CallOK(t) /\ t # Null
    BY ThreadsAssumption DEF Inv, Calls, Threads
  <1>1. Pointers(list, t) /\ Standing(t) /\ Position(list, t) /\ ~twice /\ Emptied(list)
    BY <1>0 DEF Connections
  <1>2. \A o \in Threads \ {t} : Same(o)
    <2>1. Step(t)
      BY DEF Step, Emission, Locked
    <2> QED
      BY <1>0, <2>1, Frame
  <1>3. Quiet(t)
    BY <1>0, <1>2 DEF Discard, Goto, Quiet, sharedVars, stateVars, TypeOK
  <1>4. /\ Unlinked' = Unlinked /\ Listed' = Listed /\ Gone' = Gone /\ Clearing' = Clearing
        /\ Old' = Old /\ OldTag' = OldTag
        /\ next' = next /\ tag' = tag /\ held' = held /\ rmvd' = rmvd
    BY <1>3, QuietFrame DEF Quiet, sharedVars, stateVars
  <1>a. /\ op[t] = "emit" /\ op'[t] = "emit" /\ curr[t] \in held /\ pc[t] = "visit"
        /\ visited'[t] = visited[t]
        /\ expected'[t] = expected[t] \ {curr[t]} /\ unit'[t] = unit[t]
        /\ next[curr[t]] \in (held \cup {Null}) \ rmvd
    BY <1>0, <1>1, Places DEF Discard, TypeOK, CallOK, Standing
  <1>b. ASSUME mutex = Null
        PROVE  /\ \A o \in Threads : pc[o] \notin Holding
               /\ curr'[t] = next[curr[t]]
               /\ \/ pc'[t] = "unlink" /\ tmp'[t] = curr[t] /\ curr[t] \in held \ rmvd
                  \/ pc'[t] = "release"
    BY <1>0, <1>a, <1>b, Unlocked DEF Discard, Goto, TypeOK, Connections, Store
  <1>c. ASSUME mutex # Null
        PROVE  pc'[t] = "next" /\ curr'[t] = curr[t]
    BY <1>0, <1>c DEF Discard, Goto, TypeOK
  <1>5. Pointers(list, t)'
    BY <1>4, <1>b, <1>c DEF Pointers, Removing
  <1>6. Standing(t)'
    BY <1>1, <1>4, <1>a, <1>b, <1>c DEF Standing
  <1>7. Position(list, t)'
    <2>1. ASSUME expected'[t] # {}
          PROVE  \E k \in 1..(Len(list) + 1) : From(list, next[curr[t]], k) /\ Split(list, t, k)'
      <3>1. PICK i \in 1..(Len(list) + 1) : From(list, curr[t], i) /\ Split(list, t, i)
        BY <1>1, <1>a, <2>1 DEF Position
      <3>2. PICK k \in 1..(Len(list) + 1) :
              /\ From(list, next[curr[t]], k)
              /\ \A j \in 1..Len(list) : j < k <=> j < i \/ list[j] = curr[t]
        BY <1>a, <3>1, Advance
      <3>3. Split(list, t, k)'
        BY <1>a, <3>1, <3>2 DEF Split
      <3> QED
        BY <3>2, <3>3
    <2>2. \A c, k : From(list, c, k)' <=> From(list, c, k)
      BY <1>4 DEF From
    <2>3. /\ expected'[t] \subseteq Listed'
          /\ Clearing' => expected'[t] = {}
      BY <1>1, <1>4, <1>a DEF Position
    <2>4. CASE mutex = Null
      <3>1. pc'[t] \in {"unlink", "release"} /\ curr'[t] = next[curr[t]]
        BY <1>b, <2>4
      <3>2. expected'[t] # {} => \E k \in 1..(Len(list) + 1) : From(list, curr[t], k)' /\ Split(list, t, k)'
        BY <2>1, <2>2, <3>1 DEF From
      <3> QED
        BY <1>a, <2>3, <3>1, <3>2 DEF Position, Removing
    <2>5. CASE mutex # Null
      <3>1. pc'[t] = "next" /\ curr'[t] = curr[t]
        BY <1>c, <2>5
      <3>2. expected'[t] # {} => \E k \in 1..(Len(list) + 1) : From(list, next[curr[t]], k)' /\ Split(list, t, k)'
        BY <1>4, <2>1, <2>2, <3>1 DEF From
      <3> QED
        BY <1>a, <2>3, <3>1, <3>2 DEF Position, Removing
    <2> QED
      BY <2>4, <2>5
  <1>8. ASSUME NEW e \in Threads \ {t} PROVE Stale(t, e)'
    BY <1>0, <1>2, <1>8, <1>1, <1>4 DEF Discard, Goto, Stale, Connections, Same, TypeOK, CallOK
  <1>9. ASSUME NEW e \in Threads \ {t} PROVE Stale(e, t)'
    <2>1. Same(e) /\ Stale(e, t)
      BY <1>0, <1>2, <1>9 DEF Connections
    <2> QED
      BY <1>4, <1>9, <1>a, <1>b, <1>c, <2>1 DEF Stale, Same, Holding
  <1>10. Emptied(list)'
    BY <1>0, <1>2, <1>1, <1>4 DEF Discard, Goto, Emptied, Same, CallOK, TypeOK
  <1>11. ~twice'
    BY <1>0, <1>1 DEF Discard
  <1> QED
    BY <1>3, <1>5, <1>6, <1>7, <1>8, <1>9, <1>10, <1>11, QuietStep

-----------------------------------------------------------------------------
(* The connections: steps that end the signal *)

AllIdle == \A t \in Threads : pc[t] = "idle"

\* When the control block is deleted nobody is left.
LEMMA NoneLeft == TypeOK /\ Calls /\ Counts /\ Ending /\ deleted => AllIdle
  <1> SUFFICES ASSUME TypeOK, Calls, Counts, Ending, deleted, NEW t \in Threads PROVE pc[t] = "idle"
    BY DEF AllIdle
  <1>1. ~owned /\ execs = NoneEmits
    BY DEF Ending
  <1>2. pc[t] # "incr" /\ op[t] \in {"none", "emit"}
    BY <1>1 DEF Ending
  <1>3. op[t] # "emit"
    BY <1>1, <1>2, NoneEmitting
  <1> QED
    BY <1>2, <1>3 DEF Calls, CallOK

\* Nobody is at work, and nothing is held.
Resting ==
    /\ TypeOK /\ Calls /\ AllIdle /\ held = {} /\ rmvd = {} /\ next[ListHead] = Null /\ ~twice
    /\ \A t \in Threads : expected[t] = {} /\ visited[t] = {}

\* When the control block is gone and nobody is left, nothing is left to hold of the list.
LEMMA RestingSound == Resting => Connections(<< >>)
  <1> SUFFICES ASSUME Resting PROVE Connections(<< >>)
    OBVIOUS
  <1>0. \A t \in Threads : pc[t] = "idle" /\ op[t] = "none"
    BY DEF Resting, AllIdle, Calls, CallOK
  <1>1. Unlinked = {} /\ ~Clearing /\ Listed = {}
    BY <1>0 DEF Unlinked, Clearing, Listed, Resting
  <1>2. Linked(<< >>)
    BY <1>1 DEF Linked, At, Range, Resting
  <1>3. Store /\ Emptied(<< >>)
    BY <1>1 DEF Store, Emptied, Resting
  <1>4. ASSUME NEW t \in Threads PROVE Pointers(<< >>, t) /\ Standing(t) /\ Position(<< >>, t)
    BY <1>0, <1>1 DEF Pointers, Standing, Position, Removing, Resting
  <1>5. ASSUME NEW t \in Threads, NEW e \in Threads PROVE Stale(t, e)
    BY <1>0 DEF Stale
  <1> QED
    BY <1>2, <1>3, <1>4, <1>5 DEF Connections, Resting

\* The last emission deletes the control block when the signal object is gone.
LEMMA DecrKeeps ==
    ASSUME NEW list \in Lists, Inv(list), NEW t \in Threads, Decr(t)
    PROVE  Connections(list)'
  <1>0. TypeOK /\ Calls /\ Counts /\ Ending /\ Connections(list) /\ CallOK(t) /\ t # Null /\ Step(t)
    BY ThreadsAssumption DEF Inv, Calls, Threads, Step, Emission
  <1>1. Standing(t) /\ Position(list, t) /\ ~twice /\ Emptied(list) /\ Linked(list)
    BY <1>0 DEF Connections
  <1>2. \A o \in Threads \ {t} : Same(o) /\ expected'[o] = expected[o]
    BY <1>0, Frame DEF Decr, TypeOK
  <1>3. /\ op'[t] = "none" /\ curr'[t] = Null /\ visited'[t] = {} /\ expected'[t] = {}
        /\ pc'[t] = "idle" /\ tmp'[t] = tmp[t] /\ owned' = owned /\ next' = next /\ twice' = twice
    BY <1>0 DEF Decr, Rests, Goto, TypeOK
  <1>4. CASE deleted' = deleted /\ held' = held /\ rmvd' = rmvd
    <2>1. Quiet(t)
      BY <1>0, <1>2, <1>3, <1>4 DEF Quiet, Decr, sharedVars, stateVars
    <2>2. Clearing' = Clearing
      BY <2>1, QuietFrame
    <2>3. Pointers(list, t)' /\ Standing(t)' /\ Position(list, t)'
      BY <1>3 DEF Pointers, Standing, Position, Removing
    <2>4. ASSUME NEW e \in Threads \ {t} PROVE Stale(t, e)' /\ Stale(e, t)'
      BY <1>3 DEF Stale
    <2>5. Emptied(list)'
      BY <1>1, <1>2, <1>3 DEF Emptied, Same
    <2> QED
      BY <1>1, <1>3, <2>1, <2>3, <2>4, <2>5, QuietStep
  <1>5. CASE Delete /\ ~owned
    <2>1. TypeOK' /\ Calls' /\ Counts' /\ Ending' /\ deleted'
      BY <1>0, <1>5, TypeStep, CallsStep, CountsStep, EndingStep DEF Delete
    <2>2. AllIdle'
      BY <2>1, NoneLeft, PTL
    <2>3. list = << >> /\ next'[ListHead] = Null
      BY <1>1, <1>3, <1>5 DEF Emptied, Linked, At
    <2>4. ASSUME NEW o \in Threads PROVE expected'[o] = {} /\ visited'[o] = {}
      <3>1. CASE o = t
        BY <1>3, <3>1
      <3>2. CASE o # t
        <4>1. Position(list, o) /\ Same(o) /\ expected'[o] = expected[o]
          BY <1>0, <1>2, <3>2 DEF Connections
        <4>2. pc[o] = "idle" /\ CallOK(o)
          BY <1>0, <2>2, <4>1 DEF AllIdle, Same, Calls
        <4> QED
          BY <4>1, <4>2 DEF Position, Same, CallOK
      <3> QED
        BY <3>1, <3>2
    <2>5. Resting'
      BY <1>1, <1>3, <1>5, <2>1, <2>2, <2>3, <2>4 DEF Resting, Delete
    <2>6. Connections(<< >>)'
      BY <2>5, RestingSound, PTL
    <2> QED
      BY <2>3, <2>6
  <1> QED
    BY <1>4, <1>5 DEF Decr

\* free() deletes the control block when no emission is left.
LEMMA FreeKeeps ==
    ASSUME NEW list \in Lists, Inv(list), NEW t \in Threads, Free(t)
    PROVE  Connections(list)'
  <1>0. TypeOK /\ Calls /\ Counts /\ Ending /\ Connections(list) /\ CallOK(t) /\ t # Null /\ Step(t)
    BY ThreadsAssumption DEF Inv, Calls, Threads, Step, Locked
  <1>1. Standing(t) /\ Position(list, t) /\ ~twice /\ Emptied(list) /\ Linked(list)
    BY <1>0 DEF Connections
  <1>2. \A o \in Threads \ {t} : Same(o) /\ expected'[o] = expected[o]
    BY <1>0, Frame DEF Free
  <1>3. /\ op'[t] = "none" /\ curr'[t] = Null /\ visited'[t] = {} /\ pc'[t] = "idle"
        /\ tmp'[t] = tmp[t] /\ next' = next /\ twice' = twice /\ list = << >>
        /\ expected'[t] = {}
    BY <1>0, <1>1 DEF Free, Rests, Goto, TypeOK, CallOK, Emptied, Position
  <1>4. CASE deleted' = deleted /\ held' = held /\ rmvd' = rmvd
    <2>1. Quiet(t)
      BY <1>0, <1>2, <1>3, <1>4 DEF Quiet, Free, sharedVars, stateVars
    <2>3. Pointers(list, t)' /\ Standing(t)' /\ Position(list, t)'
      BY <1>3 DEF Pointers, Standing, Position, Removing
    <2>4. ASSUME NEW e \in Threads \ {t} PROVE Stale(t, e)' /\ Stale(e, t)'
      BY <1>3 DEF Stale
    <2>5. Emptied(list)'
      BY <1>3 DEF Emptied
    <2> QED
      BY <1>1, <1>3, <2>1, <2>3, <2>4, <2>5, QuietStep
  <1>5. CASE Delete
    <2>1. TypeOK' /\ Calls' /\ Counts' /\ Ending' /\ deleted'
      BY <1>0, <1>5, TypeStep, CallsStep, CountsStep, EndingStep DEF Delete
    <2>2. AllIdle'
      BY <2>1, NoneLeft, PTL
    <2>3. next'[ListHead] = Null
      BY <1>1, <1>3, <1>5 DEF Linked, At
    <2>4. ASSUME NEW o \in Threads PROVE expected'[o] = {} /\ visited'[o] = {}
      <3>1. CASE o = t
        BY <1>3, <3>1
      <3>2. CASE o # t
        <4>1. Position(list, o) /\ Same(o) /\ expected'[o] = expected[o]
          BY <1>0, <1>2, <3>2 DEF Connections
        <4>2. pc[o] = "idle" /\ CallOK(o)
          BY <1>0, <2>2, <4>1 DEF AllIdle, Same, Calls
        <4> QED
          BY <4>1, <4>2 DEF Position, Same, CallOK
      <3> QED
        BY <3>1, <3>2
    <2>5. Resting'
      BY <1>1, <1>3, <1>5, <2>1, <2>2, <2>3, <2>4 DEF Resting, Delete
    <2>6. Connections(<< >>)'
      BY <2>5, RestingSound, PTL
    <2> QED
      BY <1>3, <2>6
  <1> QED
    BY <1>4, <1>5 DEF Free

-----------------------------------------------------------------------------
(* The connections: steps of the thread that holds the mutex *)

\* What is left to show of such a step: nobody else has pointers or counters of its own.
LEMMA HolderStep ==
    ASSUME TypeOK, Calls, NEW t \in Threads, Step(t), pc[t] \in Holding, NEW list,
           Linked(list)', Store', Emptied(list)', ~twice', Pointers(list, t)',
           \A e \in Threads : Standing(e)' /\ Position(list, e)',
           \A e \in Threads \ {t} : Stale(t, e)'
    PROVE  Connections(list)'
  <1>1. ASSUME NEW o \in Threads \ {t}
        PROVE  Pointers(list, o)' /\ \A e \in Threads : Stale(o, e)'
    <2>1. pc'[o] = pc[o] /\ pc[o] \notin Holding
      BY Sole, Frame DEF Same
    <2> QED
      BY <2>1 DEF Pointers, Stale, Holding, Removing
  <1> QED
    BY <1>1 DEF Connections

\* What a holder that is not removing finds.
LEMMA HolderFinds ==
    ASSUME NEW list \in Lists, Inv(list), NEW t \in Threads, pc[t] \in Holding
    PROVE  /\ \A e \in Threads \ {t} : pc[e] \notin Holding /\ tmp[e] = Null
           /\ pc[t] \notin {"count", "drop"} => Unlinked = {}
           /\ pc[t] \in {"count", "drop"} => Unlinked = {tmp[t]} /\ tmp[t] \in Nodes
           /\ Clearing <=> pc[t] \in {"clearCount", "clearDrop"}
           /\ TypeOK /\ Calls /\ Counts /\ Ending /\ CallOK(t)
           /\ Linked(list) /\ Store /\ Emptied(list)
           /\ ~twice /\ Pointers(list, t) /\ \A e \in Threads : Standing(e) /\ Position(list, e)
           /\ \A e \in Threads \ {t} : Stale(t, e)
  <1>1. /\ TypeOK /\ Calls /\ Counts /\ Ending /\ CallOK(t)
        /\ Linked(list) /\ Store /\ Emptied(list)
        /\ ~twice /\ Pointers(list, t) /\ \A e \in Threads : Standing(e) /\ Position(list, e)
        /\ \A e \in Threads \ {t} : Stale(t, e)
    BY DEF Inv, Connections, Calls
  <1>2. \A e \in Threads \ {t} : pc[e] \notin Holding /\ tmp[e] = Null
    BY <1>1, Sole
  <1>3. Clearing <=> pc[t] \in {"clearCount", "clearDrop"}
    BY <1>2 DEF Clearing, Holding
  <1>4. pc[t] \notin {"count", "drop"} => Unlinked = {}
    BY <1>2 DEF Unlinked, Holding
  <1>5. pc[t] \in {"count", "drop"} => tmp[t] \in Nodes
    BY <1>1 DEF TypeOK, CallOK, Removing
  <1>6. pc[t] \in {"count", "drop"} => Unlinked = {tmp[t]}
    BY <1>2, <1>5 DEF Unlinked, Holding
  <1> QED
    BY <1>1, <1>2, <1>3, <1>4, <1>5, <1>6

\* The same after the step.
LEMMA HolderLeaves ==
    ASSUME TypeOK, Calls, NEW t \in Threads, Step(t), pc[t] \in Holding, TypeOK'
    PROVE  /\ pc'[t] \notin {"count", "drop"} => Unlinked' = {}
           /\ pc'[t] \in {"count", "drop"} /\ tmp'[t] # Null => Unlinked' = {tmp'[t]}
           /\ Clearing' <=> pc'[t] \in {"clearCount", "clearDrop"}
  <1>1. \A e \in Threads \ {t} : pc'[e] \notin Holding
    BY Sole, Frame DEF Same
  <1>2. tmp'[t] \in Nodes \cup {Null}
    BY DEF TypeOK
  <1> QED
    BY <1>1, <1>2 DEF Unlinked, Clearing, Holding

\* The list is taken away.
LEMMA ClearKeeps ==
    ASSUME NEW list \in Lists, Inv(list), NEW t \in Threads, Clear(t)
    PROVE  Connections(list)'
  <1>0. pc[t] \in Holding /\ Step(t) /\ pc[t] = "clear" /\ pc'[t] = "clearCount"
    BY DEF Clear, Goto, Holding, Step, Locked, Inv, TypeOK
  <1>1. TypeOK' /\ TypeOK /\ Calls /\ CallOK(t)
    BY <1>0, TypeStep DEF Inv, Calls
  <1>2. Unlinked = {} /\ Unlinked' = {} /\ Clearing' /\ ~Clearing
    BY <1>0, <1>1, HolderFinds, HolderLeaves
  <1>3. Listed' = Listed
    BY <1>2 DEF Clear, Listed
  <1>4. /\ \A n \in Nodes : next'[n] = next[n]
        /\ next'[ListHead] = Null
    BY <1>1, NodesAssumption DEF Clear, TypeOK
  <1>5. Linked(list)'
    <2>1. Linked(list)
      BY <1>0, HolderFinds
    <2> QED
      BY <1>2, <1>3, <1>4, <2>1, ListType DEF Linked, Clear
  <1>6. Store'
    <2>1. Store /\ rmvd \subseteq Nodes
      BY <1>0, <1>1, HolderFinds DEF TypeOK
    <2> QED
      BY <1>2, <1>3, <1>4, <2>1 DEF Store, Clear, stateVars
  <1>7. Emptied(list)' /\ ~twice' /\ Pointers(list, t)'
    <2>1. Emptied(list) /\ ~twice /\ Pointers(list, t)
      BY <1>0, HolderFinds
    <2>2. \A o \in Threads : op'[o] = op[o] /\ (pc'[o] = pc[o] \/ pc'[o] = "clearCount")
      BY <1>0, <1>1 DEF Clear, Goto, TypeOK
    <2> QED
      BY <1>0, <2>1, <2>2 DEF Clear, Emptied, Pointers, Removing
  <1>8. ASSUME NEW e \in Threads PROVE Standing(e)' /\ Position(list, e)'
    <2>1. Standing(e) /\ Position(list, e)
      BY <1>0, HolderFinds
    <2>2. Standing(e)'
      BY <2>1 DEF Standing, Clear, stateVars, Old, OldTag
    <2>3. expected'[e] = {} /\ visited'[e] = visited[e] /\ (pc'[e] = pc[e] \/ pc'[e] = "clearCount")
      BY <1>0, <1>1 DEF Clear, Goto, TypeOK
    <2> QED
      BY <2>1, <2>2, <2>3 DEF Position
  <1>9. ASSUME NEW e \in Threads \ {t} PROVE Stale(t, e)'
    BY <1>0 DEF Stale
  <1> QED
    BY <1>0, <1>1, <1>5, <1>6, <1>7, <1>8, <1>9, HolderStep

\* A set of natural numbers that is not empty has a least element.
LEMMA LeastNatural ==
    ASSUME NEW T \in SUBSET Nat, T # {}
    PROVE  \E n \in T : \A m \in T : n <= m
  <1> DEFINE R == OpToRel(<, Nat)
  <1>1. IsWellFoundedOn(R, Nat)
    BY NatLessThanWellFounded
  <1>2. PICK n \in T : \A m \in T : ~ (<<m, n>> \in R)
    <2> HIDE DEF R
    <2> QED
      BY <1>1, WFMin
  <1>3. ASSUME NEW m \in T PROVE n <= m
    <2>1. m < n => <<m, n>> \in R
      BY DEF OpToRel
    <2> HIDE DEF R
    <2> QED
      BY <1>2, <2>1
  <1> QED
    BY <1>3

\* The pointers along the list determine it.
LEMMA PathIs ==
    ASSUME NEW list \in Lists, NEW l \in Lists, Linked(list), Path(At(list, 1), l)
    PROVE  Range(l) = Range(list)
  <1>0. /\ Len(l) \in Nat /\ Len(list) \in Nat /\ DOMAIN l = 1..Len(l) /\ DOMAIN list = 1..Len(list)
        /\ \A i \in 1..Len(l) : l[i] \in Nodes
        /\ \A i \in 1..Len(list) : list[i] \in Nodes
        /\ (l = << >>) <=> (Len(l) = 0)
        /\ Range(l) = {l[i] : i \in 1..Len(l)} /\ Range(list) = {list[i] : i \in 1..Len(list)}
    BY ListType
  <1>1. At(l, 1) = At(list, 1)
    BY <1>0 DEF Path, At
  <1>2. \A k \in Nat \ {0} : At(l, k) = At(list, k) => At(l, k + 1) = At(list, k + 1)
    <2> SUFFICES ASSUME NEW k \in Nat \ {0}, At(l, k) = At(list, k) PROVE At(l, k + 1) = At(list, k + 1)
      OBVIOUS
    <2>1. CASE At(l, k) = Null
      BY <1>0, <2>1, NodesAssumption DEF At
    <2>2. CASE At(l, k) # Null
      <3>1. k \in 1..Len(l) /\ k \in 1..Len(list) /\ l[k] = list[k]
        BY <2>2 DEF At
      <3>2. next[l[k]] = At(l, k + 1)
        BY <1>0, <3>1 DEF Path, At
      <3>3. next[list[k]] = At(list, k + 1)
        BY <3>1 DEF Linked
      <3> QED
        BY <3>1, <3>2, <3>3
    <2> QED
      BY <2>1, <2>2
  <1>3. \A k \in Nat \ {0} : At(l, k) = At(list, k)
    <2> SUFFICES ASSUME NEW b \in Nat \ {0}, At(l, b) # At(list, b) PROVE FALSE
      OBVIOUS
    <2> DEFINE Bad == {k \in Nat : k # 0 /\ At(l, k) # At(list, k)}
    <2>1. Bad \subseteq Nat /\ Bad # {}
      BY DEF Bad
    <2> HIDE DEF Bad
    <2>2. PICK m \in Bad : \A y \in Bad : m <= y
      BY <2>1, LeastNatural
    <2>3. m \in Nat /\ m # 0 /\ At(l, m) # At(list, m) /\ m # 1
      BY <1>1 DEF Bad
    <2>4. m - 1 \in Nat \ {0} /\ m - 1 < m /\ (m - 1) + 1 = m
      BY <2>3
    <2>5. At(l, m - 1) = At(list, m - 1)
      BY <2>2, <2>4 DEF Bad
    <2> QED
      BY <1>2, <2>3, <2>4, <2>5
  <1>4. \A i \in 1..Len(l) : i \in 1..Len(list) /\ l[i] = list[i]
    BY <1>0, <1>3, NodesAssumption DEF At
  <1>5. \A i \in 1..Len(list) : i \in 1..Len(l) /\ l[i] = list[i]
    BY <1>0, <1>3, NodesAssumption DEF At
  <1> QED
    BY <1>0, <1>4, <1>5

\* The list that was taken away is deleted, or moved to the removed connections.
LEMMA ClearDropKeeps ==
    ASSUME NEW list \in Lists, Inv(list), NEW t \in Threads, ClearDrop(t)
    PROVE  Connections(<< >>)'
  <1>0. pc[t] \in Holding /\ Step(t) /\ pc[t] = "clearDrop" /\ pc'[t] = "unlock"
    BY DEF ClearDrop, Goto, Holding, Step, Locked, Inv, TypeOK
  <1>1. /\ TypeOK' /\ TypeOK /\ Calls /\ CallOK(t) /\ Linked(list) /\ Store
        /\ ~twice /\ Pointers(list, t)
    BY <1>0, TypeStep, HolderFinds
  <1>2. Unlinked = {} /\ Unlinked' = {} /\ ~Clearing' /\ Clearing
    BY <1>0, <1>1, HolderFinds, HolderLeaves
  <1>3. held = Listed \cup rmvd /\ Listed \cap rmvd = {} /\ held \subseteq Nodes /\ Null \notin held
    BY <1>2, Places
  <1>4. \A l \in Lists : Path(curr[t], l) => Range(l) = Listed
    BY <1>0, <1>1, PathIs DEF Pointers, Linked
  <1>5. \/ /\ seen[t] = NoneEmits /\ held' = held \ (rmvd \cup Listed) /\ rmvd' = {}
           /\ next' = next /\ tag' = tag
        \/ /\ tag' = [n \in Nodes |-> IF n \in Listed THEN IF version THEN "rem_v1" ELSE "rem_v2"
                                                      ELSE tag[n]]
           /\ rmvd' = rmvd \cup Listed /\ cleanupFlag' = TRUE /\ held' = held
           /\ next' = [n \in DOMAIN next |-> IF n \in rmvd' THEN Null ELSE next[n]]
    BY <1>4 DEF ClearDrop, EraseAll, Release
  <1>6. next'[ListHead] = Null
    <2>1. next[ListHead] = Null /\ ListHead \in DOMAIN next
      BY <1>1, <1>2 DEF Linked, TypeOK
    <2> QED
      BY <1>5, <2>1
  <1>7. rmvd' = held' /\ Listed' = {}
    <2>1. CASE held' = {} /\ rmvd' = {}
      BY <2>1 DEF Listed
    <2>2. CASE /\ rmvd' = held /\ held' = held
               /\ \A n \in held : tag'[n] # "active"
      BY <2>2 DEF Listed
    <2>3. ASSUME NEW n \in Listed \cup rmvd,
                 tag' = [m \in Nodes |-> IF m \in Listed THEN IF version THEN "rem_v1" ELSE "rem_v2"
                                                         ELSE tag[m]]
          PROVE  tag'[n] # "active"
      BY <1>1, <1>3, <2>3 DEF Store
    <2> QED
      BY <1>3, <1>5, <2>1, <2>2, <2>3
  <1>8. Linked(<< >>)' /\ Emptied(<< >>)'
    BY <1>2, <1>6, <1>7 DEF Linked, Emptied, At, Range
  <1>9. Store'
    <2>1. CASE rmvd' = {}
      BY <1>2, <1>7, <2>1 DEF Store
    <2>2. CASE rmvd' # {}
      <3>1. /\ tag' = [n \in Nodes |-> IF n \in Listed THEN IF version THEN "rem_v1" ELSE "rem_v2"
                                                       ELSE tag[n]]
            /\ rmvd' = rmvd \cup Listed /\ cleanupFlag'
            /\ next' = [n \in DOMAIN next |-> IF n \in rmvd' THEN Null ELSE next[n]]
        BY <1>5, <2>2
      <3>2. \A n \in rmvd' : n \in Nodes /\ n \in DOMAIN next
        BY <1>1 DEF TypeOK
      <3>3. \A n \in rmvd' : next'[n] = Null
        BY <3>1, <3>2
      <3>4. \A n \in rmvd' : tag'[n] # "active"
        BY <1>1, <3>1, <3>2 DEF Store
      <3> QED
        BY <1>2, <1>7, <3>1, <3>3, <3>4 DEF Store
    <2> QED
      BY <2>1, <2>2
  <1>10. ~twice' /\ Pointers(<< >>, t)' /\ \A e \in Threads \ {t} : Stale(t, e)'
    BY <1>0, <1>1 DEF ClearDrop, Pointers, Stale, Removing
  <1>11. ASSUME NEW e \in Threads PROVE Standing(e)' /\ Position(<< >>, e)'
    <2>1. Standing(e) /\ Position(list, e) /\ expected'[e] = expected[e] /\ expected[e] = {}
      BY <1>0, <1>2, HolderFinds DEF Position, ClearDrop
    <2>2. (pc'[e] = pc[e] \/ pc'[e] = "unlock") /\ visited'[e] = visited[e]
      BY <1>1 DEF ClearDrop, Goto, TypeOK
    <2>3. Position(<< >>, e)'
      BY <2>1, <2>2 DEF Position
    <2>4. Standing(e)'
      <3> SUFFICES ASSUME op[e] = "emit" PROVE Standing(e)'
        BY DEF Standing, ClearDrop
      <3>0. e # t /\ unit[e] \in 1..2
        BY <1>0, <1>1 DEF CallOK, Calls, TypeOK
      <3>1. curr[e] \in held \cup {Null} /\ (curr[e] \in rmvd /\ tag[curr[e]] = OldTag => unit[e] = Old)
        BY <2>1 DEF Standing
      <3>2. version' = version /\ curr'[e] = curr[e] /\ unit'[e] = unit[e] /\ Old' = Old /\ OldTag' = OldTag
        BY DEF ClearDrop, Old, OldTag
      <3>3. CASE seen[t] = NoneEmits
        <4>1. seen[t][unit[e]] = 0
          BY <3>0, <3>3 DEF NoneEmits
        <4>2. curr[e] = Null
          BY <1>0, <3>0, <4>1, HolderFinds DEF Stale
        <4> QED
          BY <1>1, <3>2, <4>2, NodesAssumption DEF Standing, TypeOK
      <3>4. CASE seen[t] # NoneEmits
        <4>1. /\ tag' = [n \in Nodes |-> IF n \in Listed THEN IF version THEN "rem_v1" ELSE "rem_v2"
                                                         ELSE tag[n]]
              /\ held' = held /\ rmvd' = rmvd \cup Listed
          BY <1>5, <3>4
        <4>2. CASE curr[e] \in Listed
          <5>1. tag'[curr[e]] # OldTag
            BY <1>3, <4>1, <4>2 DEF OldTag
          <5> QED
            BY <3>1, <3>2, <4>1, <5>1 DEF Standing
        <4>3. CASE curr[e] \in rmvd
          <5>1. tag'[curr[e]] = tag[curr[e]]
            BY <1>3, <4>1, <4>3
          <5> QED
            BY <3>1, <3>2, <4>1, <4>3, <5>1 DEF Standing
        <4>4. CASE curr[e] = Null
          BY <1>3, <3>2, <4>1, <4>4 DEF Standing
        <4> QED
          BY <1>3, <3>1, <4>2, <4>3, <4>4
      <3> QED
        BY <3>3, <3>4
    <2> QED
      BY <2>3, <2>4
  <1> QED
    BY <1>0, <1>1, <1>8, <1>9, <1>10, <1>11, HolderStep

\* While nothing is being removed a removed connection leads straight to the list, and
\* so it stays when others are deleted.
LEMMA StillFrom ==
    ASSUME NEW list \in Lists, Inv(list), Unlinked = {}, Listed' = Listed, next' = next,
           NEW c \in held', held' \subseteq held, NEW i, From(list, c, i)
    PROVE  From(list, c, i)'
  <1>1. next[c] \notin Gone
    BY Places DEF Gone
  <1>2. c \in Gone => c \in Gone'
    BY DEF Gone
  <1> QED
    BY <1>1, <1>2 DEF From

\* Connections that nobody stands on are deleted.
LEMMA ErasingKeeps ==
    ASSUME NEW list \in Lists, Inv(list), NEW t \in Threads, Step(t), pc[t] \in Holding, TypeOK',
           Unlinked' = {}, Listed' = Listed, ~Clearing', next' = next, held' \subseteq held,
           expected' = expected, NEW e \in Threads,
           Same(e),
           op[e] = "emit" => curr[e] \in held' \cup {Null}
                             /\ (Unlinked = {} \/ curr[e] \in Listed \cup {Null})
    PROVE  Position(list, e)'
  <1>0. /\ Position(list, e) /\ Standing(e) /\ op'[e] = op[e] /\ curr'[e] = curr[e]
        /\ visited'[e] = visited[e] /\ expected'[e] = expected[e] /\ CallOK(e)
        /\ Listed \subseteq held' /\ Null \notin held /\ Null \notin held'
    BY Places, NodesAssumption DEF Inv, Calls, Connections, Same, Listed, TypeOK
  <1>1. ASSUME NEW c, NEW i, From(list, c, i), c \in held' \cup {Null},
               Unlinked = {} \/ c \in Listed \cup {Null}
        PROVE  From(list, c, i)'
    <2>1. CASE c \in Listed \cup {Null}
      BY <1>0, <1>1, <2>1 DEF From, Gone
    <2>2. CASE c \notin Listed \cup {Null}
      BY <1>1, <2>2, StillFrom
    <2> QED
      BY <2>1, <2>2
  <1>2. ASSUME NEW i PROVE Split(list, e, i)' <=> Split(list, e, i)
    BY <1>0 DEF Split
  <1>3. ASSUME expected[e] # {}, pc'[e] \in Removing \cup {"visit", "release"}
        PROVE  \E i \in 1..(Len(list) + 1) : From(list, curr[e], i)' /\ Split(list, e, i)'
    <2>1. op[e] = "emit" /\ pc[e] \in Removing \cup {"visit", "release"}
      BY <1>0, <1>3 DEF Position, Same
    <2>2. PICK i \in 1..(Len(list) + 1) : From(list, curr[e], i) /\ Split(list, e, i)
      BY <1>0, <1>3, <2>1 DEF Position
    <2>3. From(list, curr[e], i)'
      <3>1. From(list, curr[e], i)' <=> \/ At(list, i) = curr[e]
                                        \/ curr[e] \in Gone' /\ At(list, i) = next[curr[e]]
                                        \/ curr[e] \in Gone' /\ next[curr[e]] \in Gone'
                                              /\ At(list, i) = next[next[curr[e]]]
        BY <1>0 DEF From
      <3> QED
        BY <1>1, <2>1, <2>2, <3>1 DEF From
    <2> QED
      BY <1>2, <2>2, <2>3
  <1>4. ASSUME expected[e] # {}, pc'[e] = "next"
        PROVE  \E i \in 1..(Len(list) + 1) : From(list, next[curr[e]], i)' /\ Split(list, e, i)'
    <2>1. op[e] = "emit" /\ pc[e] = "next" /\ curr[e] \in held
      BY <1>0, <1>4, NodesAssumption DEF Position, Same, CallOK, Standing
    <2>2. PICK i \in 1..(Len(list) + 1) : From(list, next[curr[e]], i) /\ Split(list, e, i)
      BY <1>0, <1>4, <2>1 DEF Position
    <2>3. next[curr[e]] \in Listed \cup {Null}
      BY <2>1, Places
    <2>4. At(list, i) = next[curr[e]]
      BY <1>0, <2>2, <2>3 DEF From, Gone
    <2>5. From(list, next[curr[e]], i)'
      BY <1>0, <2>4 DEF From
    <2> QED
      BY <1>2, <2>2, <2>5
  <1>5. pc'[e] \in {"idle", "incr", "list"} => pc[e] \in {"idle", "incr", "list"}
    BY DEF Same
  <1>6. pc'[e] \in {"cleanup", "erase", "unlock", "try", "decr"} =>
           pc[e] \in {"cleanup", "erase", "unlock", "try", "decr"}
    BY DEF Same
  <1>7. pc'[e] \in {"incr", "list"} => visited'[e] = {} /\ expected'[e] = {}
    BY <1>0, <1>5, <1>6 DEF Position, CallOK
  <1>8. op'[e] # "emit" \/ pc'[e] \in {"incr", "list"} \/ Clearing' => expected'[e] = {}
    BY <1>0, <1>7 DEF Position
  <1> QED
    BY <1>0, <1>3, <1>4, <1>5, <1>6, <1>8 DEF Position

\* cleanup() deletes what was removed under a version that nobody is counted under, or
\* that only those are counted under who have found the list as it is.
LEMMA CleanupEraseKeeps ==
    ASSUME NEW list \in Lists, Inv(list), NEW t \in Threads, CleanupErase(t)
    PROVE  Connections(list)'
  <1>0. pc[t] \in Holding /\ Step(t) /\ pc[t] = "erase" /\ pc'[t] = "unlock"
    BY DEF CleanupErase, Goto, Holding, Step, Locked, Inv, TypeOK
  <1>1. /\ TypeOK' /\ TypeOK /\ Calls /\ CallOK(t) /\ Linked(list) /\ Store
        /\ ~twice /\ Pointers(list, t) /\ Emptied(list) /\ Ending
    BY <1>0, TypeStep, HolderFinds
  <1>2. Unlinked = {} /\ Unlinked' = {} /\ ~Clearing' /\ ~Clearing
    BY <1>0, <1>1, HolderFinds, HolderLeaves
  <1>3. held = Listed \cup rmvd /\ Listed \cap rmvd = {} /\ held \subseteq Nodes /\ Null \notin held
    BY <1>2, Places
  <1>4. \/ /\ seen[t] = NoneEmits /\ held' = held \ rmvd /\ rmvd' = {} /\ version' = version
        \/ /\ seen[t][Old] = 0 /\ Old' # Old /\ held' = held \ {n \in rmvd : tag[n] = OldTag}
           /\ rmvd' = {n \in rmvd : tag[n] # OldTag} /\ cleanupFlag' = (rmvd' # {} /\ cleanupFlag)
        \/ held' = held /\ rmvd' = rmvd /\ cleanupFlag' = cleanupFlag /\ version' = version
    BY <1>1 DEF CleanupErase, EraseOther, Erase, Release, Old, OldTag, TypeOK
  <1>5. /\ rmvd' \subseteq rmvd /\ held' = held \ (rmvd \ rmvd') /\ next' = next /\ tag' = tag
        /\ prev' = prev
    BY <1>3, <1>4 DEF CleanupErase
  <1>6. Listed' = Listed
    BY <1>1, <1>2, <1>3, <1>5 DEF Listed, Store
  <1>7. Linked(list)'
    BY <1>1, <1>2, <1>5, <1>6 DEF Linked
  <1>8. rmvd' # {} => cleanupFlag'
    BY <1>1, <1>4 DEF Store
  <1>9. Store'
    BY <1>1, <1>2, <1>3, <1>5, <1>6, <1>8 DEF Store
  <1>10. Emptied(list)' /\ ~twice' /\ Pointers(list, t)'
    <2>1. \A o \in Threads : op'[o] = op[o] /\ (pc'[o] = pc[o] \/ o = t) /\ owned' = owned
      BY <1>1 DEF CleanupErase, Goto, TypeOK
    <2>2. op[t] # "free"
      BY <1>0, <1>1 DEF CallOK
    <2> QED
      BY <1>0, <1>1, <2>1, <2>2 DEF CleanupErase, Emptied, Pointers, Removing
  <1>11. ASSUME NEW e \in Threads PROVE Standing(e)' /\ Position(list, e)'
    <2>1. Standing(e) /\ Position(list, e) /\ (e = t => curr[e] = Null) /\ CallOK(e)
      BY <1>0, <1>1, HolderFinds DEF CallOK, Calls
    <2>2. /\ op'[e] = op[e] /\ unit'[e] = unit[e] /\ curr'[e] = curr[e]
      BY DEF CleanupErase
    <2>3. ASSUME op[e] = "emit", seen[t][unit[e]] = 0 PROVE curr[e] \in Listed \cup {Null}
      BY <1>0, <2>1, <2>3, HolderFinds DEF Stale
    <2>4. ASSUME op[e] = "emit"
          PROVE  /\ curr[e] \in held' \cup {Null}
                 /\ (curr[e] \in rmvd' /\ tag[curr[e]] = OldTag') => unit[e] = Old'
      <3>0. unit[e] \in 1..2
        BY <1>1, <2>1, <2>4 DEF TypeOK, CallOK
      <3>1. CASE seen[t] = NoneEmits /\ held' = held \ rmvd /\ rmvd' = {}
        <4>1. seen[t][unit[e]] = 0
          BY <3>0, <3>1 DEF NoneEmits
        <4> QED
          BY <1>3, <2>3, <2>4, <3>1, <4>1
      <3>2. CASE held' = held /\ rmvd' = rmvd /\ version' = version
        BY <2>1, <2>4, <3>2 DEF Standing, Old, OldTag
      <3>3. CASE /\ seen[t][Old] = 0 /\ Old' # Old /\ rmvd' = {n \in rmvd : tag[n] # OldTag}
                 /\ held' = held \ {n \in rmvd : tag[n] = OldTag}
        <4>1. unit[e] # Old => unit[e] = Old'
          BY <3>0, <3>3 DEF Old
        <4>2. CASE unit[e] = Old
          BY <1>3, <1>5, <2>3, <2>4, <3>3, <4>2
        <4>3. CASE unit[e] # Old
          BY <2>1, <2>4, <3>3, <4>1, <4>3 DEF Standing
        <4> QED
          BY <4>2, <4>3
      <3> QED
        BY <1>4, <3>1, <3>2, <3>3
    <2>5. Standing(e)'
      BY <1>5, <2>2, <2>4 DEF Standing
    <2>6. Position(list, e)'
      <3>1. e # t => Same(e)
        BY <1>0, <1>1, Frame
      <3>2. e = t => visited'[e] = visited[e] /\ pc[e] = "erase" /\ pc'[e] = "unlock"
        BY <1>0 DEF CleanupErase
      <3>3. expected' = expected /\ held' \subseteq held
        BY <1>5 DEF CleanupErase
      <3>4. CASE e # t
        BY <1>0, <1>1, <1>2, <1>5, <1>6, <2>4, <3>1, <3>3, <3>4, ErasingKeeps
      <3>5. CASE e = t
        BY <1>6, <2>1, <2>2, <3>2, <3>3, <3>5, <1>2 DEF Position, Removing
      <3> QED
        BY <3>4, <3>5
    <2> QED
      BY <2>5, <2>6
  <1>12. ASSUME NEW e \in Threads \ {t} PROVE Stale(t, e)'
    BY <1>0 DEF Stale
  <1> QED
    BY <1>0, <1>1, <1>7, <1>9, <1>10, <1>11, <1>12, HolderStep

\* An unlinked connection is deleted, or kept with those removed before, which lead
\* past it from then on.
LEMMA DropKeeps ==
    ASSUME NEW list \in Lists, Inv(list), NEW t \in Threads, Drop(t)
    PROVE  Connections(list)'
  <1>0. /\ pc[t] \in Holding /\ Step(t) /\ pc[t] = "drop"
        /\ pc'[t] = IF op[t] = "emit" THEN "release" ELSE "scan"
    BY DEF Drop, Goto, Holding, Step, Locked, Inv, TypeOK, AfterRemove
  <1>1. /\ TypeOK' /\ TypeOK /\ Calls /\ CallOK(t) /\ Linked(list) /\ Store
        /\ ~twice /\ Pointers(list, t) /\ Emptied(list)
    BY <1>0, TypeStep, HolderFinds
  <1> DEFINE n == tmp[t]
  <1>2. Unlinked = {n} /\ n \in Nodes /\ Unlinked' = {} /\ ~Clearing' /\ ~Clearing
    BY <1>0, <1>1, HolderFinds, HolderLeaves
  <1>3. /\ held = Listed \cup {n} \cup rmvd /\ Listed \cap rmvd = {} /\ n \notin Listed \cup rmvd
        /\ held \subseteq Nodes /\ Null \notin held /\ Gone = {n} \cup rmvd
        /\ next[n] \in Listed \cup {Null}
        /\ \A m \in held : next[m] \in Listed \cup {n, Null}
        /\ \A m \in Listed : next[m] \in Listed \cup {Null}
    BY <1>2, Places
  <1>4. curr[t] = next[n]
    BY <1>0, <1>1 DEF Pointers, Removing
  <1> HIDE DEF n
  <1>5. /\ prev' = prev /\ version' = version /\ op' = op /\ unit' = unit /\ curr' = curr /\ owned' = owned
        /\ expected' = expected /\ visited' = visited /\ twice' = twice
    BY DEF Drop
  <1>6. Emptied(list)' /\ ~twice'
    <2>1. \A o \in Threads : pc'[o] = pc[o] \/ pc'[o] \in {"release", "scan"}
      BY <1>0, <1>1 DEF Drop, Goto, TypeOK
    <2> QED
      BY <1>1, <1>5, <2>1 DEF Emptied
  <1>7. ASSUME NEW e \in Threads \ {t} PROVE Stale(t, e)'
    BY <1>0 DEF Stale
  <1>8. \A e \in Threads : Standing(e) /\ Position(list, e) /\ CallOK(e) /\ (e # t => Same(e))
    BY <1>0, <1>1, HolderFinds, Frame DEF Calls
  <1>9. CASE seen[t] = NoneEmits
    <2>1. held' = Listed /\ rmvd' = {} /\ next' = next /\ tag' = tag
      BY <1>3, <1>9 DEF Drop, EraseAll, Release, n
    <2>2. Listed' = Listed
      BY <1>2, <2>1 DEF Listed
    <2>3. Linked(list)'
      BY <1>1, <1>2, <1>5, <2>1, <2>2 DEF Linked
    <2>4. Store'
      BY <1>1, <1>2, <2>1, <2>2 DEF Store, Listed
    <2>5. Pointers(list, t)'
      BY <1>0, <1>3, <1>4, <1>5, <2>2 DEF Pointers, Removing
    <2>6. ASSUME NEW e \in Threads, op[e] = "emit" PROVE curr[e] \in Listed \cup {Null}
      <3>1. CASE e = t
        BY <1>3, <1>4, <3>1
      <3>2. CASE e # t
        <4>1. unit[e] \in 1..2
          BY <1>1, <1>8, <2>6 DEF TypeOK, CallOK
        <4>2. seen[t][unit[e]] = 0 /\ Stale(t, e)
          BY <1>0, <1>9, <3>2, <4>1, HolderFinds DEF NoneEmits
        <4> QED
          BY <1>0, <2>6, <4>2 DEF Stale
      <3> QED
        BY <3>1, <3>2
    <2>7. ASSUME NEW e \in Threads PROVE Standing(e)'
      BY <1>5, <2>1, <2>6 DEF Standing
    <2>8. ASSUME NEW e \in Threads PROVE Position(list, e)'
      <3>1. CASE e # t
        <4>1. held' \subseteq held /\ (op[e] = "emit" => curr[e] \in held' \cup {Null} /\ curr[e] \in Listed \cup {Null})
          BY <1>3, <2>1, <2>6
        <4> QED
          BY <1>0, <1>1, <1>2, <1>5, <1>8, <2>1, <2>2, <3>1, <4>1, ErasingKeeps
      <3>2. CASE e = t
        <4>1. ASSUME expected[e] # {}
              PROVE  op[e] = "emit" /\ \E i \in 1..(Len(list) + 1) : At(list, i) = curr[e] /\ Split(list, e, i)
          <5>1. op[e] = "emit"
            BY <1>8, <4>1 DEF Position
          <5>2. PICK i \in 1..(Len(list) + 1) : From(list, curr[e], i) /\ Split(list, e, i)
            BY <1>0, <1>8, <3>2, <4>1 DEF Position, Removing
          <5>3. curr[e] \notin Gone
            BY <1>3, <2>6, <5>1
          <5> QED
            BY <5>1, <5>2, <5>3 DEF From
        <4>2. expected[e] # {} => \E i \in 1..(Len(list) + 1) : From(list, curr[e], i)' /\ Split(list, e, i)'
          BY <1>5, <4>1 DEF From, Split
        <4> QED
          BY <1>0, <1>2, <1>5, <1>8, <2>2, <3>2, <4>1, <4>2 DEF Position, Removing
      <3> QED
        BY <3>1, <3>2
    <2> QED
      BY <1>0, <1>1, <1>6, <1>7, <2>3, <2>4, <2>5, <2>7, <2>8, HolderStep
  <1>10. CASE seen[t] # NoneEmits
    <2>1. /\ tag' = [tag EXCEPT ![n] = IF version THEN "rem_v1" ELSE "rem_v2"]
          /\ next' = [m \in DOMAIN next |-> IF m \in rmvd /\ next[m] = n THEN next[n] ELSE next[m]]
          /\ rmvd' = rmvd \cup {n} /\ cleanupFlag' = TRUE /\ held' = held
      BY <1>10 DEF Drop, Bypass, n
    <2>2. /\ \A m \in held \cup {ListHead} : next'[m] = IF m \in rmvd /\ next[m] = n THEN next[n] ELSE next[m]
          /\ \A m \in held : tag'[m] = IF m = n THEN IF version THEN "rem_v1" ELSE "rem_v2" ELSE tag[m]
      BY <1>1, <2>1 DEF TypeOK
    <2>3. Listed' = Listed
      <3>1. \A m \in held : m \in Listed <=> m # n /\ tag[m] = "active"
        BY <1>2 DEF Listed
      <3>2. \A m \in held : m \in Listed' <=> tag'[m] = "active"
        BY <1>2, <2>1 DEF Listed
      <3>3. Listed \subseteq held /\ Listed' \subseteq held
        BY <2>1 DEF Listed
      <3> QED
        BY <2>2, <3>1, <3>2, <3>3
    <2>4. Gone' = Gone
      BY <2>1, <2>3 DEF Gone
    <2>5. \A m \in Listed \cup {ListHead, n} : next'[m] = next[m]
      BY <1>1, <1>3, <2>2, NodesAssumption DEF TypeOK
    <2>6. Linked(list)'
      <3>1. \A i \in 1..Len(list) : list[i] \in Listed
        BY <1>1, ListType DEF Linked
      <3> QED
        BY <1>1, <1>2, <1>5, <2>3, <2>5, <3>1 DEF Linked
    <2>7. \A m \in rmvd' : next'[m] \in Listed \cup {Null}
      BY <1>3, <2>1, <2>2
    <2>8. Store'
      BY <1>1, <1>2, <1>3, <2>1, <2>2, <2>3, <2>7 DEF Store
    <2>9. Pointers(list, t)'
      BY <1>0, <1>3, <1>4, <1>5, <2>3 DEF Pointers, Removing
    <2>10. ASSUME NEW e \in Threads PROVE Standing(e)'
      <3>1. Old' = Old /\ OldTag' = OldTag
        BY <1>5 DEF Old, OldTag
      <3>2. tag'[n] # OldTag
        BY <1>3, <2>2 DEF OldTag
      <3>3. Standing(e)
        BY <1>8
      <3> QED
        BY <1>5, <2>1, <2>2, <3>1, <3>2, <3>3 DEF Standing
    <2>11. ASSUME NEW c \in held \cup {Null}, NEW i, From(list, c, i) PROVE From(list, c, i)'
      <3>0. At(list, i) # n
        BY <1>1, <1>3, ListType DEF At, Linked
      <3>1. CASE At(list, i) = c
        BY <3>1 DEF From
      <3>2. CASE c \in Gone /\ At(list, i) = next[c]
        BY <2>2, <2>4, <3>0, <3>2 DEF From, Gone
      <3>3. CASE c \in Gone /\ next[c] \in Gone /\ At(list, i) = next[next[c]]
        <4>1. next[c] = n /\ c \in rmvd /\ c \in held
          BY <1>3, <3>3
        <4> QED
          BY <2>2, <2>4, <3>3, <4>1 DEF From
      <3> QED
        BY <2>11, <3>1, <3>2, <3>3 DEF From
    <2>12. ASSUME NEW c \in held, NEW i, From(list, next[c], i) PROVE From(list, next[c], i)'
      <3>1. CASE c \in rmvd /\ next[c] = n
        <4>1. At(list, i) = next[n]
          BY <1>1, <1>3, <2>12, <3>1, ListType DEF From, At, Linked
        <4> QED
          BY <2>2, <3>1, <4>1 DEF From
      <3>2. CASE ~(c \in rmvd /\ next[c] = n)
        <4>1. PICK d \in held \cup {Null} : d = next[c] /\ d = next'[c]
          BY <1>3, <2>2, <3>2
        <4>2. From(list, d, i)'
          BY <2>11, <2>12, <4>1
        <4> QED
          BY <4>1, <4>2 DEF From
      <3> QED
        BY <3>1, <3>2
    <2>13. ASSUME NEW e \in Threads PROVE Position(list, e)'
      <3>0. /\ Position(list, e) /\ (e # t => pc'[e] = pc[e]) /\ expected'[e] = expected[e]
            /\ visited'[e] = visited[e] /\ op'[e] = op[e] /\ curr'[e] = curr[e]
            /\ (e = t => pc[e] = "drop" /\ pc'[e] \in {"release", "scan"})
        BY <1>0, <1>5, <1>8 DEF Same
      <3>1. ASSUME NEW i PROVE Split(list, e, i)' <=> Split(list, e, i)
        BY <3>0 DEF Split
      <3>2. ASSUME expected[e] # {}, pc'[e] \in Removing \cup {"visit", "release"}
            PROVE  \E i \in 1..(Len(list) + 1) : From(list, curr[e], i)' /\ Split(list, e, i)'
        <4>1. pc[e] \in Removing \cup {"visit", "release"} /\ curr[e] \in held \cup {Null}
          BY <1>8, <3>0, <3>2 DEF Position, Standing, Removing
        <4>2. PICK i \in 1..(Len(list) + 1) : From(list, curr[e], i) /\ Split(list, e, i)
          BY <3>0, <3>2, <4>1 DEF Position
        <4> QED
          BY <2>11, <3>0, <3>1, <4>1, <4>2 DEF From
      <3>3. ASSUME expected[e] # {}, pc'[e] = "next"
            PROVE  \E i \in 1..(Len(list) + 1) : From(list, next[curr[e]], i)' /\ Split(list, e, i)'
        <4>1. pc[e] = "next" /\ curr[e] \in held
          BY <1>8, <3>0, <3>3, NodesAssumption DEF Position, Standing, CallOK
        <4>2. PICK i \in 1..(Len(list) + 1) : From(list, next[curr[e]], i) /\ Split(list, e, i)
          BY <3>0, <3>3, <4>1 DEF Position
        <4> QED
          <5>1. PICK c \in held : c = curr[e] /\ c = curr'[e]
            BY <3>0, <4>1
          <5>2. From(list, next[c], i)'
            BY <2>12, <4>2, <5>1
          <5> QED
            BY <3>1, <4>2, <5>1, <5>2 DEF From
      <3> QED
        BY <1>2, <2>3, <3>0, <3>2, <3>3 DEF Position, Removing
    <2> QED
      BY <1>0, <1>1, <1>6, <1>7, <2>6, <2>8, <2>9, <2>10, <2>13, HolderStep
  <1> QED
    BY <1>9, <1>10

\* connect appends a connection: emissions that were at the end of the list meet it.
LEMMA ConnectKeeps ==
    ASSUME NEW list \in Lists, Inv(list), NEW t \in Threads, ScanEnds(t), op[t] = "connect"
    PROVE  \E l \in Lists : Connections(l)'
  <1>0. /\ pc[t] \in Holding /\ Step(t) /\ pc[t] = "scan" /\ pc'[t] \in {"cleanup", "unlock"}
    BY DEF ScanEnds, Goto, Holding, Step, Locked, Inv, TypeOK
  <1>1. /\ TypeOK' /\ TypeOK /\ Calls /\ CallOK(t) /\ Linked(list) /\ Store
        /\ ~twice /\ Pointers(list, t) /\ Emptied(list) /\ Ending
    BY <1>0, TypeStep, HolderFinds
  <1>2. Unlinked = {} /\ Unlinked' = {} /\ ~Clearing' /\ ~Clearing
    BY <1>0, <1>1, HolderFinds, HolderLeaves
  <1>3. /\ held = Listed \cup rmvd /\ Listed \cap rmvd = {} /\ Gone = rmvd
        /\ held \subseteq Nodes /\ Null \notin held
        /\ \A m \in held : next[m] \in Listed \cup {Null}
    BY <1>2, Places
  <1>4. PICK n \in Nodes \ held :
           /\ next' = [next EXCEPT ![Tail_] = n, ![n] = Null]
           /\ prev' = [prev EXCEPT ![n] = Tail_]
           /\ tag' = [tag EXCEPT ![n] = "active"]
           /\ held' = held \cup {n}
    <2>1. PICK n \in Nodes \ held : visited[t] = {n}
      BY <1>0, <1>1 DEF CallOK
    <2> QED
      BY <2>1 DEF ScanEnds
  <1>5. /\ rmvd' = rmvd /\ version' = version /\ cleanupFlag' = cleanupFlag /\ op' = op /\ unit' = unit
        /\ curr' = curr /\ owned' = owned /\ expected' = expected /\ visited' = visited /\ twice' = twice
        /\ execs' = execs
    BY DEF ScanEnds, stateVars
  <1>6. /\ Len(list) \in Nat /\ list \in Seq(Nodes) /\ n # Null /\ n # ListHead /\ Null # ListHead
        /\ \A i \in 1..Len(list) : list[i] \in Listed /\ list[i] # n /\ list[i] \in Nodes /\ list[i] # ListHead
        /\ Range(list) = {list[i] : i \in 1..Len(list)} /\ Range(list) = Listed
    BY <1>1, <1>3, ListType, NodesAssumption DEF Linked
  <1>7. Tail_ = IF list = << >> THEN ListHead ELSE list[Len(list)]
    BY <1>1, <1>2, TailIs
  <1>8. /\ \A m \in Nodes \cup {ListHead} : next'[m] = IF m = n THEN Null ELSE IF m = Tail_ THEN n ELSE next[m]
        /\ \A m \in Nodes : prev'[m] = IF m = n THEN Tail_ ELSE prev[m]
        /\ \A m \in Nodes : tag'[m] = IF m = n THEN "active" ELSE tag[m]
    BY <1>1, <1>4 DEF TypeOK
  <1> DEFINE l == Append(list, n)
  <1>9. /\ l \in Seq(Nodes) /\ Len(l) = Len(list) + 1 /\ l[Len(list) + 1] = n
        /\ \A i \in 1..Len(list) : l[i] = list[i]
    BY <1>6
  <1> HIDE DEF l
  <1>10. \A i, j \in 1..Len(l) : l[i] = l[j] => i = j
    <2>1. \A i, j \in 1..Len(list) : list[i] = list[j] => i = j
      BY <1>1 DEF Linked
    <2> QED
      BY <1>6, <1>9, <2>1
  <1>11. l \in Lists
    BY <1>9, <1>10, ListsAre
  <1>12. Listed' = Listed \cup {n}
    <2>1. \A m \in held' : m \in Listed' <=> tag'[m] = "active"
      BY <1>2 DEF Listed
    <2>2. \A m \in held : m \in Listed <=> tag[m] = "active"
      BY <1>2 DEF Listed
    <2>3. Listed \subseteq held /\ Listed' \subseteq held'
      BY DEF Listed
    <2> QED
      BY <1>3, <1>4, <1>8, <2>1, <2>2, <2>3
  <1>13. Gone' = Gone
    BY <1>4, <1>12 DEF Gone
  <1>14. Linked(l)'
    <2>1. Range(l) = {l[i] : i \in 1..Len(l)}
      BY <1>11, ListType
    <2>2. Range(l) = Listed'
      BY <1>6, <1>9, <1>12, <2>1
    <2>3. ASSUME NEW i \in 1..Len(l)
          PROVE  /\ next'[l[i]] = At(l, i + 1)
                 /\ prev'[l[i]] = IF i = 1 THEN ListHead ELSE l[i - 1]
      <3>1. CASE i = Len(list) + 1
        <4>1. l[i] = n /\ At(l, i + 1) = Null
          BY <1>6, <1>9, <3>1 DEF At
        <4>2. Tail_ = IF i = 1 THEN ListHead ELSE l[i - 1]
          BY <1>6, <1>7, <1>9, <3>1, ListType
        <4> QED
          BY <1>8, <4>1, <4>2
      <3>2. CASE i \in 1..Len(list)
        <4>1. l[i] = list[i] /\ list[i] # n /\ list[i] \in Nodes
          BY <1>6, <1>9, <3>2
        <4>2. prev'[l[i]] = prev[list[i]] /\ prev[list[i]] = IF i = 1 THEN ListHead ELSE list[i - 1]
          BY <1>1, <1>8, <3>2, <4>1 DEF Linked
        <4>3. i # 1 => list[i - 1] = l[i - 1]
          BY <1>6, <1>9, <3>2
        <4>4. next[list[i]] = At(list, i + 1)
          BY <1>1, <3>2 DEF Linked
        <4>5. CASE i = Len(list)
          <5>1. list[i] = Tail_ /\ At(l, i + 1) = n
            BY <1>6, <1>7, <1>9, <3>2, <4>5, ListType DEF At
          <5> QED
            BY <1>8, <4>1, <4>2, <4>3, <5>1
        <4>6. CASE i # Len(list)
          <5>1. list[i] # Tail_ /\ At(l, i + 1) = At(list, i + 1)
            BY <1>1, <1>6, <1>7, <1>9, <3>2, <4>6, ListType DEF At, Linked
          <5> QED
            BY <1>8, <4>1, <4>2, <4>3, <4>4, <5>1
        <4> QED
          BY <4>5, <4>6
      <3> QED
        BY <1>6, <1>9, <3>1, <3>2
    <2>4. next'[ListHead] = At(l, 1)
      <3>1. CASE list = << >>
        BY <1>6, <1>7, <1>8, <1>9, <3>1, ListType DEF At
      <3>2. CASE list # << >>
        <4>1. ListHead # Tail_ /\ At(l, 1) = At(list, 1)
          BY <1>6, <1>7, <1>9, <3>2, ListType DEF At
        <4> QED
          BY <1>1, <1>2, <1>6, <1>8, <4>1 DEF Linked
      <3> QED
        BY <3>1, <3>2
    <2> QED
      BY <1>2, <1>10, <2>2, <2>3, <2>4 DEF Linked
  <1>15. \A m \in rmvd : next'[m] = next[m] /\ m # Tail_ /\ m # n /\ tag'[m] = tag[m]
    <2>1. ASSUME NEW m \in rmvd PROVE m # Tail_ /\ m # n /\ m \in Nodes
      BY <1>1, <1>2, <1>3, <1>4, TailIs, NodesAssumption
    <2> QED
      BY <1>8, <2>1
  <1>16. Store'
    <2>1. \A m \in held \ rmvd : tag'[m] = "active"
      BY <1>1, <1>3, <1>8 DEF Store
    <2>2. tag'[n] = "active" /\ n \notin rmvd
      BY <1>3, <1>8
    <2>3. \A m \in rmvd : tag'[m] # "active" /\ next'[m] \in Listed' \cup {Null}
      BY <1>1, <1>3, <1>12, <1>15 DEF Store
    <2> QED
      BY <1>1, <1>2, <1>4, <1>5, <2>1, <2>2, <2>3 DEF Store
  <1>17. Emptied(l)' /\ ~twice' /\ Pointers(l, t)'
    <2>1. owned /\ \A o \in Threads : op[o] # "free"
      BY <1>1 DEF Ending
    <2> QED
      BY <1>0, <1>1, <1>5, <2>1 DEF Emptied, Pointers, Removing
  <1>18. ASSUME NEW e \in Threads \ {t} PROVE Stale(t, e)'
    BY <1>0 DEF Stale
  <1>19. ASSUME NEW e \in Threads PROVE Standing(e)'
    <2>1. Standing(e)
      BY <1>0, HolderFinds
    <2>2. Old' = Old /\ OldTag' = OldTag
      BY <1>5 DEF Old, OldTag
    <2> QED
      BY <1>4, <1>5, <1>15, <2>1, <2>2 DEF Standing
  <1> DEFINE Shift(i) == IF i = Len(list) + 1 THEN Len(list) + 2 ELSE i
  <1>20. ASSUME NEW c \in held \cup {Null}, NEW i \in 1..(Len(list) + 1), From(list, c, i)
         PROVE  From(l, c, Shift(i))'
    <2>1. CASE i = Len(list) + 1
      <3>1. At(list, i) = Null /\ At(l, Shift(i)) = Null
        BY <1>6, <1>9, <2>1 DEF At
      <3>2. c = Null \/ (c \in Gone /\ next[c] = Null)
        BY <1>3, <1>20, <3>1 DEF From
      <3> QED
        BY <1>3, <1>13, <1>15, <3>1, <3>2 DEF From
    <2>2. CASE i # Len(list) + 1
      <3>1. At(list, i) = At(l, Shift(i))
        BY <1>6, <1>9, <2>2 DEF At
      <3>2. At(list, i) = c \/ (c \in Gone /\ At(list, i) = next[c])
        BY <1>3, <1>20 DEF From
      <3> QED
        BY <1>3, <1>13, <1>15, <3>1, <3>2 DEF From
    <2> QED
      BY <2>1, <2>2
  <1>21. ASSUME NEW e \in Threads, expected[e] \subseteq Listed, NEW i \in 1..(Len(list) + 1), Split(list, e, i),
                NEW k \in {i, Shift(i)}
         PROVE  Split(l, e, k)'
    <2>1. ASSUME NEW j \in 1..Len(l), l[j] \in expected[e] PROVE l[j] \in visited[e] <=> j < k
      <3>1. j # Len(list) + 1
        BY <1>3, <1>9, <1>21, <2>1
      <3>2. j \in 1..Len(list) /\ l[j] = list[j]
        BY <1>6, <1>9, <3>1
      <3>3. list[j] \in visited[e] <=> j < i
        BY <1>21, <2>1, <3>2 DEF Split
      <3>4. j < i <=> j < k
        BY <1>6, <3>2
      <3> QED
        BY <3>2, <3>3, <3>4
    <2> QED
      BY <1>5, <2>1 DEF Split
  <1>22. ASSUME NEW i \in 1..(Len(list) + 1) PROVE Shift(i) \in 1..(Len(l) + 1) /\ i \in 1..(Len(l) + 1)
    BY <1>6, <1>9
  <1> HIDE DEF Shift
  <1>23. ASSUME NEW e \in Threads PROVE Position(l, e)'
    <2>0. /\ Position(list, e) /\ Standing(e) /\ CallOK(e) /\ expected'[e] = expected[e]
          /\ visited'[e] = visited[e] /\ op'[e] = op[e] /\ curr'[e] = curr[e]
          /\ expected[e] \subseteq Listed
      BY <1>0, <1>1, <1>5, HolderFinds DEF Calls, Position
    <2>1. CASE e = t
      <3>1. expected[e] = {} /\ pc'[e] \in {"cleanup", "unlock"}
        BY <1>0, <2>0, <2>1 DEF Position
      <3> QED
        BY <2>0, <3>1 DEF Position
    <2>2. CASE e # t
      <3>0. pc'[e] = pc[e]
        BY <1>0, <1>1, <2>2, Frame DEF Same
      <3>1. ASSUME expected[e] # {}, pc[e] \in Removing \cup {"visit", "release"}
            PROVE  \E k \in 1..(Len(l) + 1) : From(l, curr[e], k)' /\ Split(l, e, k)'
        <4>1. PICK i \in 1..(Len(list) + 1) : From(list, curr[e], i) /\ Split(list, e, i)
          BY <2>0, <3>1 DEF Position
        <4>2. PICK c \in held \cup {Null} : c = curr[e] /\ c = curr'[e]
          BY <2>0, <3>1 DEF Standing, Position
        <4>3. PICK k : k = Shift(i)
          OBVIOUS
        <4>4. From(l, c, k)' /\ Split(l, e, k)' /\ k \in 1..(Len(l) + 1)
          BY <1>20, <1>21, <1>22, <2>0, <4>1, <4>2, <4>3
        <4> QED
          BY <4>2, <4>4 DEF From
      <3>2. ASSUME expected[e] # {}, pc[e] = "next"
            PROVE  \E k \in 1..(Len(l) + 1) : From(l, next[curr[e]], k)' /\ Split(l, e, k)'
        <4>1. PICK i \in 1..(Len(list) + 1) : From(list, next[curr[e]], i) /\ Split(list, e, i)
          BY <2>0, <3>2 DEF Position
        <4>2. curr[e] \in held /\ curr[e] \in Nodes /\ curr[e] # n
          BY <1>3, <2>0, <3>2, NodesAssumption DEF Standing, Position, CallOK
        <4>3. CASE curr[e] = Tail_
          <5>1. next'[curr[e]] = n /\ next[curr[e]] = Null
            BY <1>1, <1>2, <1>8, <4>2, <4>3, TailIs
          <5>2. At(list, i) = Null
            BY <1>3, <4>1, <5>1 DEF From
          <5>3. i = Len(list) + 1
            BY <1>6, <5>2, ListType, NodesAssumption DEF At
          <5>4. At(l, i) = n
            BY <1>6, <1>9, <5>3 DEF At
          <5>5. Split(l, e, i)' /\ i \in 1..(Len(l) + 1)
            BY <1>21, <1>22, <2>0, <4>1
          <5>6. From(l, next[curr[e]], i)'
            BY <2>0, <5>1, <5>4 DEF From
          <5> QED
            BY <5>5, <5>6
        <4>4. CASE curr[e] # Tail_
          <5>1. PICK c \in held \cup {Null} : c = next[curr[e]] /\ c = next'[curr'[e]]
            BY <1>3, <1>8, <2>0, <4>2, <4>4
          <5>2. PICK k : k = Shift(i)
            OBVIOUS
          <5>3. From(l, c, k)' /\ Split(l, e, k)' /\ k \in 1..(Len(l) + 1)
            BY <1>20, <1>21, <1>22, <2>0, <4>1, <5>1, <5>2
          <5> QED
            BY <5>1, <5>3 DEF From
        <4> QED
          BY <4>3, <4>4
      <3> QED
        BY <1>2, <1>12, <2>0, <3>0, <3>1, <3>2 DEF Position
    <2> QED
      BY <2>1, <2>2
  <1>24. Connections(l)'
    BY <1>0, <1>1, <1>14, <1>16, <1>17, <1>18, <1>19, <1>23, HolderStep
  <1> QED
    BY <1>11, <1>24

\* The list without its k-th connection
Without(list, k) == [j \in 1..(Len(list) - 1) |-> IF j < k THEN list[j] ELSE list[j + 1]]

\* Where the others are then
LEMMA WithoutIs ==
    ASSUME NEW list \in Lists, NEW k \in 1..Len(list),
           \A i, j \in 1..Len(list) : list[i] = list[j] => i = j
    PROVE  /\ Without(list, k) \in Lists /\ Len(Without(list, k)) = Len(list) - 1
           /\ \A j \in Nat \ {0} : At(Without(list, k), j) = At(list, IF j < k THEN j ELSE j + 1)
           /\ \A i, j \in 1..(Len(list) - 1) : Without(list, k)[i] = Without(list, k)[j] => i = j
           /\ Range(Without(list, k)) = Range(list) \ {list[k]}
  <1>0. /\ list \in Seq(Nodes) /\ Len(list) \in Nat /\ \A i \in 1..Len(list) : list[i] \in Nodes
        /\ Range(list) = {list[i] : i \in 1..Len(list)} /\ k \in Nat /\ Len(list) - 1 \in Nat
    BY ListType
  <1> DEFINE l == Without(list, k)
  <1>1. l \in [1..(Len(list) - 1) -> Nodes]
    BY <1>0 DEF Without
  <1>2. l \in Seq(Nodes) /\ Len(l) = Len(list) - 1
    BY <1>0, <1>1
  <1>3. \A j \in 1..(Len(list) - 1) : l[j] = IF j < k THEN list[j] ELSE list[j + 1]
    BY DEF Without
  <1> HIDE DEF l
  <1>4. ASSUME NEW i \in 1..(Len(list) - 1), NEW j \in 1..(Len(list) - 1), l[i] = l[j] PROVE i = j
    <2>1. PICK a \in 1..Len(list) : a = (IF i < k THEN i ELSE i + 1) /\ l[i] = list[a]
      BY <1>0, <1>3
    <2>2. PICK b \in 1..Len(list) : b = (IF j < k THEN j ELSE j + 1) /\ l[j] = list[b]
      BY <1>0, <1>3
    <2>3. a = b
      BY <1>4, <2>1, <2>2
    <2> QED
      BY <1>0, <2>1, <2>2, <2>3
  <1>5. l \in Lists
    BY <1>2, <1>4, ListsAre
  <1>6. ASSUME NEW j \in Nat \ {0} PROVE At(l, j) = At(list, IF j < k THEN j ELSE j + 1)
    BY <1>0, <1>2, <1>3 DEF At
  <1>7. Range(l) = Range(list) \ {list[k]}
    <2>0. Range(l) = {l[i] : i \in 1..(Len(list) - 1)}
      BY <1>2, <1>5, ListType
    <2>1. ASSUME NEW j \in 1..(Len(list) - 1) PROVE l[j] \in Range(list) \ {list[k]}
      <3>1. PICK a \in 1..Len(list) : a = (IF j < k THEN j ELSE j + 1) /\ l[j] = list[a]
        BY <1>0, <1>3
      <3>2. a # k
        BY <1>0, <3>1
      <3> QED
        BY <1>0, <3>1, <3>2
    <2>2. ASSUME NEW a \in 1..Len(list), list[a] # list[k] PROVE \E j \in 1..(Len(list) - 1) : l[j] = list[a]
      <3>1. CASE a < k
        BY <1>0, <1>3, <3>1
      <3>2. CASE a > k
        <4>1. a - 1 \in 1..(Len(list) - 1) /\ ~(a - 1 < k) /\ (a - 1) + 1 = a
          BY <1>0, <3>2
        <4> QED
          BY <1>3, <4>1
      <3> QED
        BY <1>0, <2>2, <3>1, <3>2
    <2>3. ASSUME NEW x \in Range(list) \ {list[k]} PROVE x \in Range(l)
      BY <1>0, <2>0, <2>2
    <2>4. ASSUME NEW x \in Range(l) PROVE x \in Range(list) \ {list[k]}
      BY <2>0, <2>1
    <2> QED
      BY <2>3, <2>4
  <1> QED
    BY <1>2, <1>4, <1>5, <1>6, <1>7 DEF l

\* A connection leaves the list: emissions that stand on it find the rest, those that
\* were before it do not meet it.
LEMMA UnlinkKeeps ==
    ASSUME NEW list \in Lists, Inv(list), NEW t \in Threads, Unlink(t)
    PROVE  \E l \in Lists : Connections(l)'
  <1>0. /\ pc[t] \in Holding /\ Step(t) /\ pc[t] = "unlink" /\ pc'[t] = "count"
    BY DEF Unlink, Goto, Holding, Step, Locked, Inv, TypeOK
  <1>1. /\ TypeOK' /\ TypeOK /\ Calls /\ CallOK(t) /\ Linked(list) /\ Store
        /\ ~twice /\ Pointers(list, t) /\ Emptied(list) /\ Ending
    BY <1>0, TypeStep, HolderFinds
  <1>2. PICK n \in Nodes : n = tmp[t]
    BY <1>0, <1>1 DEF CallOK, Removing, TypeOK
  <1>3. Unlinked = {} /\ Unlinked' = {n} /\ ~Clearing' /\ ~Clearing /\ tmp' = tmp
    <2>1. tmp' = tmp /\ tmp'[t] # Null
      BY <1>2, NodesAssumption DEF Unlink
    <2> QED
      BY <1>0, <1>1, <1>2, <2>1, HolderFinds, HolderLeaves
  <1>4. /\ held = Listed \cup rmvd /\ Listed \cap rmvd = {} /\ Gone = rmvd
        /\ held \subseteq Nodes /\ Null \notin held
        /\ \A m \in held : next[m] \in Listed \cup {Null}
    BY <1>3, Places
  <1>5. n \in Listed /\ curr[t] = next[n] /\ n \notin rmvd /\ n \in held
    BY <1>0, <1>1, <1>2, <1>4 DEF Pointers, Removing
  <1>6. /\ held' = held /\ rmvd' = rmvd /\ tag' = tag /\ cleanupFlag' = cleanupFlag /\ version' = version
        /\ op' = op /\ unit' = unit /\ curr' = curr /\ owned' = owned /\ visited' = visited /\ twice' = twice
        /\ \A e \in Threads : expected'[e] = expected[e] \ {n}
    BY <1>2 DEF Unlink, stateVars
  <1>7. /\ Len(list) \in Nat /\ Null # ListHead
        /\ \A i \in 1..Len(list) : list[i] \in Listed /\ list[i] \in Nodes /\ list[i] # ListHead /\ list[i] # Null
        /\ \A i, j \in 1..Len(list) : list[i] = list[j] => i = j
        /\ Range(list) = {list[i] : i \in 1..Len(list)} /\ Range(list) = Listed
    BY <1>1, ListType, NodesAssumption DEF Linked
  <1>8. PICK k \in 1..Len(list) : n = list[k]
    BY <1>5, <1>7
  <1>9. /\ next[n] = At(list, k + 1)
        /\ prev[n] = IF k = 1 THEN ListHead ELSE list[k - 1]
    BY <1>1, <1>8 DEF Linked
  <1>10. /\ \A m \in Nodes \cup {ListHead} : next'[m] = IF m = prev[n] THEN next[n] ELSE next[m]
         /\ \A m \in Nodes : prev'[m] = IF next[n] \in Nodes /\ m = next[n] THEN prev[n] ELSE prev[m]
    BY <1>1, <1>2 DEF TypeOK, Unlink
  <1> DEFINE l == Without(list, k)
  <1>11. /\ l \in Lists /\ Len(l) = Len(list) - 1
         /\ \A j \in Nat \ {0} : At(l, j) = At(list, IF j < k THEN j ELSE j + 1)
         /\ \A i, j \in 1..Len(l) : l[i] = l[j] => i = j
         /\ Range(l) = Listed \ {n}
    BY <1>7, <1>8, WithoutIs
  <1> HIDE DEF l
  <1>n. /\ Len(list) \in Nat /\ Len(l) \in Nat /\ Len(l) + 1 = Len(list)
        /\ k \in Nat /\ 1 <= k /\ k <= Len(list)
    BY <1>7, <1>11
  <1>12. \A j \in 1..Len(l) : l[j] = (IF j < k THEN list[j] ELSE list[j + 1]) /\ l[j] = At(l, j)
    <2> SUFFICES ASSUME NEW j \in 1..Len(l)
                 PROVE  l[j] = (IF j < k THEN list[j] ELSE list[j + 1]) /\ l[j] = At(l, j)
      OBVIOUS
    <2>1. l[j] = At(l, j) /\ j \in Nat \ {0}
      BY <1>n DEF At
    <2>2. At(l, j) = At(list, IF j < k THEN j ELSE j + 1)
      BY <1>11, <2>1
    <2>3. (IF j < k THEN j ELSE j + 1) \in 1..Len(list)
      BY <1>n
    <2> QED
      BY <2>1, <2>2, <2>3 DEF At
  <1>13. Listed' = Listed \ {n} /\ Gone' = Gone \cup {n}
    BY <1>3, <1>5, <1>6 DEF Listed, Gone
  <1>14. prev[n] \in Listed \cup {ListHead} /\ prev[n] # n
    BY <1>7, <1>8, <1>9, NodesAssumption
  <1>15. /\ next'[n] = next[n] /\ next[n] # n /\ next[n] \in Listed \cup {Null}
         /\ \A m \in rmvd : next'[m] = next[m] /\ next[m] \in Listed \cup {Null}
    <2>1. next[n] # n
      BY <1>7, <1>8, <1>9 DEF At
    <2>2. \A m \in rmvd : m # prev[n] /\ m \in Nodes
      BY <1>4, <1>14, NodesAssumption
    <2> QED
      BY <1>4, <1>5, <1>10, <1>14, <2>1, <2>2
  <1>16. At(l, k) = next[n]
    BY <1>7, <1>9, <1>11
  <1>17. Linked(l)'
    <2>1. ASSUME NEW j \in 1..Len(l) PROVE next'[l[j]] = At(l, j + 1)
      <3>0. At(l, j + 1) = At(list, IF j + 1 < k THEN j + 1 ELSE j + 2)
        BY <1>7, <1>11
      <3>1. CASE j < k
        <4>1. l[j] = list[j] /\ j \in 1..Len(list)
          BY <1>7, <1>11, <1>12, <3>1
        <4>2. CASE j + 1 = k
          <5>1. list[j] = prev[n]
            BY <1>7, <1>9, <4>1, <4>2
          <5>2. At(l, j + 1) = next[n]
            BY <1>16, <4>2
          <5> QED
            BY <1>7, <1>10, <4>1, <5>1, <5>2
        <4>3. CASE j + 1 < k
          <5>1. list[j] # prev[n]
            BY <1>7, <1>9, <4>1, <4>3
          <5>2. next[list[j]] = At(list, j + 1)
            BY <1>1, <4>1 DEF Linked
          <5> QED
            BY <1>7, <1>10, <3>0, <4>1, <4>3, <5>1, <5>2
        <4> QED
          BY <1>7, <3>1, <4>2, <4>3
      <3>2. CASE ~(j < k)
        <4>1. l[j] = list[j + 1] /\ j + 1 \in 1..Len(list)
          BY <1>7, <1>11, <1>12, <3>2
        <4>2. list[j + 1] # prev[n]
          BY <1>7, <1>9, <3>2, <4>1
        <4>3. next[list[j + 1]] = At(list, (j + 1) + 1)
          BY <1>1, <4>1 DEF Linked
        <4>4. (j + 1) + 1 = j + 2 /\ ~(j + 1 < k)
          BY <1>7, <3>2
        <4> QED
          BY <1>7, <1>10, <3>0, <4>1, <4>2, <4>3, <4>4
      <3> QED
        BY <3>1, <3>2
    <2>2. ASSUME NEW j \in 1..Len(l) PROVE prev'[l[j]] = IF j = 1 THEN ListHead ELSE l[j - 1]
      <3>1. CASE j < k
        <4>1. l[j] = list[j] /\ j \in 1..Len(list) /\ (j # 1 => l[j - 1] = list[j - 1])
          BY <1>7, <1>11, <1>12, <3>1
        <4>2. list[j] # next[n]
          BY <1>7, <1>9, <3>1, <4>1 DEF At
        <4> QED
          BY <1>1, <1>7, <1>10, <4>1, <4>2 DEF Linked
      <3>2. CASE j = k
        <4>1. l[j] = list[j + 1] /\ j + 1 \in 1..Len(list) /\ (j # 1 => l[j - 1] = list[j - 1])
          BY <1>12, <1>n, <3>2
        <4>2. list[j + 1] = next[n]
          BY <1>9, <3>2, <4>1 DEF At
        <4> QED
          BY <1>7, <1>9, <1>10, <3>2, <4>1, <4>2
      <3>3. CASE j > k
        <4>0. /\ j + 1 \in 1..Len(list) /\ j # 1 /\ ~(j < k)
              /\ j - 1 \in 1..Len(l) /\ ~(j - 1 < k) /\ (j - 1) + 1 = j
          BY <1>n, <3>3
        <4>1. l[j] = list[j + 1] /\ j + 1 \in 1..Len(list) /\ l[j - 1] = list[j] /\ j # 1
          BY <1>12, <4>0
        <4>2. list[j + 1] # next[n]
          BY <1>7, <1>9, <3>3, <4>1 DEF At
        <4>3. prev[list[j + 1]] = list[(j + 1) - 1] /\ (j + 1) - 1 = j
          BY <1>1, <1>7, <4>1 DEF Linked
        <4> QED
          BY <1>7, <1>10, <4>1, <4>2, <4>3
      <3> QED
        BY <1>7, <1>11, <3>1, <3>2, <3>3
    <2>3. next'[ListHead] = At(l, 1)
      <3>0. next[ListHead] = At(list, 1)
        BY <1>1, <1>3 DEF Linked
      <3>1. CASE k = 1
        BY <1>9, <1>10, <1>16, <3>1
      <3>2. CASE k # 1
        <4>1. ListHead # prev[n]
          BY <1>7, <1>9, <3>2
        <4>2. At(l, 1) = At(list, 1)
          BY <1>7, <1>11, <3>2
        <4> QED
          BY <1>10, <3>0, <4>1, <4>2
      <3> QED
        BY <3>1, <3>2
    <2> QED
      BY <1>3, <1>11, <1>13, <2>1, <2>2, <2>3 DEF Linked
  <1>18. Store'
    BY <1>1, <1>3, <1>5, <1>6, <1>13, <1>15 DEF Store
  <1>19. Emptied(l)' /\ ~twice' /\ Pointers(l, t)'
    <2>1. owned /\ \A o \in Threads : op[o] = "free" => pc[o] \notin {"unlock", "free"}
      BY <1>1, <1>7, <1>8, ListType DEF Emptied
    <2>2. \A o \in Threads : pc'[o] = pc[o] \/ pc'[o] = "count"
      BY <1>0, <1>1 DEF Unlink, Goto, TypeOK
    <2>3. Emptied(l)'
      BY <1>6, <2>1, <2>2 DEF Emptied
    <2>4. Pointers(l, t)'
      BY <1>0, <1>2, <1>3, <1>5, <1>6, <1>15 DEF Pointers, Removing
    <2> QED
      BY <1>1, <1>6, <2>3, <2>4
  <1>20. ASSUME NEW e \in Threads \ {t} PROVE Stale(t, e)'
    BY <1>0 DEF Stale
  <1>21. ASSUME NEW e \in Threads PROVE Standing(e)'
    <2>1. Standing(e)
      BY <1>0, HolderFinds
    <2> QED
      BY <1>6, <2>1 DEF Standing, Old, OldTag
  <1> DEFINE Shift(i) == IF i <= k THEN i ELSE i - 1
  <1>22. ASSUME NEW i \in 1..(Len(list) + 1)
         PROVE  /\ Shift(i) \in 1..(Len(l) + 1)
                /\ i # k => At(l, Shift(i)) = At(list, i)
    <2>1. Shift(i) \in 1..(Len(l) + 1) /\ Shift(i) \in Nat \ {0}
      BY <1>n
    <2>2. At(l, Shift(i)) = At(list, IF Shift(i) < k THEN Shift(i) ELSE Shift(i) + 1)
      BY <1>11, <2>1
    <2>3. i # k => (IF Shift(i) < k THEN Shift(i) ELSE Shift(i) + 1) = i
      BY <1>n
    <2> QED
      BY <2>1, <2>2, <2>3
  <1>23. ASSUME NEW c \in held \cup {Null}, NEW i \in 1..(Len(list) + 1), From(list, c, i)
         PROVE  From(l, c, Shift(i))'
    <2>0. At(list, i) = c \/ (c \in rmvd /\ At(list, i) = next[c])
      BY <1>4, <1>23 DEF From
    <2>1. CASE i = k
      <3>1. At(list, i) = n /\ At(l, Shift(i)) = next'[n] /\ n \in Gone'
        BY <1>7, <1>8, <1>13, <1>15, <1>16, <2>1 DEF At
      <3>2. CASE c = n
        BY <3>1, <3>2 DEF From
      <3>3. CASE c \in rmvd /\ n = next[c]
        <4>1. next'[c] = n /\ c \in Gone'
          BY <1>4, <1>13, <1>15, <3>3
        <4> QED
          BY <3>1, <4>1 DEF From
      <3> QED
        BY <2>0, <3>1, <3>2, <3>3
    <2>2. CASE i # k
      <3>1. At(l, Shift(i)) = At(list, i)
        BY <1>22, <2>2
      <3>2. c \in rmvd => next'[c] = next[c] /\ c \in Gone'
        BY <1>4, <1>13, <1>15
      <3> QED
        BY <2>0, <3>1, <3>2 DEF From
    <2> QED
      BY <2>1, <2>2
  <1>24. ASSUME NEW e \in Threads, NEW i \in 1..(Len(list) + 1), Split(list, e, i)
         PROVE  Split(l, e, Shift(i))'
    <2>1. ASSUME NEW j \in 1..Len(l), l[j] \in expected[e] PROVE l[j] \in visited[e] <=> j < Shift(i)
      <3>0. (IF j < k THEN j ELSE j + 1) \in 1..Len(list)
        BY <1>n
      <3>1. PICK a \in 1..Len(list) : a = (IF j < k THEN j ELSE j + 1) /\ l[j] = list[a]
        BY <1>12, <3>0
      <3>2. list[a] \in visited[e] <=> a < i
        BY <1>24, <2>1, <3>1 DEF Split
      <3>3. a < i <=> j < Shift(i)
        BY <1>n, <3>1
      <3> QED
        BY <3>1, <3>2, <3>3
    <2> QED
      BY <1>6, <2>1 DEF Split
  <1> HIDE DEF Shift
  <1>25. ASSUME NEW e \in Threads PROVE Position(l, e)'
    <2>0. /\ Position(list, e) /\ Standing(e) /\ CallOK(e) /\ expected'[e] = expected[e] \ {n}
          /\ visited'[e] = visited[e] /\ op'[e] = op[e] /\ curr'[e] = curr[e]
          /\ (pc'[e] = pc[e] \/ (pc[e] = "unlink" /\ pc'[e] = "count"))
      BY <1>0, <1>1, <1>6, HolderFinds DEF Calls, Unlink, Goto, TypeOK
    <2>1. ASSUME expected'[e] # {}, pc'[e] \in Removing \cup {"visit", "release"}
          PROVE  \E i \in 1..(Len(l) + 1) : From(l, curr[e], i)' /\ Split(l, e, i)'
      <3>1. PICK i \in 1..(Len(list) + 1) : From(list, curr[e], i) /\ Split(list, e, i)
        BY <2>0, <2>1 DEF Position, Removing
      <3>2. PICK c \in held \cup {Null} : c = curr[e] /\ c = curr'[e]
        BY <2>0, <2>1 DEF Standing, Position
      <3>3. PICK s : s = Shift(i)
        OBVIOUS
      <3>4. From(l, c, s)' /\ Split(l, e, s)' /\ s \in 1..(Len(l) + 1)
        BY <1>22, <1>23, <1>24, <3>1, <3>2, <3>3
      <3> QED
        BY <3>2, <3>4 DEF From
    <2>2. ASSUME expected'[e] # {}, pc'[e] = "next"
          PROVE  \E i \in 1..(Len(l) + 1) : From(l, next[curr[e]], i)' /\ Split(l, e, i)'
      <3>1. PICK i \in 1..(Len(list) + 1) : From(list, next[curr[e]], i) /\ Split(list, e, i)
        BY <2>0, <2>2 DEF Position, Removing
      <3>2. curr[e] \in held /\ curr[e] \in Nodes
        BY <1>4, <2>0, <2>2, NodesAssumption DEF Standing, Position, CallOK
      <3>3. CASE curr[e] = prev[n]
        <4>1. k # 1 /\ curr[e] = list[k - 1] /\ k - 1 \in 1..Len(list)
          BY <1>7, <1>8, <1>9, <3>2, <3>3, NodesAssumption
        <4>2. next[curr[e]] = n
          <5>1. next[list[k - 1]] = At(list, (k - 1) + 1) /\ (k - 1) + 1 = k
            BY <1>1, <1>n, <4>1 DEF Linked
          <5> QED
            BY <1>8, <4>1, <5>1 DEF At
        <4>3. At(list, i) = n
          BY <1>4, <1>5, <3>1, <4>2 DEF From
        <4>4. i = k
          BY <1>7, <1>8, <4>3 DEF At
        <4>5. At(l, k) = next'[curr'[e]] /\ Shift(i) = k
          BY <1>7, <1>10, <1>16, <2>0, <3>2, <3>3, <4>4 DEF Shift
        <4>6. Split(l, e, k)' /\ k \in 1..(Len(l) + 1)
          BY <1>22, <1>24, <3>1, <4>5
        <4>7. From(l, next[curr[e]], k)'
          BY <4>5 DEF From
        <4> QED
          BY <4>6, <4>7
      <3>4. CASE curr[e] # prev[n]
        <4>1. PICK c \in held \cup {Null} : c = next[curr[e]] /\ c = next'[curr'[e]]
          BY <1>4, <1>10, <2>0, <3>2, <3>4
        <4>2. PICK s : s = Shift(i)
          OBVIOUS
        <4>3. From(l, c, s)' /\ Split(l, e, s)' /\ s \in 1..(Len(l) + 1)
          BY <1>22, <1>23, <1>24, <3>1, <4>1, <4>2
        <4> QED
          BY <4>1, <4>3 DEF From
      <3> QED
        BY <3>3, <3>4
    <2> QED
      BY <1>3, <1>13, <2>0, <2>1, <2>2 DEF Position
  <1>26. Connections(l)'
    BY <1>0, <1>1, <1>17, <1>18, <1>19, <1>20, <1>21, <1>25, HolderStep
  <1> QED
    BY <1>11, <1>26

-----------------------------------------------------------------------------
(* The theorems *)

\* The list without connections
LEMMA EmptyList == << >> \in Lists
  <1>1. << >> \in Seq(Nodes) /\ Len(<< >>) = 0 /\ 1..0 = {}
    OBVIOUS
  <1>2. \A i, j \in 1..Len(<< >>) : << >>[i] = << >>[j] => i = j
    BY <1>1
  <1> QED
    BY <1>1, <1>2, ListsAre

\* Every step of a thread preserves the invariant.
LEMMA ThreadStep ==
    ASSUME NEW list \in Lists, Inv(list), NEW t \in Threads, Step(t)
    PROVE  \E l \in Lists : Inv(l)'
  <1>1. TypeOK' /\ Calls' /\ Counts' /\ Ending'
    BY TypeStep, CallsStep, CountsStep, EndingStep
  <1>2. << >> \in Lists
    BY EmptyList
  <1>3. ASSUME Emission(t) PROVE Connections(list)'
    BY <1>3, EmitKeeps, IncrKeeps, LoadListKeeps, InvokeKeeps, ThrowsKeeps, DiscardKeeps, LoadNextKeeps,
       EndOfListKeeps, TryCleanupKeeps, DecrKeeps DEF Emission
  <1>4. ASSUME Locked(t) PROVE \E l \in Lists : Connections(l)'
    BY <1>2, <1>4, ScanKeeps, ScanEndsKeeps, ConnectKeeps, UnlinkKeeps, CountKeeps, DropKeeps,
       ClearKeeps, ClearCountKeeps, ClearDropKeeps, CleanupLoadKeeps, CleanupEraseKeeps,
       UnlockKeeps, FreeKeeps DEF Locked
  <1>5. \E l \in Lists : Connections(l)'
    BY <1>3, <1>4, CallKeeps DEF Step
  <1> QED
    BY <1>1, <1>5 DEF Inv

\* The end of the context, and a step that changes nothing, leave it all as it is.
LEMMA RestStep ==
    ASSUME NEW list \in Lists, Inv(list), ContextEnds \/ UNCHANGED vars
    PROVE  Inv(list)'
  <1>1. /\ next' = next /\ prev' = prev /\ tag' = tag /\ held' = held /\ rmvd' = rmvd /\ execs' = execs
        /\ owned' = owned /\ deleted' = deleted /\ version' = version /\ cleanupFlag' = cleanupFlag
        /\ mutex' = mutex /\ pc' = pc /\ op' = op /\ unit' = unit /\ curr' = curr /\ tmp' = tmp /\ seen' = seen
        /\ expected' = expected /\ visited' = visited /\ twice' = twice
    BY DEF ContextEnds, vars, sharedVars, stateVars
  <1>2. context' \in BOOLEAN
    BY DEF ContextEnds, vars, Inv, TypeOK
  <1>3. TypeOK'
    BY <1>1, <1>2 DEF Inv, TypeOK
  <1>4. Calls'
    BY <1>1 DEF Inv, Calls, CallOK
  <1>5. Counts'
    BY <1>1 DEF Inv, Counts, CountersExact, Counted
  <1>6. Ending'
    BY <1>1 DEF Inv, Ending
  <1>7. /\ Unlinked' = Unlinked /\ Listed' = Listed /\ Gone' = Gone /\ Clearing' = Clearing
        /\ Old' = Old /\ OldTag' = OldTag
    BY <1>1 DEF Unlinked, Listed, Gone, Clearing, Old, OldTag
  <1>8. Connections(list)
    BY DEF Inv
  <1>9. Linked(list)' /\ Emptied(list)' /\ Store' /\ ~twice'
    BY <1>1, <1>7, <1>8 DEF Connections, Linked, Emptied, Store
  <1>10. ASSUME NEW t \in Threads PROVE Pointers(list, t)' /\ Standing(t)'
    BY <1>1, <1>7, <1>8 DEF Connections, Pointers, Standing
  <1>11. ASSUME NEW t \in Threads PROVE Position(list, t)'
    <2>1. Position(list, t)
      BY <1>8 DEF Connections
    <2> QED
      BY <1>1, <1>7, <2>1 DEF Position, From, Split
  <1>12. ASSUME NEW t \in Threads, NEW e \in Threads \ {t} PROVE Stale(t, e)'
    BY <1>1, <1>7, <1>8 DEF Connections, Stale
  <1>13. Connections(list)'
    BY <1>9, <1>10, <1>11, <1>12 DEF Connections
  <1> QED
    BY <1>3, <1>4, <1>5, <1>6, <1>13 DEF Inv

\* A signal without connections and without emissions satisfies the invariant.
LEMMA InitInv == Init => IInv
  <1> SUFFICES ASSUME Init PROVE IInv
    OBVIOUS
  <1> USE NodesAssumption, ThreadsAssumption DEF Init
  <1>1. TypeOK
    <2>1. NoneEmits \in [1..2 -> Nat]
      BY DEF NoneEmits
    <2>2. /\ next \in [Nodes \cup {ListHead} -> Nodes \cup {Null}]
          /\ prev \in [Nodes -> Nodes \cup {ListHead}] /\ tag \in [Nodes -> Tags]
          /\ held \subseteq Nodes /\ rmvd \subseteq Nodes /\ execs \in [1..2 -> Nat]
      BY <2>1 DEF Tags
    <2>3. /\ pc \in [Threads -> Labels]
          /\ op \in [Threads -> {"none", "emit", "connect", "disconnect", "clear", "free"}]
          /\ unit \in [Threads -> 0..2] /\ curr \in [Threads -> Nodes \cup {Null}]
          /\ tmp \in [Threads -> Nodes \cup {Null}] /\ seen \in [Threads -> [1..2 -> Nat]]
          /\ expected \in [Threads -> SUBSET Nodes]
          /\ visited \in [Threads -> SUBSET (Nodes \cup {Null})]
      BY <2>1 DEF Labels
    <2> QED
      BY <2>2, <2>3 DEF TypeOK
  <1>2. Calls
    BY DEF Calls, CallOK, Holding, Removing, Threads
  <1>3. Counts
    <2>1. \A u \in 1..2 : Counted(u) = {} /\ execs[u] = 0
      BY DEF Counted, NoneEmits
    <2> QED
      BY <2>1, FS_EmptySet DEF Counts, CountersExact
  <1>4. Ending
    BY DEF Ending
  <1>5. Resting
    BY <1>1, <1>2 DEF Resting, AllIdle
  <1>6. << >> \in Lists
    BY EmptyList
  <1> QED
    BY <1>1, <1>2, <1>3, <1>4, <1>5, <1>6, RestingSound DEF IInv, Inv

\* The invariant is inductive: it holds of the list as the step has changed it.
LEMMA NextInv == IInv /\ [Next]_vars => IInv'
  <1> SUFFICES ASSUME IInv, [Next]_vars PROVE \E l \in Lists : Inv(l)'
    BY DEF IInv, Lists
  <1>1. PICK list \in Lists : Inv(list)
    BY DEF IInv
  <1>2. (\E t \in Threads : Step(t)) \/ ContextEnds \/ UNCHANGED vars
    BY DEF Next, Step, Threads
  <1> QED
    BY <1>1, <1>2, ThreadStep, RestStep

\* What the invariant says between two critical sections, and of the end.
LEMMA InvSound == IInv => DeletedWhenUnused /\ StandingSlotsInvokedOnce
  <1> SUFFICES ASSUME NEW list \in Lists, Inv(list) PROVE DeletedWhenUnused /\ StandingSlotsInvokedOnce
    BY DEF IInv
  <1>0. TypeOK /\ Calls /\ Counts /\ Ending /\ Connections(list)
    BY DEF Inv
  <1>1. CountersExact
    BY <1>0 DEF Counts
  <1>2. NobodyOnDeleted
    <2>1. ASSUME NEW t \in Threads, pc[t] \in {"visit", "next"}, curr[t] # Null PROVE curr[t] \in held
      BY <1>0, <2>1 DEF Connections, Standing, Calls, CallOK
    <2>2. deleted => AllIdle
      BY <1>0, NoneLeft
    <2> QED
      BY <2>1, <2>2 DEF NobodyOnDeleted, AllIdle
  <1>3. NothingLeaks
    <2>1. ASSUME mutex = Null
          PROVE  Path(next[ListHead], list) /\ Range(list) \subseteq held /\ rmvd = held \ Range(list)
      <3>1. Unlinked = {} /\ ~Clearing /\ Linked(list) /\ Range(list) = Listed
        BY <1>0, <2>1, Unlocked DEF Connections, Linked
      <3>2. Path(next[ListHead], list)
        BY <3>1, ListType DEF Linked, Path, At
      <3>3. Range(list) \subseteq held /\ rmvd = held \ Range(list)
        BY <3>1, Places
      <3> QED
        BY <3>2, <3>3
    <2>2. rmvd # {} => cleanupFlag
      BY <1>0 DEF Connections, Store
    <2>3. ~owned /\ execs = NoneEmits => deleted /\ held = {}
      BY <1>0 DEF Ending
    <2> QED
      BY <2>1, <2>2, <2>3 DEF NothingLeaks
  <1>4. StandingSlotsInvokedOnce
    <2>1. ASSUME NEW t \in Threads, pc[t] \in {"try", "decr"} PROVE expected[t] \subseteq visited[t]
      BY <1>0, <2>1 DEF Connections, Position
    <2> QED
      BY <1>0, <2>1 DEF Connections, StandingSlotsInvokedOnce
  <1> QED
    BY <1>0, <1>1, <1>2, <1>3, <1>4 DEF DeletedWhenUnused

\* In every reachable state there is a list that accounts for next_, prev_, rmvd_, the
\* counters of execs_ and the place of every emission in signal_activate.
THEOREM SignalsInvariant == Spec => []IInv
  BY InitInv, NextInv, PTL DEF Spec

\* Whatever threads emit, connect, disconnect and destroy in whatever order: signal_activate
\* never reads a connection that remove() or cleanup() has deleted, the block is not deleted
\* while an emission runs, and between critical sections each connection is on list_ or on
\* rmvd_ under cleanup_flag, so that none is leaked.
THEOREM SignalsDeletedWhenUnused == Spec => []DeletedWhenUnused
  BY SignalsInvariant, InvSound, PTL

\* An emission of signal_activate, which follows next_ without the mutex while connections
\* around it are unlinked, deleted and their memory used again, invokes every slot that
\* stays connected once and only once.
THEOREM SignalsStandingInvokedOnce == Spec => []StandingSlotsInvokedOnce
  BY SignalsInvariant, InvSound, PTL
=============================================================================
