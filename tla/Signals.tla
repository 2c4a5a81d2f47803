------------------------------ MODULE Signals ------------------------------
(***************************************************************************)
(* The signal of vdk/signals.cpp on which the C++ SDK builds its push      *)
(* updates, its shutdown and its heartbeat: a list of connections that any *)
(* thread may emit along, without a lock, while other threads connect and  *)
(* disconnect under the signal's mutex.                                    *)
(*                                                                         *)
(* A connection that is disconnected while somebody emits cannot be        *)
(* deleted: the emitter may stand on it.  It is unlinked, tagged with the  *)
(* version of the counter in force and kept on rmvd_ until the counters    *)
(* show that no emitter of that time is left.  The steps are the loads and *)
(* the stores of the atomics a thread without the mutex can see; what only *)
(* the holder of the mutex sees is one step.  A slot that connects,        *)
(* disconnects or emits again behaves as another thread does.  Slots run   *)
(* through the channel of another thread (exec::async) are left out.       *)
(***************************************************************************)
EXTENDS Integers, Sequences, FiniteSets, Functions

CONSTANTS
    Nodes,          \* the memory for connections: a node freed is used again
    WithContext,    \* the nodes whose slot belongs to the context
    Emitters,       \* the threads that emit
    Workers,        \* the threads that connect, disconnect and free
    ListHead,       \* the sig_ctrl's own pointer, list_
    Null            \* nullptr

ASSUME NodesAssumption ==
    /\ IsFiniteSet(Nodes) /\ WithContext \subseteq Nodes
    /\ ListHead \notin Nodes /\ Null \notin Nodes /\ ListHead # Null
ASSUME ThreadsAssumption == Null \notin Emitters \cup Workers

VARIABLES
    next,       \* [Nodes \cup {ListHead} -> Nodes \cup {Null}]: next_, and list_ at ListHead
    prev,       \* [Nodes -> Nodes \cup {ListHead}]: prev_
    tag,        \* [Nodes -> ...]: state_ of the connection
    held,       \* the nodes the signal still holds its reference to
    rmvd,       \* the removed connections
    execs,      \* the two counters of execs_, by their version
    owned,      \* active_flag of execs_: the signal object exists
    deleted,    \* the control block was deleted
    version,    \* cntr_version of state_
    cleanupFlag,\* cleanup_flag of state_
    mutex,      \* the thread that holds mutex_, or Null
    pc, op, unit, curr, tmp, seen,  \* the threads: where, in which call, its locals
    context,    \* active_flag of the context
    expected,   \* history: the connections an emission found and that still stand
    visited,    \* history: the connections it has invoked
    twice       \* history: an emission invoked a connection twice

sharedVars == <<next, prev, tag, held, rmvd>>
stateVars == <<version, cleanupFlag>>
Threads == Emitters \cup Workers

vars == <<next, prev, tag, held, rmvd, execs, owned, deleted, version,
          cleanupFlag, mutex, pc, op, unit, curr, tmp, seen, context,
          expected, visited, twice>>

Tags == {"active", "rem_v1", "rem_v2"}

\* Both counters have run out.
NoneEmits == [v \in 1..2 |-> 0]

Init ==
    /\ next = [n \in Nodes \cup {ListHead} |-> Null]
    /\ prev = [n \in Nodes |-> ListHead]
    /\ tag = [n \in Nodes |-> "active"]
    /\ held = {}
    /\ rmvd = {}
    /\ execs = NoneEmits
    /\ owned = TRUE
    /\ deleted = FALSE
    /\ version = FALSE
    /\ cleanupFlag = FALSE
    /\ mutex = Null
    /\ pc = [t \in Threads |-> "idle"]
    /\ op = [t \in Threads |-> "none"]
    /\ unit = [t \in Threads |-> 0]
    /\ curr = [t \in Threads |-> Null]
    /\ tmp = [t \in Threads |-> Null]
    /\ seen = [t \in Threads |-> NoneEmits]
    /\ context = TRUE
    /\ expected = [t \in Threads |-> {}]
    /\ visited = [t \in Threads |-> {}]
    /\ twice = FALSE

Goto(t, l) == pc' = [pc EXCEPT ![t] = l]

\* The connection that remove() has unlinked and not yet dropped.
Unlinked == {n \in Nodes : \E t \in Threads : tmp[t] = n /\ pc[t] \in {"count", "drop"}}

\* The connections on the list: those between ListHead and the end.
Listed == {n \in held : tag[n] = "active"} \ Unlinked

\* execs_.load() & execs_masks, less what the calling emission has added.
Others(t) == IF unit[t] = 0 THEN execs ELSE [execs EXCEPT ![unit[t]] = @ - 1]

\* thread_channel(): null when the context is gone.
Dead(n) == n \in WithContext /\ ~context

Release(ns) == held' = held \ ns

-----------------------------------------------------------------------------
(* Deleting what was removed. *)

\* remove() when nobody emits: erase() deletes every removed connection, whatever
\* its version, and the connections in more go with them.
EraseAll(more) ==
    /\ Release(rmvd \cup more)
    /\ rmvd' = {}
    /\ cleanupFlag' = (rmvd = {} /\ cleanupFlag)

\* erase(ver): those removed under one version.
Erase(ver) ==
    /\ Release({n \in rmvd : tag[n] = ver})
    /\ rmvd' = {n \in rmvd : tag[n] # ver}
    /\ cleanupFlag' = (rmvd' # {} /\ cleanupFlag)

\* Mutant of EraseOther: erases the connections of the version in force.
EraseOtherSwapped(t) ==
    IF version
    THEN IF seen[t][2] = 0 THEN Erase("rem_v1") /\ version' = FALSE
                           ELSE UNCHANGED <<held, rmvd, cleanupFlag, version>>
    ELSE IF seen[t][1] = 0 THEN Erase("rem_v2") /\ version' = TRUE
                           ELSE UNCHANGED <<held, rmvd, cleanupFlag, version>>

\* cleanup() while somebody emits: when the counter that is not in force has
\* run out, delete what was removed under it and put it in force.
EraseOther(t) ==
    IF version
    THEN IF seen[t][2] = 0 THEN Erase("rem_v2") /\ version' = FALSE
                           ELSE UNCHANGED <<held, rmvd, cleanupFlag, version>>
    ELSE IF seen[t][1] = 0 THEN Erase("rem_v1") /\ version' = TRUE
                           ELSE UNCHANGED <<held, rmvd, cleanupFlag, version>>

\* cleanup(unit): its load of execs_, and what it does on what it saw.
CleanupLoad(t) ==
    /\ pc[t] = "cleanup"
    /\ seen' = [seen EXCEPT ![t] = Others(t)]
    /\ Goto(t, "erase")
    /\ UNCHANGED <<sharedVars, stateVars, execs, owned, deleted, mutex, op, unit, curr,
                   tmp, context, expected, visited, twice>>

CleanupErase(t) ==
    /\ pc[t] = "erase"
    /\ IF seen[t] = NoneEmits
       THEN Release(rmvd) /\ rmvd' = {} /\ cleanupFlag' = FALSE /\ UNCHANGED version
       ELSE EraseOther(t)
    /\ Goto(t, "unlock")
    /\ UNCHANGED <<next, prev, tag, execs, owned, deleted, mutex, op, unit, curr,
                   tmp, seen, context, expected, visited, twice>>

-----------------------------------------------------------------------------
(* remove(node, unit) *)

\* Mutant of Unlink: cuts the removed connection off from the rest.
UnlinkBoth(t) ==
    /\ pc[t] = "unlink"
    /\ LET n == tmp[t] IN
       /\ next' = [next EXCEPT ![prev[n]] = next[n], ![n] = Null]
       /\ prev' = IF next[n] \in Nodes THEN [prev EXCEPT ![next[n]] = prev[n]] ELSE prev
       /\ expected' = [e \in Threads |-> expected[e] \ {n}]
    /\ Goto(t, "count")
    /\ UNCHANGED <<tag, held, rmvd, execs, owned, deleted, stateVars, mutex, op, unit,
                   curr, tmp, seen, context, visited, twice>>

\* A connection leaves the list: no emission that has not begun finds it.
Unlink(t) ==
    /\ pc[t] = "unlink"
    /\ LET n == tmp[t] IN
       /\ next' = [next EXCEPT ![prev[n]] = next[n]]
       /\ prev' = IF next[n] \in Nodes THEN [prev EXCEPT ![next[n]] = prev[n]] ELSE prev
       /\ expected' = [e \in Threads |-> expected[e] \ {n}]
    /\ Goto(t, "count")
    /\ UNCHANGED <<tag, held, rmvd, execs, owned, deleted, stateVars, mutex, op, unit,
                   curr, tmp, seen, context, visited, twice>>

Count(t) ==
    /\ pc[t] = "count"
    /\ seen' = [seen EXCEPT ![t] = Others(t)]
    /\ Goto(t, "drop")
    /\ UNCHANGED <<sharedVars, stateVars, execs, owned, deleted, mutex, op, unit, curr,
                   tmp, context, expected, visited, twice>>

\* The connections removed before that led to n lead past it now.
Bypass(n) ==
    next' = [m \in DOMAIN next |->
                IF m \in rmvd /\ next[m] = n THEN next[n] ELSE next[m]]

\* Where a thread goes on after remove(): an emission lets go of the mutex.
AfterRemove(t) == IF op[t] = "emit" THEN "release" ELSE "scan"

\* Nobody emits: the connection is deleted with all that were removed before.
\* Otherwise it is tagged with the version in force and kept.
Drop(t) ==
    /\ pc[t] = "drop"
    /\ IF seen[t] = NoneEmits
       THEN EraseAll({tmp[t]}) /\ UNCHANGED <<next, tag>>
       ELSE /\ tag' = [tag EXCEPT ![tmp[t]] = IF version THEN "rem_v1" ELSE "rem_v2"]
            /\ Bypass(tmp[t])
            /\ rmvd' = rmvd \cup {tmp[t]}
            /\ cleanupFlag' = TRUE
            /\ UNCHANGED held
    /\ tmp' = [tmp EXCEPT ![t] = Null]
    /\ Goto(t, AfterRemove(t))
    /\ UNCHANGED <<prev, execs, owned, deleted, version, mutex, op, unit, curr,
                   seen, context, expected, visited, twice>>

-----------------------------------------------------------------------------
(* Under the mutex: connect, disconnect one, disconnect all, free. *)

\* No other call may be starting when the signal object is destroyed: that is
\* the caller's duty.  Emissions that run are allowed.
MayFree(t) == \A u \in Threads \ {t} :
    pc[u] = "idle" \/ (op[u] = "emit" /\ pc[u] # "incr")

\* A call of signal_connect, signal_disconnect(id), signal_disconnect() or of
\* the destructor takes the mutex. (The id may be one that is not connected.)
Call(t, o, n) ==
    /\ pc[t] = "idle" /\ owned /\ mutex = Null
    /\ ~ \E u \in Threads : op[u] = "free"
    /\ \/ o = "connect" /\ n \in Nodes \ held
       \/ o = "disconnect" /\ n \in Listed \cup {Null}
       \/ o = "clear" /\ n = Null
       \/ o = "free" /\ n = Null /\ MayFree(t)
    /\ mutex' = t
    /\ op' = [op EXCEPT ![t] = o]
    /\ tmp' = [tmp EXCEPT ![t] = Null]
    /\ curr' = [curr EXCEPT ![t] = next[ListHead]]
    /\ visited' = [visited EXCEPT ![t] = {n}]
    /\ Goto(t, IF o \in {"connect", "disconnect"} THEN "scan" ELSE "clear")
    /\ UNCHANGED <<sharedVars, stateVars, execs, owned, deleted, unit, seen, context, expected, twice>>

\* The loop of connect and of disconnect over the list: it removes the
\* connection asked for, and those whose context is gone.
Scan(t) ==
    /\ pc[t] = "scan" /\ curr[t] # Null
    /\ curr' = [curr EXCEPT ![t] = next[curr[t]]]
    /\ IF Dead(curr[t]) \/ (op[t] = "disconnect" /\ curr[t] \in visited[t])
       THEN tmp' = [tmp EXCEPT ![t] = curr[t]] /\ Goto(t, "unlink")
       ELSE UNCHANGED <<tmp, pc>>
    /\ UNCHANGED <<sharedVars, stateVars, execs, owned, deleted, mutex, op, unit, seen,
                   context, expected, visited, twice>>

\* The last pointer of the list.
Tail_ == CHOOSE p \in Listed \cup {ListHead} : next[p] = Null

\* The end of that loop: connect appends the new connection; cleanup() runs
\* when anything is left on rmvd_.
ScanEnds(t) ==
    /\ pc[t] = "scan" /\ curr[t] = Null
    /\ IF op[t] = "connect"
       THEN \E n \in visited[t] :
               /\ next' = [next EXCEPT ![Tail_] = n, ![n] = Null]
               /\ prev' = [prev EXCEPT ![n] = Tail_]
               /\ tag' = [tag EXCEPT ![n] = "active"]
               /\ held' = held \cup {n}
       ELSE UNCHANGED <<next, prev, tag, held>>
    /\ Goto(t, IF rmvd # {} THEN "cleanup" ELSE "unlock")
    /\ UNCHANGED <<rmvd, stateVars, execs, owned, deleted, mutex, op, unit, curr, tmp,
                   seen, context, expected, visited, twice>>

\* remove(): takes the whole list away ...
Clear(t) ==
    /\ pc[t] = "clear"
    /\ next' = [next EXCEPT ![ListHead] = Null]
    /\ expected' = [e \in Threads |-> {}]
    /\ Goto(t, "clearCount")
    /\ UNCHANGED <<prev, tag, held, rmvd, stateVars, execs, owned, deleted, mutex, op,
                   unit, curr, tmp, seen, context, visited, twice>>

ClearCount(t) ==
    /\ pc[t] = "clearCount"
    /\ seen' = [seen EXCEPT ![t] = execs]
    /\ Goto(t, "clearDrop")
    /\ UNCHANGED <<sharedVars, stateVars, execs, owned, deleted, mutex, op, unit, curr,
                   tmp, context, expected, visited, twice>>

\* What the loops over next_ meet from n on.
Lists == UNION {[1..k -> Nodes] : k \in 0..Cardinality(Nodes)}
Path(n, list) ==
    /\ n = IF list = << >> THEN Null ELSE list[1]
    /\ \A i \in DOMAIN list : next[list[i]] = IF i = Len(list) THEN Null ELSE list[i + 1]

\* ... and deletes it, or moves it to rmvd_ with every next_ set to null, so
\* that the emissions that run end.
ClearDrop(t) ==
    /\ pc[t] = "clearDrop"
    /\ \E list \in Lists :
       /\ Path(curr[t], list)
       /\ IF seen[t] = NoneEmits
          THEN EraseAll(Range(list)) /\ UNCHANGED <<next, tag>>
          ELSE /\ tag' = [n \in Nodes |-> IF n \in Range(list)
                                          THEN IF version THEN "rem_v1" ELSE "rem_v2"
                                          ELSE tag[n]]
               /\ rmvd' = rmvd \cup Range(list)
               /\ next' = [n \in DOMAIN next |-> IF n \in rmvd' THEN Null ELSE next[n]]
               /\ cleanupFlag' = TRUE
               /\ UNCHANGED held
    /\ Goto(t, "unlock")
    /\ UNCHANGED <<prev, execs, owned, deleted, version, mutex, op, unit, curr,
                   tmp, seen, context, expected, visited, twice>>

Rests(t) ==
    /\ op' = [op EXCEPT ![t] = "none"]
    /\ curr' = [curr EXCEPT ![t] = Null]
    /\ seen' = [seen EXCEPT ![t] = NoneEmits]
    /\ visited' = [visited EXCEPT ![t] = {}]

\* auto_lock's destructor; an emission goes on, a free() lets go of the
\* control block.
Unlock(t) ==
    /\ pc[t] \in {"unlock", "release"}
    /\ mutex' = Null
    /\ IF op[t] = "emit"
       THEN /\ Goto(t, IF pc[t] = "release" THEN "visit" ELSE "decr")
            /\ seen' = [seen EXCEPT ![t] = NoneEmits]
            /\ UNCHANGED <<op, curr, visited>>
       ELSE IF op[t] = "free"
       THEN Goto(t, "free") /\ UNCHANGED <<op, curr, visited, seen>>
       ELSE Goto(t, "idle") /\ Rests(t)
    /\ UNCHANGED <<sharedVars, stateVars, execs, owned, deleted, unit, tmp, context, expected, twice>>

\* ~sig_ctrl(): erase() and what is left on the list.
Delete == deleted' = TRUE /\ held' = {} /\ rmvd' = {}

\* sig_ctrl::free(): the last of the owner and the emissions deletes the block.
Free(t) ==
    /\ pc[t] = "free"
    /\ owned' = FALSE
    /\ IF execs = NoneEmits THEN Delete ELSE UNCHANGED <<deleted, held, rmvd>>
    /\ Goto(t, "idle")
    /\ Rests(t)
    /\ UNCHANGED <<next, prev, tag, stateVars, execs, mutex, unit, tmp, context,
                   expected, twice>>

-----------------------------------------------------------------------------
(* signal_activate *)

\* The state is read first, the counter it names is incremented after that.  An
\* emission that reads blocked_flag returns at once and is not a step.
Emit(t) ==
    /\ pc[t] = "idle" /\ owned /\ ~ \E u \in Threads : op[u] = "free"
    /\ unit' = [unit EXCEPT ![t] = IF version THEN 1 ELSE 2]
    /\ op' = [op EXCEPT ![t] = "emit"]
    /\ Goto(t, "incr")
    /\ UNCHANGED <<sharedVars, stateVars, execs, owned, deleted, mutex, curr, tmp, seen,
                   context, expected, visited, twice>>

\* exe_guard's constructor.
Incr(t) ==
    /\ pc[t] = "incr"
    /\ execs' = [execs EXCEPT ![unit[t]] = @ + 1]
    /\ Goto(t, "list")
    /\ UNCHANGED <<sharedVars, stateVars, owned, deleted, mutex, op, unit, curr, tmp, seen,
                   context, expected, visited, twice>>

LoadList(t) ==
    /\ pc[t] = "list"
    /\ curr' = [curr EXCEPT ![t] = next[ListHead]]
    /\ expected' = [expected EXCEPT ![t] = IF next[ListHead] = Null THEN {} ELSE Listed]
    /\ Goto(t, "visit")
    /\ UNCHANGED <<sharedVars, stateVars, execs, owned, deleted, mutex, op, unit, tmp,
                   seen, context, visited, twice>>

\* The slot is invoked.
Invoke(t) ==
    /\ pc[t] = "visit" /\ curr[t] # Null /\ ~Dead(curr[t])
    /\ visited' = [visited EXCEPT ![t] = @ \cup {curr[t]}]
    /\ twice' = (twice \/ (curr[t] \in visited[t] /\ curr[t] \in expected[t]))
    /\ Goto(t, "next")
    /\ UNCHANGED <<sharedVars, stateVars, execs, owned, deleted, mutex, op, unit, curr, tmp,
                   seen, context, expected>>

\* The slot is invoked and throws: the exception leaves signal_activate, past the
\* connections that are left and past cleanup(), through exe_guard's destructor.
Throws(t) ==
    /\ pc[t] = "visit" /\ curr[t] # Null /\ ~Dead(curr[t])
    /\ visited' = [visited EXCEPT ![t] = @ \cup {curr[t]}]
    /\ twice' = (twice \/ (curr[t] \in visited[t] /\ curr[t] \in expected[t]))
    /\ curr' = [curr EXCEPT ![t] = Null]
    /\ Goto(t, "unwind")
    /\ UNCHANGED <<sharedVars, stateVars, execs, owned, deleted, mutex, op, unit, tmp, seen, context,
                   expected>>

\* The context is gone: the emission removes the connection if the mutex is
\* free, and passes it otherwise.
Discard(t) ==
    /\ pc[t] = "visit" /\ curr[t] # Null /\ Dead(curr[t])
    /\ expected' = [expected EXCEPT ![t] = @ \ {curr[t]}]
    /\ IF mutex = Null
       THEN /\ mutex' = t
            /\ curr' = [curr EXCEPT ![t] = next[curr[t]]]
            /\ IF tag[curr[t]] = "active"
               THEN tmp' = [tmp EXCEPT ![t] = curr[t]] /\ Goto(t, "unlink")
               ELSE tmp' = tmp /\ Goto(t, "release")
       ELSE /\ Goto(t, "next")
            /\ UNCHANGED <<mutex, curr, tmp>>
    /\ UNCHANGED <<sharedVars, stateVars, execs, owned, deleted, op, unit, seen, context, visited, twice>>

LoadNext(t) ==
    /\ pc[t] = "next"
    /\ curr' = [curr EXCEPT ![t] = next[curr[t]]]
    /\ Goto(t, "visit")
    /\ UNCHANGED <<sharedVars, stateVars, execs, owned, deleted, mutex, op, unit, tmp, seen,
                   context, expected, visited, twice>>

\* The end of the list: the flag is read, then the mutex is tried.
EndOfList(t) ==
    /\ pc[t] = "visit" /\ curr[t] = Null
    /\ Goto(t, IF cleanupFlag THEN "try" ELSE "decr")
    /\ UNCHANGED <<sharedVars, stateVars, execs, owned, deleted, mutex, op, unit, curr, tmp,
                   seen, context, expected, visited, twice>>

TryCleanup(t) ==
    /\ pc[t] = "try"
    /\ IF mutex = Null THEN mutex' = t /\ Goto(t, "cleanup")
                       ELSE UNCHANGED mutex /\ Goto(t, "decr")
    /\ UNCHANGED <<sharedVars, stateVars, execs, owned, deleted, op, unit, curr, tmp, seen,
                   context, expected, visited, twice>>

\* exe_guard's destructor: the emission ends.
Decr(t) ==
    /\ pc[t] \in {"decr", "unwind"}
    /\ execs' = [execs EXCEPT ![unit[t]] = @ - 1]
    /\ IF execs' = NoneEmits /\ ~owned THEN Delete ELSE UNCHANGED <<deleted, held, rmvd>>
    /\ unit' = [unit EXCEPT ![t] = 0]
    /\ expected' = [expected EXCEPT ![t] = {}]
    /\ Goto(t, "idle")
    /\ Rests(t)
    /\ UNCHANGED <<next, prev, tag, stateVars, owned, mutex, tmp, context, twice>>

-----------------------------------------------------------------------------
(* The context. *)

\* ~context(): the object whose slots are connected is destroyed.
ContextEnds ==
    /\ context
    /\ context' = FALSE
    /\ UNCHANGED <<sharedVars, stateVars, execs, owned, deleted, mutex, pc, op, unit, curr,
                   tmp, seen, expected, visited, twice>>

-----------------------------------------------------------------------------
Emission(t) ==
    \/ Emit(t) \/ Incr(t) \/ LoadList(t) \/ Invoke(t) \/ Throws(t) \/ Discard(t) \/ LoadNext(t)
    \/ EndOfList(t) \/ TryCleanup(t) \/ Decr(t)

Locked(t) ==
    \/ Scan(t) \/ ScanEnds(t) \/ Unlink(t) \/ Count(t) \/ Drop(t)
    \/ Clear(t) \/ ClearCount(t) \/ ClearDrop(t)
    \/ CleanupLoad(t) \/ CleanupErase(t) \/ Unlock(t) \/ Free(t)

Next ==
    \/ \E t \in Emitters : Emission(t)
    \/ \E t \in Threads : Locked(t)
    \/ \E t \in Workers, o \in {"connect", "disconnect", "clear", "free"},
          n \in Nodes \cup {Null} : Call(t, o, n)
    \/ ContextEnds

Spec == Init /\ [][Next]_vars

-----------------------------------------------------------------------------
(* Properties *)

Labels == {"idle", "incr", "list", "visit", "next", "try", "decr", "unwind", "scan", "unlink",
           "count", "drop", "clear", "clearCount", "clearDrop", "cleanup", "erase",
           "release", "unlock", "free"}

\* Types
TypeOK ==
    /\ next \in [Nodes \cup {ListHead} -> Nodes \cup {Null}]
    /\ prev \in [Nodes -> Nodes \cup {ListHead}]
    /\ tag \in [Nodes -> Tags]
    /\ held \subseteq Nodes
    /\ rmvd \subseteq Nodes
    /\ execs \in [1..2 -> Nat]
    /\ owned \in BOOLEAN /\ deleted \in BOOLEAN
    /\ version \in BOOLEAN /\ cleanupFlag \in BOOLEAN
    /\ mutex \in Threads \cup {Null}
    /\ pc \in [Threads -> Labels]
    /\ op \in [Threads -> {"none", "emit", "connect", "disconnect", "clear", "free"}]
    /\ unit \in [Threads -> 0..2]
    /\ curr \in [Threads -> Nodes \cup {Null}]
    /\ tmp \in [Threads -> Nodes \cup {Null}]
    /\ seen \in [Threads -> [1..2 -> Nat]]
    /\ context \in BOOLEAN
    /\ expected \in [Threads -> SUBSET Nodes]
    /\ visited \in [Threads -> SUBSET (Nodes \cup {Null})]
    /\ twice \in BOOLEAN

\* The counters count the emissions that have begun and not ended.
Counted(u) == {t \in Threads : unit[t] = u /\ pc[t] # "incr"}
CountersExact == \A u \in 1..2 : execs[u] = Cardinality(Counted(u))

\* An emission never stands on a connection that has been deleted
\* (signal_activate reads slot_ and next_ of it without the mutex), and nobody
\* works on a control block that has been deleted.
NobodyOnDeleted ==
    /\ \A t \in Threads : pc[t] \in {"visit", "next"} /\ curr[t] # Null => curr[t] \in held
    /\ deleted => \A t \in Threads : pc[t] = "idle"

\* A slot that stays connected from the moment an emission reads the list to
\* its end is invoked by it exactly once, whatever is connected, disconnected
\* and deleted around it. The exception: an emission whose slot throws leaves
\* signal_activate (the heartbeat's thread catches it and emits again at its next
\* turn), and the slots after that one are not invoked; none is invoked twice.
StandingSlotsInvokedOnce ==
    /\ ~twice
    /\ \A t \in Threads : op[t] = "emit" /\ pc[t] \in {"try", "decr"} =>
          expected[t] \subseteq visited[t]

\* Between two critical sections every connection the signal holds is either on
\* the list, which ends, or on rmvd_, and on rmvd_ only under cleanup_flag: nothing
\* is lost that nobody would delete any more; with the control block, all of
\* them go.
NothingLeaks ==
    /\ mutex = Null =>
          /\ \E list \in Lists : /\ Path(next[ListHead], list)
                                 /\ Range(list) \subseteq held /\ rmvd = held \ Range(list)
          /\ rmvd # {} => cleanupFlag
    /\ ~owned /\ execs = NoneEmits => deleted /\ held = {}

\* The two counters are exact, and with them remove(), cleanup() and free() delete a
\* connection, and the control block, neither before nor long after its last use.
DeletedWhenUnused == TypeOK /\ CountersExact /\ NobodyOnDeleted /\ NothingLeaks
=============================================================================
