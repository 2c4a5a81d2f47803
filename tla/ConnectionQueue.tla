--------------------------- MODULE ConnectionQueue ---------------------------
(***************************************************************************)
(* The admission control of long-lived Connect calls in the C++ SDK:       *)
(* catena::common::ConnectionQueue (a vector of IConnect* kept in priority *)
(* order under mtx_) together with the part of catena::common::Connect it  *)
(* drives: the construction that hands out objectId_, the priority set by  *)
(* initAuthz_, isCancelled(), shutdown() and the final deregistration.     *)
(*                                                                         *)
(* One step of this module is one critical section of mtx_, or one access  *)
(* to objectCounter_, which no lock protects.                              *)
(***************************************************************************)
EXTENDS Integers, Sequences, FiniteSets

CONSTANTS Connections,    \* the Connect objects that may exist at a time
          MaxConnections, \* maxConnections_
          MaxPriority,    \* highest priority_: 2 * kAdmin + 1 in the code
          MaxObjectId     \* bound: objectCounter_ is not taken beyond it

ASSUME ConnectionsAssumption == IsFiniteSet(Connections)
ASSUME MaxAssumption == MaxConnections \in Nat
ASSUME PriorityAssumption == MaxPriority \in Nat
ASSUME ObjectIdAssumption == MaxObjectId \in Nat

VARIABLES
    objectCounter,   \* static int objectCounter_
    phase,           \* where each Connect object is in its life
    objectId,        \* objectId_
    priority,        \* priority_
    ended,           \* the client has gone (IsCancelled() / socket closed)
                     \* or its token has expired
    shutdown_,       \* shutdown_
    connectionQueue  \* connectionQueue_, lowest priority first

queueVars == <<objectCounter, phase, objectId, priority, ended, shutdown_, connectionQueue>>

Phases == {"free",          \* not constructed, or destroyed
           "constructing",  \* objectCounter_ read, not yet stored back
           "created",       \* constructed, waiting for its request
           "connected",     \* registerConnection returned true
           "refused",       \* registerConnection returned false
           "failed"}        \* no valid token: never registered

-----------------------------------------------------------------------------
(* Connect *)

\* Connect::operator< : a lower priority, or the same one and not older.
Less(a, b) == \/ priority[a] < priority[b]
              \/ priority[a] = priority[b] /\ objectId[a] >= objectId[b]

\* isCancelled()
isCancelled(c) == ended[c] \/ shutdown_[c]

\* The constructor's "objectId_ = objectCounter_++" is a load and a store.
\* The REST service constructs its objects in concurrent threads, so another
\* object may be constructed in between; gRPC constructs them in sequence.
LoadCounter(c) ==
    /\ phase[c] = "free"
    /\ objectCounter < MaxObjectId
    /\ objectId' = [objectId EXCEPT ![c] = objectCounter]
    /\ phase' = [phase EXCEPT ![c] = "constructing"]
    /\ UNCHANGED <<objectCounter, priority, ended, shutdown_, connectionQueue>>

StoreCounter(c) ==
    /\ phase[c] = "constructing"
    /\ objectCounter' = objectId[c] + 1
    /\ phase' = [phase EXCEPT ![c] = "created"]
    /\ UNCHANGED <<objectId, priority, ended, shutdown_, connectionQueue>>

\* initAuthz_ or jwsToken_() throws: the call is finished with an error.
AuthorizationFails(c) ==
    /\ phase[c] = "created"
    /\ phase' = [phase EXCEPT ![c] = "failed"]
    /\ UNCHANGED <<objectCounter, objectId, priority, ended, shutdown_,
                   connectionQueue>>

-----------------------------------------------------------------------------
(* ConnectionQueue *)

Members(q) == {q[i] : i \in DOMAIN q}
Queued == Members(connectionQueue)

\* The sequence of q's elements at the positions K, in q's order (a set with
\* one element): what erase leaves of a vector.
Kept(q, K) ==
    { [i \in 1..Cardinality(K) |-> q[f[i]]] :
        f \in { g \in [1..Cardinality(K) -> K] :
                  \A i, j \in 1..Cardinality(K) : i < j => g[i] < g[j] } }

\* q with c inserted before position k.
Insert(q, k, c) ==
    [i \in 1..(Len(q) + 1) |-> IF i < k THEN q[i]
                               ELSE IF i = k THEN c ELSE q[i - 1]]

\* Mutant of Full: one connection too many.
FullBeyond(q) == Len(q) > MaxConnections

\* The vector has no place left.
Full(q) == Len(q) >= MaxConnections

\* Mutant of Survivors: cancelled connections are not cleared out.
SurvivorsAll(q) == DOMAIN q

\* Positions of the connections that erase_if leaves: all of them unless the
\* vector is full, else those that are not cancelled.
Survivors(q) == { i \in DOMAIN q : Full(q) => ~isCancelled(q[i]) }

\* Mutant of InsertionPoint: any connection that c precedes, or the end.
AnyInsertionPoint(q, k, c) == k <= Len(q) => Less(c, q[k])'

\* k is the position that find_if returns: the first connection that c
\* precedes, or the end. c's priority is the one it has just been given.
InsertionPoint(q, k, c) ==
    /\ \A j \in 1..(k - 1) : ~ Less(c, q[j])'
    /\ k <= Len(q) => Less(c, q[k])'

\* Mutant of Admit: back() has to go instead of front().
AdmitDroppingLast(q, k, c) ==
    IF Full(q) THEN Insert(SubSeq(q, 1, Len(q) - 1), IF k > Len(q) THEN Len(q) ELSE k, c)
    ELSE Insert(q, k, c)

\* A new connection is inserted at k, at the expense of front() when the
\* vector is full.
Admit(q, k, c) == IF Full(q) THEN Tail(Insert(q, k, c)) ELSE Insert(q, k, c)

\* The calls that get past initAuthz_ to registerConnection.
Registering(c) == phase[c] = "created"

\* registerConnection(c) for a client whose scopes give it priority p. The
\* connections it removes from the vector are shut down.
RegisterConnection(c, p) ==
    /\ Registering(c)
    /\ UNCHANGED <<objectCounter, objectId, ended>>
    /\ priority' = [priority EXCEPT ![c] = p]
    /\ \E q \in Kept(connectionQueue, Survivors(connectionQueue)) :
       \E k \in 1..(Len(q) + 1) :
         /\ InsertionPoint(q, k, c)
         /\ IF Full(q) /\ k = 1
            THEN /\ connectionQueue' = q
                 /\ phase' = [phase EXCEPT ![c] = "refused"]
            ELSE /\ connectionQueue' = Admit(q, k, c)
                 /\ phase' = [phase EXCEPT ![c] = "connected"]
    /\ shutdown_' = [d \in Connections |->
                      shutdown_[d] \/ d \in Queued \ Queued']

\* Mutant of DeregisterConnection: the pointer stays in the vector.
LeaveWithoutDeregistering(c) ==
    /\ phase[c] \in {"connected", "refused", "failed"}
    /\ phase' = [phase EXCEPT ![c] = "free"]
    /\ objectId' = [objectId EXCEPT ![c] = 0]
    /\ priority' = [priority EXCEPT ![c] = 0]
    /\ ended' = [ended EXCEPT ![c] = FALSE]
    /\ shutdown_' = [shutdown_ EXCEPT ![c] = FALSE]
    /\ UNCHANGED <<objectCounter, connectionQueue>>

\* The end of a call: deregisterConnection(c), then the object is destroyed.
\* A connected call ends once it is cancelled or shut down, and in REST also when
\* writing to its socket throws, of which isCancelled() knows nothing.
DeregisterConnection(c) ==
    /\ phase[c] \in {"connected", "refused", "failed"}
    /\ connectionQueue' \in Kept(connectionQueue,
                                 {i \in DOMAIN connectionQueue : connectionQueue[i] # c})
    /\ phase' = [phase EXCEPT ![c] = "free"]
    /\ objectId' = [objectId EXCEPT ![c] = 0]
    /\ priority' = [priority EXCEPT ![c] = 0]
    /\ ended' = [ended EXCEPT ![c] = FALSE]
    /\ shutdown_' = [shutdown_ EXCEPT ![c] = FALSE]
    /\ UNCHANGED objectCounter

-----------------------------------------------------------------------------
(* The environment *)

\* The client goes away or its token expires.
Cancel(c) ==
    /\ phase[c] \in {"created", "connected"}
    /\ ended' = [ended EXCEPT ![c] = TRUE]
    /\ UNCHANGED <<objectCounter, phase, objectId, priority, shutdown_, connectionQueue>>

\* The slot connected to the service's shutdownSignal_ calls shutdown().
ShutdownSignal(c) ==
    /\ phase[c] \in {"created", "connected"}
    /\ shutdown_' = [shutdown_ EXCEPT ![c] = TRUE]
    /\ UNCHANGED <<objectCounter, phase, objectId, priority, ended, connectionQueue>>

QueueInit ==
    /\ objectCounter = 0
    /\ phase = [c \in Connections |-> "free"]
    /\ objectId = [c \in Connections |-> 0]
    /\ priority = [c \in Connections |-> 0]
    /\ ended = [c \in Connections |-> FALSE]
    /\ shutdown_ = [c \in Connections |-> FALSE]
    /\ connectionQueue = <<>>

QueueNext == \E c \in Connections :
    \/ LoadCounter(c)
    \/ StoreCounter(c)
    \/ AuthorizationFails(c)
    \/ \E p \in 0..MaxPriority : RegisterConnection(c, p)
    \/ DeregisterConnection(c)
    \/ Cancel(c)
    \/ ShutdownSignal(c)

QueueSpec == QueueInit /\ [][QueueNext]_queueVars

-----------------------------------------------------------------------------
(* Properties *)

\* The types of the variables; the queue never holds an object twice.
QueueTypeOK ==
    /\ objectCounter \in Nat
    /\ phase \in [Connections -> Phases]
    /\ objectId \in [Connections -> Nat]
    /\ priority \in [Connections -> 0..MaxPriority]
    /\ ended \in [Connections -> BOOLEAN]
    /\ shutdown_ \in [Connections -> BOOLEAN]
    /\ connectionQueue \in Seq(Connections)
    /\ \A i, j \in DOMAIN connectionQueue :
          connectionQueue[i] = connectionQueue[j] => i = j

\* registerConnection relies on front() being the connection that every other
\* one outranks: the vector is ordered by operator< whatever ids a race on
\* objectCounter_ handed out, and in whatever order connections came and went.
QueueSorted ==
    \A i, j \in DOMAIN connectionQueue :
        i < j => Less(connectionQueue[i], connectionQueue[j])

\* The raw pointers in the queue are to live, registered Connect objects, and
\* a registered one that is no longer in the queue has been told to shut down.
QueueMatchesConnections ==
    /\ \A c \in Queued : phase[c] = "connected"
    /\ \A c \in Connections :
          phase[c] = "connected" => c \in Queued \/ shutdown_[c]

\* The queue, and with it the number of calls that are connected and have not
\* been told to shut down, never exceeds maxConnections_.
WithinLimit ==
    /\ Len(connectionQueue) <= MaxConnections
    /\ Cardinality({c \in Connections : phase[c] = "connected" /\ ~shutdown_[c]})
         <= MaxConnections

\* Registration never takes a place from a healthy connection for a client
\* that does not outrank it, and never from one while a lower one stays: the
\* only uncancelled connection it forces out is below all that remain.
ForcesOutTheLowest ==
    [][\A v \in Queued \ Queued' :
          phase'[v] = "connected" /\ ~isCancelled(v)
             => \A w \in Queued' : Less(v, w)']_queueVars

\* A client is refused for lack of room only when every place is held by a
\* connection that is not cancelled and that outranks it.
RefusedOnlyWhenOutranked ==
    [][\A c \in Connections :
          phase[c] = "created" /\ phase'[c] = "refused"
             => /\ Len(connectionQueue') >= MaxConnections
                /\ \A w \in Queued' : ~isCancelled(w) /\ Less(c, w)']_queueVars
=============================================================================
