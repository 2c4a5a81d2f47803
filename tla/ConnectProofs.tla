--------------------------- MODULE ConnectProofs ---------------------------
(***************************************************************************)
(* Proofs about the Connect calls of the C++ SDK, in three parts: how they *)
(* are admitted (ConnectionQueue), how one of them pushes updates to its   *)
(* client (PushConnect), and which updates it pushes (Subscriptions).      *)
(*                                                                         *)
(* The queue, for every set of Connect objects, every limit and every      *)
(* range of priorities: the invariants are proved together. Each           *)
(* registration relies on the vector being sorted (so that front() is the  *)
(* lowest), on its members being connected (so that the new object is not  *)
(* yet among them) and on its length being within the limit.               *)
(*                                                                         *)
(* A call, for any number of threads in proceed(), any number of emitters  *)
(* and any number of updates: the types, and with them the exclusion of    *)
(* mtx_, are inductive alone. The order of the updates that are written is *)
(* not. It rests on what hasUpdate_ stands for: unless the call is over,   *)
(* or a language pack was stored without mtx_, whoever sets hasUpdate_ has *)
(* put into res_ an update that is newer than all that were written        *)
(* (Fresh), and the writer that has consumed hasUpdate_ still finds it     *)
(* there, because it holds mtx_ until it has sent it.                      *)
(* How a call ends rests on who drives it: one operation or one thread,    *)
(* until the client cancels and proceed() is called by hand (Baton).       *)
(*                                                                         *)
(* What such a call sends to a client of detail level SUBSCRIPTIONS is for *)
(* the subscriptions to say, for any parameters, any clients and any       *)
(* number of calls at a time: who holds the two mutexes, in which one way  *)
(* the calls in progress can block each other for good, and what a removal *)
(* leaves.                                                                 *)
(***************************************************************************)
EXTENDS ConnectionQueue, PushConnect, Subscriptions, FiniteSetTheorems, FunctionTheorems, TLAPS

-----------------------------------------------------------------------------
(* Admission *)

\* The inductive invariant: the limit is on the vector's length here; that the
\* number of calls that were not shut down is within it follows.
QueueIInv ==
    /\ QueueTypeOK
    /\ QueueSorted
    /\ QueueMatchesConnections
    /\ Len(connectionQueue) <= MaxConnections

-----------------------------------------------------------------------------
(* What the vector operations return. *)

\* erase keeps the elements at the given positions, once each, in order.
LEMMA KeptProperties ==
    ASSUME NEW S, NEW q \in Seq(S), NEW K \in SUBSET DOMAIN q, NEW r \in Kept(q, K)
    PROVE  /\ r \in Seq(S)
           /\ Len(r) <= Len(q)
           /\ \E f \in [1..Len(r) -> K] :
                /\ \A i \in 1..Len(r) : r[i] = q[f[i]]
                /\ \A i, j \in 1..Len(r) : i < j => f[i] < f[j]
                /\ \A k \in K : \E i \in 1..Len(r) : f[i] = k
  <1> DEFINE n == Cardinality(K)
  <1>1. /\ DOMAIN q = 1..Len(q)
        /\ Len(q) \in Nat
        /\ \A k \in K : q[k] \in S /\ k \in Int
    OBVIOUS
  <1>2. IsFiniteSet(K) /\ n \in Nat /\ n <= Len(q)
    <2>1. IsFiniteSet(1..Len(q)) /\ Cardinality(1..Len(q)) = Len(q)
      BY <1>1, FS_Interval
    <2>2. QED
      BY <1>1, <2>1, FS_Subset, FS_CardinalityType
  <1>3. PICK f \in [1..n -> K] :
          /\ r = [i \in 1..n |-> q[f[i]]]
          /\ \A i, j \in 1..n : i < j => f[i] < f[j]
    BY DEF Kept
  <1> HIDE DEF n
  <1>4. r \in Seq(S) /\ Len(r) = n
    BY <1>1, <1>2, <1>3
  <1>5. \A i, j \in 1..n : f[i] = f[j] => i = j
    <2> SUFFICES ASSUME NEW i \in 1..n, NEW j \in 1..n, i # j PROVE f[i] # f[j]
      OBVIOUS
    <2>1. i < j \/ j < i
      BY <1>2
    <2>2. f[i] < f[j] \/ f[j] < f[i]
      BY <2>1, <1>3
    <2>3. f[i] \in Int /\ f[j] \in Int
      BY <1>1, <1>3
    <2> QED
      BY <2>2, <2>3
  <1>6. \A k \in K : \E i \in 1..n : f[i] = k
    <2>1. f \in Injection(1..n, K)
      BY <1>5, Fun_IsInj
    <2>2. Cardinality(1..n) = n
      BY <1>2, FS_Interval
    <2>3. f \in Surjection(1..n, K)
      BY <1>2, <2>1, <2>2, FS_Injection DEF n
    <2> QED
      BY <2>3 DEF Surjection
  <1> QED
    BY <1>2, <1>3, <1>4, <1>6

\* Of a sequence without repetition, erase leaves one without repetition.
LEMMA KeptNoRepetition ==
    ASSUME NEW S, NEW q \in Seq(S), NEW K \in SUBSET DOMAIN q, NEW r \in Kept(q, K),
           \A i, j \in DOMAIN q : q[i] = q[j] => i = j
    PROVE  /\ \A i, j \in DOMAIN r : r[i] = r[j] => i = j
           /\ Members(r) = {q[k] : k \in K}
  <1>1. PICK f \in [1..Len(r) -> K] :
          /\ \A i \in 1..Len(r) : r[i] = q[f[i]]
          /\ \A i, j \in 1..Len(r) : i < j => f[i] < f[j]
          /\ \A k \in K : \E i \in 1..Len(r) : f[i] = k
    BY KeptProperties
  <1>2. r \in Seq(S) /\ DOMAIN r = 1..Len(r) /\ Len(r) \in Nat
    BY KeptProperties
  <1>3. \A k \in K : k \in DOMAIN q /\ k \in Int
    OBVIOUS
  <1>4. \A i, j \in DOMAIN r : r[i] = r[j] => i = j
    <2> SUFFICES ASSUME NEW i \in DOMAIN r, NEW j \in DOMAIN r, i < j, r[i] = r[j]
                 PROVE FALSE
      BY <1>2
    <2>1. f[i] < f[j] /\ f[i] \in K /\ f[j] \in K
      BY <1>1, <1>2
    <2>2. f[i] = f[j]
      BY <1>1, <1>2, <1>3, <2>1
    <2> QED
      BY <1>3, <2>1, <2>2
  <1>5. Members(r) = {q[k] : k \in K}
    <2>1. ASSUME NEW i \in DOMAIN r PROVE f[i] \in K /\ r[i] = q[f[i]]
      BY <1>1, <1>2
    <2>2. ASSUME NEW k \in K PROVE \E i \in DOMAIN r : r[i] = q[k]
      BY <1>1, <1>2
    <2>3. Members(r) \subseteq {q[k] : k \in K}
      BY <2>1 DEF Members
    <2>4. {q[k] : k \in K} \subseteq Members(r)
      BY <2>2 DEF Members
    <2> QED
      BY <2>3, <2>4
  <1> QED
    BY <1>4, <1>5

\* Insertion adds one element and keeps the others in order.
LEMMA InsertProperties ==
    ASSUME NEW S, NEW q \in Seq(S), NEW c \in S, NEW k \in 1..(Len(q) + 1)
    PROVE  /\ Insert(q, k, c) \in Seq(S)
           /\ Len(Insert(q, k, c)) = Len(q) + 1
           /\ Members(Insert(q, k, c)) = Members(q) \cup {c}
  <1> DEFINE s == Insert(q, k, c)
  <1>1. s \in Seq(S) /\ Len(s) = Len(q) + 1 /\ DOMAIN s = 1..(Len(q) + 1)
    BY DEF Insert
  <1>2. Members(s) \subseteq Members(q) \cup {c}
    BY <1>1 DEF Insert, Members
  <1>3. c \in Members(s)
    <2>1. s[k] = c /\ k \in DOMAIN s
      BY <1>1 DEF Insert
    <2> QED
      BY <2>1 DEF Members
  <1>4. ASSUME NEW i \in DOMAIN q PROVE q[i] \in Members(s)
    <2>1. CASE i < k
      <3>1. s[i] = q[i] /\ i \in DOMAIN s
        BY <1>1, <2>1 DEF Insert
      <3> QED
        BY <3>1 DEF Members
    <2>2. CASE i >= k
      <3>1. s[i + 1] = q[i] /\ i + 1 \in DOMAIN s
        BY <1>1, <2>2 DEF Insert
      <3> QED
        BY <3>1 DEF Members
    <2> QED
      BY <2>1, <2>2
  <1> QED
    BY <1>1, <1>2, <1>3, <1>4 DEF Members

\* Of a sorted sequence, erase leaves a sorted one.
LEMMA KeptSorted ==
    ASSUME NEW q \in Seq(Connections), NEW K \in SUBSET DOMAIN q, NEW r \in Kept(q, K),
           \A i, j \in DOMAIN q : i < j => Less(q[i], q[j])
    PROVE  \A i, j \in DOMAIN r : i < j => Less(r[i], r[j])
  <1>1. PICK f \in [1..Len(r) -> K] :
          /\ \A i \in 1..Len(r) : r[i] = q[f[i]]
          /\ \A i, j \in 1..Len(r) : i < j => f[i] < f[j]
          /\ \A k \in K : \E i \in 1..Len(r) : f[i] = k
    BY KeptProperties
  <1>2. r \in Seq(Connections) /\ DOMAIN r = 1..Len(r)
    BY KeptProperties
  <1> SUFFICES ASSUME NEW i \in 1..Len(r), NEW j \in 1..Len(r), i < j
               PROVE  Less(r[i], r[j])
    BY <1>2
  <1>3. f[i] \in DOMAIN q /\ f[j] \in DOMAIN q /\ f[i] < f[j]
    BY <1>1
  <1> QED
    BY <1>1, <1>3

\* A connection inserted where find_if says keeps the sequence sorted. The
\* order is the one after the step, in which c has its priority.
LEMMA InsertSorted ==
    ASSUME NEW q \in Seq(Connections), NEW c \in Connections, NEW k \in 1..(Len(q) + 1),
           priority' \in [Connections -> Int], objectId' \in [Connections -> Int],
           \A i, j \in DOMAIN q : i < j => Less(q[i], q[j])',
           InsertionPoint(q, k, c)
    PROVE  LET s == Insert(q, k, c)
           IN  \A i, j \in DOMAIN s : i < j => Less(s[i], s[j])'
  <1> DEFINE s == Insert(q, k, c)
  <1>1. DOMAIN s = 1..(Len(q) + 1) /\ DOMAIN q = 1..Len(q) /\ Len(q) \in Nat
    BY DEF Insert
  <1>2. \A i \in DOMAIN q : q[i] \in Connections
    OBVIOUS
  <1>3. \A a, b, d \in Connections : Less(a, b)' /\ Less(b, d)' => Less(a, d)'
    BY DEF Less
  <1>4. \A a, b \in Connections : ~Less(a, b)' => Less(b, a)'
    BY DEF Less
  <1>5. \A i \in DOMAIN q : i < k => Less(q[i], c)'
    BY <1>1, <1>2, <1>4 DEF InsertionPoint
  <1>6. \A i \in DOMAIN q : i >= k => Less(c, q[i])'
    <2> SUFFICES ASSUME NEW i \in DOMAIN q, i >= k PROVE Less(c, q[i])'
      OBVIOUS
    <2>1. k \in DOMAIN q /\ Less(c, q[k])'
      BY <1>1 DEF InsertionPoint
    <2>2. i = k \/ Less(q[k], q[i])'
      BY <1>1, <2>1
    <2> QED
      BY <1>2, <1>3, <2>1, <2>2
  <1> SUFFICES ASSUME NEW i \in 1..(Len(q) + 1), NEW j \in 1..(Len(q) + 1), i < j
               PROVE  Less(s[i], s[j])'
    BY <1>1
  <1>7. CASE j < k
    <2>1. s[i] = q[i] /\ s[j] = q[j] /\ i \in DOMAIN q /\ j \in DOMAIN q
      BY <1>1, <1>7 DEF Insert
    <2> QED
      BY <2>1
  <1>8. CASE j = k
    <2>1. s[i] = q[i] /\ s[j] = c /\ i \in DOMAIN q /\ i < k
      BY <1>1, <1>8 DEF Insert
    <2> QED
      BY <1>5, <2>1
  <1>9. CASE i < k /\ k < j
    <2>1. s[i] = q[i] /\ s[j] = q[j - 1] /\ i \in DOMAIN q /\ j - 1 \in DOMAIN q /\ i < j - 1
      BY <1>1, <1>9 DEF Insert
    <2> QED
      BY <2>1
  <1>10. CASE i = k
    <2>1. s[i] = c /\ s[j] = q[j - 1] /\ j - 1 \in DOMAIN q /\ j - 1 >= k
      BY <1>1, <1>10 DEF Insert
    <2> QED
      BY <1>6, <2>1
  <1>11. CASE k < i
    <2>1. /\ s[i] = q[i - 1] /\ s[j] = q[j - 1]
          /\ i - 1 \in DOMAIN q /\ j - 1 \in DOMAIN q /\ i - 1 < j - 1
      BY <1>1, <1>11 DEF Insert
    <2> QED
      BY <2>1
  <1> QED
    BY <1>7, <1>8, <1>9, <1>10, <1>11

\* A sequence without repetition stays one when a new element is inserted.
LEMMA InsertNoRepetition ==
    ASSUME NEW S, NEW q \in Seq(S), NEW c \in S, NEW k \in 1..(Len(q) + 1),
           \A i, j \in DOMAIN q : q[i] = q[j] => i = j, c \notin Members(q)
    PROVE  LET s == Insert(q, k, c)
           IN  \A i, j \in DOMAIN s : s[i] = s[j] => i = j
  <1> DEFINE s == Insert(q, k, c)
  <1>1. DOMAIN s = 1..(Len(q) + 1) /\ DOMAIN q = 1..Len(q) /\ Len(q) \in Nat
    BY DEF Insert
  <1>2. \A i \in DOMAIN q : q[i] # c
    BY DEF Members
  <1> SUFFICES ASSUME NEW i \in 1..(Len(q) + 1), NEW j \in 1..(Len(q) + 1), i < j
               PROVE  s[i] # s[j]
    BY <1>1
  <1> DEFINE pos(n) == IF n < k THEN n ELSE n - 1
  <1>3. \A n \in 1..(Len(q) + 1) : n # k => pos(n) \in DOMAIN q /\ s[n] = q[pos(n)]
    BY <1>1 DEF Insert
  <1>4. s[k] = c
    BY <1>1 DEF Insert
  <1>5. CASE i = k \/ j = k
    BY <1>2, <1>3, <1>4, <1>5
  <1>6. CASE i # k /\ j # k
    <2>1. pos(i) # pos(j)
      BY <1>6
    <2> QED
      BY <1>3, <1>6, <2>1
  <1> QED
    BY <1>5, <1>6

-----------------------------------------------------------------------------
(* The effect of the two operations on the vector. *)

\* A registration of c that goes through the vector q, which erase_if leaves,
\* and the position k, which find_if finds.
RegistrationVia(c, q, k) ==
    /\ \A i, j \in DOMAIN q : q[i] = q[j] => i = j
    /\ \A i, j \in DOMAIN q : i < j => Less(q[i], q[j])'
    /\ Members(q) = {d \in Queued : Full(connectionQueue) => ~isCancelled(d)}
    /\ Len(q) <= Len(connectionQueue)
    /\ c \notin Queued
    /\ InsertionPoint(q, k, c)
    /\ \/ /\ Full(q) /\ k = 1
          /\ connectionQueue' = q
          /\ phase' = [phase EXCEPT ![c] = "refused"]
       \/ /\ ~(Full(q) /\ k = 1)
          /\ connectionQueue' = Admit(q, k, c)
          /\ phase' = [phase EXCEPT ![c] = "connected"]

\* What registerConnection does, with its intermediate vector q named: q is
\* what erase_if leaves, sorted, and the new object is not in it.
LEMMA RegisterCases ==
    ASSUME QueueIInv, NEW c \in Connections, NEW p \in 0..MaxPriority, RegisterConnection(c, p)
    PROVE  \E q \in Seq(Connections) : \E k \in 1..(Len(q) + 1) : RegistrationVia(c, q, k)
  <1> DEFINE K == Survivors(connectionQueue)
  <1>1. /\ connectionQueue \in Seq(Connections)
        /\ \A i, j \in DOMAIN connectionQueue :
              connectionQueue[i] = connectionQueue[j] => i = j
        /\ \A i, j \in DOMAIN connectionQueue :
              i < j => Less(connectionQueue[i], connectionQueue[j])
        /\ K \in SUBSET DOMAIN connectionQueue
    BY DEF QueueIInv, QueueTypeOK, QueueSorted, Survivors
  <1>2. c \notin Queued
    BY DEF QueueIInv, QueueMatchesConnections, RegisterConnection, Registering
  <1>0. PICK q \in Kept(connectionQueue, K) : \E k \in 1..(Len(q) + 1) :
          /\ InsertionPoint(q, k, c)
          /\ IF Full(q) /\ k = 1
             THEN /\ connectionQueue' = q
                  /\ phase' = [phase EXCEPT ![c] = "refused"]
             ELSE /\ connectionQueue' = Admit(q, k, c)
                  /\ phase' = [phase EXCEPT ![c] = "connected"]
    BY DEF RegisterConnection
  <1>3. PICK k \in 1..(Len(q) + 1) :
          /\ InsertionPoint(q, k, c)
          /\ IF Full(q) /\ k = 1
             THEN /\ connectionQueue' = q
                  /\ phase' = [phase EXCEPT ![c] = "refused"]
             ELSE /\ connectionQueue' = Admit(q, k, c)
                  /\ phase' = [phase EXCEPT ![c] = "connected"]
    BY <1>0
  <1>4. q \in Seq(Connections) /\ Len(q) <= Len(connectionQueue)
    BY <1>1, KeptProperties
  <1>5. /\ \A i, j \in DOMAIN q : q[i] = q[j] => i = j
        /\ Members(q) = {connectionQueue[i] : i \in K}
    BY <1>1, KeptNoRepetition
  <1>6. Members(q) = {d \in Queued : Full(connectionQueue) => ~isCancelled(d)}
    BY <1>5 DEF Queued, Members, Survivors
  <1>7. \A i, j \in DOMAIN q : i < j => Less(q[i], q[j])'
    <2> SUFFICES ASSUME NEW i \in DOMAIN q, NEW j \in DOMAIN q, i < j
                 PROVE Less(q[i], q[j])'
      OBVIOUS
    <2>1. Less(q[i], q[j])
      BY <1>1, KeptSorted
    <2>2. q[i] \in Members(q) /\ q[j] \in Members(q)
      BY DEF Members
    <2>3. q[i] # c /\ q[j] # c /\ q[i] \in Connections /\ q[j] \in Connections
      BY <1>2, <1>4, <1>6, <2>2
    <2>4. priority' = [priority EXCEPT ![c] = p] /\ objectId' = objectId
      BY DEF RegisterConnection
    <2>5. /\ priority'[q[i]] = priority[q[i]]
          /\ priority'[q[j]] = priority[q[j]]
      BY <2>3, <2>4 DEF QueueIInv, QueueTypeOK
    <2> QED
      BY <2>1, <2>4, <2>5 DEF Less
  <1> QED
    BY <1>2, <1>3, <1>4, <1>5, <1>6, <1>7 DEF RegistrationVia

\* The vector after a registration: sorted, without repetition, within the
\* limit, and the old one but for the new connection and what was erased.
LEMMA RegisterQueue ==
    ASSUME QueueIInv, NEW c \in Connections, NEW p \in 0..MaxPriority, RegisterConnection(c, p)
    PROVE  /\ connectionQueue' \in Seq(Connections)
           /\ \A i, j \in DOMAIN connectionQueue' :
                 connectionQueue'[i] = connectionQueue'[j] => i = j
           /\ QueueSorted'
           /\ Len(connectionQueue') <= MaxConnections
           /\ c \notin Queued
           /\ \/ phase' = [phase EXCEPT ![c] = "refused"] /\ Queued' \subseteq Queued
              \/ /\ phase' = [phase EXCEPT ![c] = "connected"]
                 /\ c \in Queued'
                 /\ Queued' \subseteq Queued \cup {c}
  <1>0. PICK q \in Seq(Connections) : \E k \in 1..(Len(q) + 1) : RegistrationVia(c, q, k)
    BY RegisterCases
  <1>1. PICK k \in 1..(Len(q) + 1) : RegistrationVia(c, q, k)
    BY <1>0
  <1> USE <1>1 DEF RegistrationVia
  <1>2. Len(q) <= MaxConnections /\ Len(q) \in Nat /\ MaxConnections \in Nat
    BY <1>1, MaxAssumption DEF QueueIInv, QueueTypeOK
  <1>3. CASE Full(q) /\ k = 1
    BY <1>1, <1>2, <1>3 DEF QueueSorted, Queued
  <1>4. CASE ~(Full(q) /\ k = 1)
    <2> DEFINE s == Insert(q, k, c)
    <2>1. s \in Seq(Connections) /\ Len(s) = Len(q) + 1 /\ Members(s) = Members(q) \cup {c}
      BY InsertProperties
    <2>2. \A i, j \in DOMAIN s : s[i] = s[j] => i = j
      BY <1>1, InsertNoRepetition
    <2>3. \A i, j \in DOMAIN s : i < j => Less(s[i], s[j])'
      <3>1. priority' \in [Connections -> Int] /\ objectId' \in [Connections -> Int]
        BY PriorityAssumption DEF QueueIInv, QueueTypeOK, RegisterConnection
      <3> QED
        BY <1>1, <3>1, InsertSorted
    <2>4. CASE ~Full(q)
      <3>1. connectionQueue' = s /\ phase' = [phase EXCEPT ![c] = "connected"]
        BY <1>1, <1>4, <2>4 DEF Admit
      <3>2. Len(q) < MaxConnections
        BY <1>2, <2>4 DEF Full
      <3> HIDE DEF s
      <3> QED
        BY <1>1, <1>2, <2>1, <2>2, <2>3, <3>1, <3>2 DEF QueueSorted, Queued
    <2>5. CASE Full(q)
      <3> DEFINE r == Tail(s)
      <3>1. connectionQueue' = r /\ phase' = [phase EXCEPT ![c] = "connected"] /\ k # 1
        BY <1>1, <1>4, <2>5 DEF Admit
      <3>2. s[k] = c
        BY DEF Insert
      <3> HIDE DEF s
      <3>3. /\ r \in Seq(Connections)
            /\ Len(r) = Len(q)
            /\ DOMAIN r = 1..Len(q)
            /\ \A i \in 1..Len(q) : i + 1 \in DOMAIN s /\ r[i] = s[i + 1]
        BY <1>2, <2>1
      <3> HIDE DEF r
      <3>4. \A i, j \in DOMAIN r : r[i] = r[j] => i = j
        BY <1>2, <2>2, <3>3
      <3>5. \A i, j \in DOMAIN r : i < j => Less(r[i], r[j])'
        BY <1>2, <2>3, <3>3
      <3>6. Members(r) \subseteq Members(s)
        BY <3>3 DEF Members
      <3>7. c \in Members(r)
        <4>1. k - 1 \in DOMAIN r /\ r[k - 1] = c
          BY <1>2, <3>1, <3>2, <3>3
        <4> QED
          BY <4>1 DEF Members
      <3> QED
        BY <1>1, <1>2, <2>1, <3>1, <3>3, <3>4, <3>5, <3>6, <3>7 DEF QueueSorted, Queued
    <2> QED
      BY <2>4, <2>5
  <1> QED
    BY <1>3, <1>4

\* The vector after a deregistration: the other connections, still sorted.
LEMMA DeregisterQueue ==
    ASSUME QueueIInv, NEW c \in Connections, DeregisterConnection(c)
    PROVE  /\ connectionQueue' \in Seq(Connections)
           /\ \A i, j \in DOMAIN connectionQueue' :
                 connectionQueue'[i] = connectionQueue'[j] => i = j
           /\ QueueSorted'
           /\ Len(connectionQueue') <= MaxConnections
           /\ Queued' = Queued \ {c}
  <1> DEFINE K == {i \in DOMAIN connectionQueue : connectionQueue[i] # c}
  <1>1. /\ connectionQueue \in Seq(Connections)
        /\ \A i, j \in DOMAIN connectionQueue :
              connectionQueue[i] = connectionQueue[j] => i = j
        /\ \A i, j \in DOMAIN connectionQueue :
              i < j => Less(connectionQueue[i], connectionQueue[j])
        /\ K \in SUBSET DOMAIN connectionQueue
    BY DEF QueueIInv, QueueTypeOK, QueueSorted
  <1>2. PICK r \in Kept(connectionQueue, K) : connectionQueue' = r
    BY DEF DeregisterConnection
  <1>3. r \in Seq(Connections) /\ Len(r) <= Len(connectionQueue)
    BY <1>1, KeptProperties
  <1>4. /\ \A i, j \in DOMAIN r : r[i] = r[j] => i = j
        /\ Members(r) = {connectionQueue[i] : i \in K}
    BY <1>1, KeptNoRepetition
  <1>5. Members(r) = Queued \ {c}
    BY <1>4 DEF Queued, Members
  <1>6. \A i, j \in DOMAIN r : i < j => Less(r[i], r[j])'
    <2> SUFFICES ASSUME NEW i \in DOMAIN r, NEW j \in DOMAIN r, i < j
                 PROVE Less(r[i], r[j])'
      OBVIOUS
    <2>1. Less(r[i], r[j])
      BY <1>1, KeptSorted
    <2>2. r[i] \in Members(r) /\ r[j] \in Members(r)
      BY DEF Members
    <2>3. r[i] # c /\ r[j] # c /\ r[i] \in Connections /\ r[j] \in Connections
      BY <1>3, <1>5, <2>2
    <2>4. /\ priority' = [priority EXCEPT ![c] = 0]
          /\ objectId' = [objectId EXCEPT ![c] = 0]
      BY DEF DeregisterConnection
    <2>5. /\ priority'[r[i]] = priority[r[i]] /\ objectId'[r[i]] = objectId[r[i]]
          /\ priority'[r[j]] = priority[r[j]] /\ objectId'[r[j]] = objectId[r[j]]
      BY <2>3, <2>4 DEF QueueIInv, QueueTypeOK
    <2> QED
      BY <2>1, <2>5 DEF Less
  <1>7. Len(r) <= MaxConnections
    BY <1>1, <1>3, MaxAssumption DEF QueueIInv
  <1> QED
    BY <1>2, <1>3, <1>4, <1>5, <1>6, <1>7 DEF QueueSorted, Queued

-----------------------------------------------------------------------------
(* The invariant *)

\* Before the first call the vector is empty and no Connect object exists.
LEMMA QueueInitInvariant == QueueInit => QueueIInv
  BY MaxAssumption, PriorityAssumption
     DEF QueueInit, QueueIInv, QueueTypeOK, Phases, QueueSorted, QueueMatchesConnections, Queued, Members

\* Steps that leave the vector, the order and the set of connected objects
\* alone keep the invariant.
LEMMA QueueUntouched ==
    ASSUME QueueIInv, QueueTypeOK', UNCHANGED connectionQueue,
           \A c \in Queued : priority'[c] = priority[c] /\ objectId'[c] = objectId[c],
           \A c \in Connections : phase'[c] = "connected" <=> phase[c] = "connected",
           \A c \in Connections : shutdown_[c] => shutdown_'[c]
    PROVE  QueueIInv'
  <1>1. Queued' = Queued /\ Queued \subseteq Connections
    BY DEF Queued, Members, QueueIInv, QueueTypeOK
  <1>2. QueueSorted'
    <2> SUFFICES ASSUME NEW i \in DOMAIN connectionQueue, NEW j \in DOMAIN connectionQueue, i < j
                 PROVE Less(connectionQueue[i], connectionQueue[j])'
      BY DEF QueueSorted
    <2>1. Less(connectionQueue[i], connectionQueue[j])
      BY DEF QueueIInv, QueueSorted
    <2>2. connectionQueue[i] \in Queued /\ connectionQueue[j] \in Queued
      BY DEF Queued, Members
    <2> QED
      BY <2>1, <2>2 DEF Less
  <1>3. QueueMatchesConnections'
    BY <1>1 DEF QueueIInv, QueueMatchesConnections
  <1> QED
    BY <1>2, <1>3 DEF QueueIInv

\* registerConnection keeps the vector sorted, duplicate-free and within the
\* limit, deregisterConnection removes exactly the object that leaves, and no
\* other step changes the order of what is queued.
LEMMA QueueNextInvariant == QueueIInv /\ [QueueNext]_queueVars => QueueIInv'
  <1> SUFFICES ASSUME QueueIInv, [QueueNext]_queueVars PROVE QueueIInv'
    OBVIOUS
  <1> USE PriorityAssumption, MaxAssumption
  <1>q. Queued \subseteq Connections /\ \A c \in Queued : phase[c] = "connected"
    BY DEF Queued, Members, QueueIInv, QueueTypeOK, QueueMatchesConnections
  <1>1. ASSUME NEW c \in Connections, LoadCounter(c) PROVE QueueIInv'
    <2>1. QueueTypeOK'
      BY <1>1 DEF QueueIInv, QueueTypeOK, LoadCounter, Phases
    <2>2. \A d \in Queued : d # c
      BY <1>1, <1>q DEF LoadCounter
    <2> QED
      BY <1>1, <1>q, <2>1, <2>2, QueueUntouched DEF LoadCounter, QueueIInv, QueueTypeOK
  <1>2. ASSUME NEW c \in Connections, StoreCounter(c) PROVE QueueIInv'
    <2>1. QueueTypeOK'
      BY <1>2 DEF QueueIInv, QueueTypeOK, StoreCounter, Phases
    <2> QED
      BY <1>2, <2>1, QueueUntouched DEF StoreCounter, QueueIInv, QueueTypeOK
  <1>3. ASSUME NEW c \in Connections, AuthorizationFails(c) PROVE QueueIInv'
    <2>1. QueueTypeOK'
      BY <1>3 DEF QueueIInv, QueueTypeOK, AuthorizationFails, Phases
    <2> QED
      BY <1>3, <2>1, QueueUntouched DEF AuthorizationFails, QueueIInv, QueueTypeOK
  <1>4. ASSUME NEW c \in Connections, NEW p \in 0..MaxPriority, RegisterConnection(c, p)
        PROVE  QueueIInv'
    <2>1. /\ connectionQueue' \in Seq(Connections)
          /\ \A i, j \in DOMAIN connectionQueue' :
                connectionQueue'[i] = connectionQueue'[j] => i = j
          /\ QueueSorted'
          /\ Len(connectionQueue') <= MaxConnections
          /\ c \notin Queued
          /\ \/ phase' = [phase EXCEPT ![c] = "refused"] /\ Queued' \subseteq Queued
             \/ /\ phase' = [phase EXCEPT ![c] = "connected"]
                /\ c \in Queued'
                /\ Queued' \subseteq Queued \cup {c}
      BY <1>4, RegisterQueue
    <2>2. /\ priority' = [priority EXCEPT ![c] = p]
          /\ UNCHANGED <<objectCounter, objectId, ended>>
          /\ shutdown_' = [d \in Connections |-> shutdown_[d] \/ d \in Queued \ Queued']
      BY <1>4 DEF RegisterConnection
    <2>3. QueueTypeOK'
      <3>1. shutdown_' \in [Connections -> BOOLEAN]
        BY <2>2 DEF QueueIInv, QueueTypeOK
      <3>2. phase' \in [Connections -> Phases]
        BY <2>1 DEF QueueIInv, QueueTypeOK, Phases
      <3> QED
        BY <2>1, <2>2, <3>1, <3>2 DEF QueueIInv, QueueTypeOK
    <2>4. QueueMatchesConnections'
      <3>1. ASSUME NEW d \in Queued' PROVE phase'[d] = "connected"
        BY <1>q, <2>1, <3>1 DEF QueueIInv, QueueTypeOK
      <3>2. ASSUME NEW d \in Connections, phase'[d] = "connected", d \notin Queued'
            PROVE  shutdown_'[d]
        <4>1. phase[d] = "connected" /\ d # c
          BY <2>1, <3>2 DEF QueueIInv, QueueTypeOK
        <4>2. d \in Queued \/ shutdown_[d]
          BY <4>1 DEF QueueIInv, QueueMatchesConnections
        <4> QED
          BY <2>2, <3>2, <4>2
      <3> QED
        BY <3>1, <3>2 DEF QueueMatchesConnections
    <2> QED
      BY <2>1, <2>3, <2>4 DEF QueueIInv
  <1>5. ASSUME NEW c \in Connections, DeregisterConnection(c) PROVE QueueIInv'
    <2>1. /\ connectionQueue' \in Seq(Connections)
          /\ \A i, j \in DOMAIN connectionQueue' :
                connectionQueue'[i] = connectionQueue'[j] => i = j
          /\ QueueSorted'
          /\ Len(connectionQueue') <= MaxConnections
          /\ Queued' = Queued \ {c}
      BY <1>5, DeregisterQueue
    <2>2. QueueTypeOK'
      BY <1>5, <2>1 DEF QueueIInv, QueueTypeOK, DeregisterConnection, Phases
    <2>3. QueueMatchesConnections'
      BY <1>5, <1>q, <2>1 DEF QueueIInv, QueueTypeOK, DeregisterConnection, QueueMatchesConnections
    <2> QED
      BY <2>1, <2>2, <2>3 DEF QueueIInv
  <1>6. ASSUME NEW c \in Connections, Cancel(c) PROVE QueueIInv'
    <2>1. QueueTypeOK'
      BY <1>6 DEF QueueIInv, QueueTypeOK, Cancel
    <2> QED
      BY <1>6, <2>1, QueueUntouched DEF Cancel
  <1>7. ASSUME NEW c \in Connections, ShutdownSignal(c) PROVE QueueIInv'
    <2>1. QueueTypeOK'
      BY <1>7 DEF QueueIInv, QueueTypeOK, ShutdownSignal
    <2> QED
      BY <1>7, <2>1, QueueUntouched DEF ShutdownSignal, QueueIInv, QueueTypeOK
  <1>8. CASE UNCHANGED queueVars
    <2>1. QueueTypeOK'
      BY <1>8 DEF QueueIInv, QueueTypeOK, queueVars
    <2> QED
      BY <1>8, <2>1, QueueUntouched DEF queueVars
  <1> QED
    BY <1>1, <1>2, <1>3, <1>4, <1>5, <1>6, <1>7, <1>8 DEF QueueNext

-----------------------------------------------------------------------------
(* Theorems *)

\* The vector and the objects it points to agree in every reachable state.
LEMMA QueueInvariance == QueueSpec => []QueueIInv
  BY QueueInitInvariant, QueueNextInvariant, PTL DEF QueueSpec

\* Every variable keeps its type and no Connect object is queued twice.
THEOREM QueueTypeCorrect == QueueSpec => []QueueTypeOK
  <1>1. QueueIInv => QueueTypeOK
    BY DEF QueueIInv
  <1> QED
    BY <1>1, QueueInvariance, PTL

\* front() is always the connection that registerConnection may force out.
THEOREM AlwaysSorted == QueueSpec => []QueueSorted
  <1>1. QueueIInv => QueueSorted
    BY DEF QueueIInv
  <1> QED
    BY <1>1, QueueInvariance, PTL

\* The queue's raw pointers are to connected objects, and a connected object
\* that lost its place was told to shut down.
THEOREM NoDanglingConnection == QueueSpec => []QueueMatchesConnections
  <1>1. QueueIInv => QueueMatchesConnections
    BY DEF QueueIInv
  <1> QED
    BY <1>1, QueueInvariance, PTL

\* maxConnections_ bounds the queue and the calls that were not shut down.
THEOREM LimitRespected == QueueSpec => []WithinLimit
  <1>1. QueueIInv => WithinLimit
    <2> SUFFICES ASSUME QueueIInv PROVE WithinLimit
      OBVIOUS
    <2> DEFINE active == {c \in Connections : phase[c] = "connected" /\ ~shutdown_[c]}
               n == Len(connectionQueue)
    <2>1. n \in Nat /\ n <= MaxConnections /\ DOMAIN connectionQueue = 1..n
      BY DEF QueueIInv, QueueTypeOK
    <2>2. active \in SUBSET Queued
      BY DEF QueueIInv, QueueMatchesConnections
    <2>3. connectionQueue \in Surjection(1..n, Queued)
      <3>1. connectionQueue \in [1..n -> Queued]
        BY <2>1 DEF QueueIInv, QueueTypeOK, Queued, Members
      <3>2. \A d \in Queued : \E i \in 1..n : connectionQueue[i] = d
        BY <2>1 DEF Queued, Members
      <3> QED
        BY <3>1, <3>2, Fun_IsSurj
    <2>4. Cardinality(Queued) <= n
      BY <2>1, <2>3, FS_SurjCardinalityBound DEF ExistsSurjection
    <2>5. Queued \subseteq Connections
      BY DEF QueueIInv, QueueTypeOK, Queued, Members
    <2>6. IsFiniteSet(Queued)
      BY <2>5, ConnectionsAssumption, FS_Subset
    <2>7. Cardinality(active) <= Cardinality(Queued)
      BY <2>2, <2>6, FS_Subset
    <2>8. Cardinality(active) \in Nat /\ Cardinality(Queued) \in Nat
      BY <2>2, <2>6, FS_Subset, FS_CardinalityType
    <2>9. Cardinality(active) <= MaxConnections
      BY <2>1, <2>4, <2>7, <2>8, MaxAssumption
    <2> QED
      BY <2>1, <2>9 DEF WithinLimit
  <1> QED
    BY <1>1, QueueInvariance, PTL

\* No step but a registration refuses an object or takes a connected one that
\* was not cancelled out of the queue.
LEMMA OnlyRegistration ==
    ASSUME QueueIInv, QueueNext, NEW v \in Connections,
           \/ v \in Queued \ Queued' /\ phase'[v] = "connected"
           \/ phase[v] = "created" /\ phase'[v] = "refused"
    PROVE  \E c \in Connections : \E p \in 0..MaxPriority :
              /\ RegisterConnection(c, p)
              /\ phase[v] = "created" /\ phase'[v] = "refused" => c = v
  <1>1. PICK c \in Connections :
          \/ LoadCounter(c)
          \/ StoreCounter(c)
          \/ AuthorizationFails(c)
          \/ \E p \in 0..MaxPriority : RegisterConnection(c, p)
          \/ DeregisterConnection(c)
          \/ Cancel(c)
          \/ ShutdownSignal(c)
    BY DEF QueueNext
  <1>2. CASE \E p \in 0..MaxPriority : RegisterConnection(c, p)
    <2>1. PICK p \in 0..MaxPriority : RegisterConnection(c, p)
      BY <1>2
    <2>2. phase'[v] = phase[v] \/ c = v
      BY <2>1, RegisterQueue DEF QueueIInv, QueueTypeOK
    <2> QED
      BY <2>1, <2>2
  <1>3. CASE DeregisterConnection(c)
    <2>1. Queued' = Queued \ {c} /\ phase' = [phase EXCEPT ![c] = "free"]
      BY <1>3, DeregisterQueue DEF DeregisterConnection
    <2> QED
      BY <2>1 DEF QueueIInv, QueueTypeOK
  <1>4. CASE LoadCounter(c) \/ StoreCounter(c) \/ AuthorizationFails(c)
             \/ Cancel(c) \/ ShutdownSignal(c)
    <2>1. Queued' = Queued /\ (phase'[v] = phase[v] \/ phase'[v] # "refused")
      BY <1>4 DEF LoadCounter, StoreCounter, AuthorizationFails, Cancel, ShutdownSignal,
                  Queued, Members, QueueIInv, QueueTypeOK
    <2> QED
      BY <2>1
  <1> QED
    BY <1>1, <1>2, <1>3, <1>4

\* A registration forces out no healthy connection but the lowest one.
THEOREM ForcingOutIsFair == QueueSpec => ForcesOutTheLowest
  <1> DEFINE A == \A v \in Queued \ Queued' :
                    phase'[v] = "connected" /\ ~isCancelled(v)
                       => \A w \in Queued' : Less(v, w)'
  <1>1. QueueIInv /\ [QueueNext]_queueVars => [A]_queueVars
    <2> SUFFICES ASSUME QueueIInv, QueueNext, NEW v \in Queued \ Queued',
                        phase'[v] = "connected", ~isCancelled(v), NEW w \in Queued'
                 PROVE  Less(v, w)'
      BY DEF queueVars
    <2>1. v \in Connections
      BY DEF Queued, Members, QueueIInv, QueueTypeOK
    <2>2. PICK c \in Connections : \E p \in 0..MaxPriority : RegisterConnection(c, p)
      BY <2>1, OnlyRegistration
    <2>3. PICK p \in 0..MaxPriority : RegisterConnection(c, p)
      BY <2>2
    <2>4. PICK q \in Seq(Connections) : \E k \in 1..(Len(q) + 1) : RegistrationVia(c, q, k)
      BY <2>3, RegisterCases
    <2>5. PICK k \in 1..(Len(q) + 1) : RegistrationVia(c, q, k)
      BY <2>4
    <2> DEFINE s == Insert(q, k, c)
    <2>6. s \in Seq(Connections) /\ Len(s) = Len(q) + 1 /\ Members(s) = Members(q) \cup {c}
      BY InsertProperties
    <2>7. \A i, j \in DOMAIN s : i < j => Less(s[i], s[j])'
      <3>1. priority' \in [Connections -> Int] /\ objectId' \in [Connections -> Int]
        BY <2>3, PriorityAssumption DEF QueueIInv, QueueTypeOK, RegisterConnection
      <3> QED
        BY <2>5, <3>1, InsertSorted DEF RegistrationVia
    <2>8. v \in Members(q)
      BY <2>5 DEF RegistrationVia
    <2> HIDE DEF s
    <2>9. connectionQueue' = Tail(s)
      <3>1. v \notin Members(connectionQueue')
        BY DEF Queued
      <3>2. connectionQueue' = Tail(s) \/ connectionQueue' = s \/ connectionQueue' = q
        BY <2>5 DEF RegistrationVia, Admit, s
      <3> QED
        BY <2>6, <2>8, <3>1, <3>2
    <2>10. PICK i \in 1..Len(s) : s[i] = v
      <3>1. v \in Members(s) /\ DOMAIN s = 1..Len(s)
        BY <2>6, <2>8
      <3> QED
        BY <3>1 DEF Members
    <2>11. \A n \in 2..Len(s) : s[n] \in Queued'
      <3> SUFFICES ASSUME NEW n \in 2..Len(s) PROVE s[n] \in Members(Tail(s))
        BY <2>9 DEF Queued
      <3>1. n - 1 \in DOMAIN Tail(s) /\ Tail(s)[n - 1] = s[n]
        BY <2>6
      <3> QED
        BY <3>1 DEF Members
    <2>12. i = 1
      BY <2>6, <2>10, <2>11
    <2>13. PICK j \in DOMAIN Tail(s) : w = Tail(s)[j]
      BY <2>9 DEF Queued, Members
    <2>14. j + 1 \in DOMAIN s /\ 1 \in DOMAIN s /\ 1 < j + 1 /\ w = s[j + 1]
      BY <2>6, <2>13
    <2> QED
      BY <2>7, <2>10, <2>12, <2>14
  <1> QED
    BY <1>1, QueueInvariance, PTL DEF QueueSpec, ForcesOutTheLowest

\* A refusal is justified: every place is held by a healthy connection that
\* outranks the client.
THEOREM RefusalIsFair == QueueSpec => RefusedOnlyWhenOutranked
  <1> DEFINE A == \A c \in Connections :
                    phase[c] = "created" /\ phase'[c] = "refused"
                       => /\ Len(connectionQueue') >= MaxConnections
                          /\ \A w \in Queued' : ~isCancelled(w) /\ Less(c, w)'
  <1>1. QueueIInv /\ [QueueNext]_queueVars => [A]_queueVars
    <2> SUFFICES ASSUME QueueIInv, QueueNext, NEW c \in Connections,
                        phase[c] = "created", phase'[c] = "refused"
                 PROVE  /\ Len(connectionQueue') >= MaxConnections
                        /\ \A w \in Queued' : ~isCancelled(w) /\ Less(c, w)'
      BY DEF queueVars
    <2>1. PICK p \in 0..MaxPriority : RegisterConnection(c, p)
      BY OnlyRegistration
    <2>2. PICK q \in Seq(Connections) : \E k \in 1..(Len(q) + 1) : RegistrationVia(c, q, k)
      BY <2>1, RegisterCases
    <2>3. PICK k \in 1..(Len(q) + 1) : RegistrationVia(c, q, k)
      BY <2>2
    <2>4. Full(q) /\ k = 1 /\ connectionQueue' = q
      BY <2>3 DEF RegistrationVia, QueueIInv, QueueTypeOK
    <2>5. Full(connectionQueue)
      BY <2>3, <2>4, MaxAssumption DEF RegistrationVia, Full, QueueIInv, QueueTypeOK
    <2>6. \A w \in Queued' : ~isCancelled(w)
      BY <2>3, <2>4, <2>5 DEF RegistrationVia, Queued
    <2> DEFINE s == Insert(q, k, c)
    <2>7. \A i, j \in DOMAIN s : i < j => Less(s[i], s[j])'
      <3>1. priority' \in [Connections -> Int] /\ objectId' \in [Connections -> Int]
        BY <2>1, PriorityAssumption DEF QueueIInv, QueueTypeOK, RegisterConnection
      <3> QED
        BY <2>3, <3>1, InsertSorted DEF RegistrationVia
    <2>8. ASSUME NEW w \in Queued' PROVE Less(c, w)'
      <3>1. PICK j \in DOMAIN q : w = q[j]
        BY <2>4 DEF Queued, Members
      <3>2. 1 \in DOMAIN s /\ j + 1 \in DOMAIN s /\ s[1] = c /\ s[j + 1] = w /\ 1 < j + 1
        BY <2>4, <3>1 DEF Insert
      <3> HIDE DEF s
      <3> QED
        BY <2>7, <3>2
    <2> QED
      BY <2>4, <2>6, <2>8 DEF Full
  <1> QED
    BY <1>1, QueueInvariance, PTL DEF QueueSpec, RefusedOnlyWhenOutranked

-----------------------------------------------------------------------------
(* A call *)

\* res_ has an update that is newer than all that were written, and if it has no value, newer
\* than one that was not written.
Fresh ==
    /\ res # 0 /\ \A i \in DOMAIN written : written[i] < res
    /\ res \in failed => res > 1 /\ \A i \in DOMAIN written : written[i] < res - 1

\* What hasUpdate_ stands for, and what the thread relies on that has consumed
\* it.
UpdateIsFresh ==
    unlocked \/ IsCancelled \/
        /\ hasUpdate => Fresh
        /\ \A t \in Threads : pc[t] \in {"judge", "send"} => Fresh
        /\ \A t \in Threads : pc[t] \in {"judge", "send", "unlock"} => ~hasUpdate

\* The threads that have not yet started the operation that another one follows
Driving(t) == pc[t] \notin {"idle", "unlock", "recheck"}

\* Until it writes and the client cancels, a call is driven by one operation or by one
\* thread, or it is over.
Baton ==
    \/ cancelled /\ status # "kProcess"
    \/ Aborted
    \/ /\ inflight \in {0, 1}
       /\ inflight = 1 \/ ~alive => \A t \in Threads : ~Driving(t)
       /\ ~alive => inflight = 0
       /\ \A t, u \in Threads : Driving(t) /\ Driving(u) => t = u

\* A Finish that found kFinish is the last operation, and one that found kWrite has been
\* overtaken by a shutdown.
FinishIsLast ==
    /\ status = "kProcess" => finishes = <<>> /\ \A t \in Threads : pc[t] \in {"idle", "enter", "register", "connect"}
    /\ \A t \in Threads : pc[t] \in {"register", "connect"} => status = "kProcess"
    /\ alive => ~Aborted
    /\ Aborted => shutdown /\ finishes[1] = "kWrite"
    /\ finishes # <<>> => finishes[1] \in {"kWrite", "kFinish"}
    /\ finishes # <<>> /\ finishes[1] = "kWrite" => shutdown
    /\ finishes # <<>> /\ finishes[1] = "kFinish" =>
         status = "kFinish" /\ (cancelled \/ \A t \in Threads : Driving(t) => pc[t] \in {"enter", "finish", "deregister"})

\* How the call ends
EndInv ==
    /\ Baton
    /\ FinishIsLast
    /\ ~alive /\ ~Aborted => evicting = "no"

\* What it writes
OrderInv ==
    /\ UpdatesInOrder
    /\ res \in {0, stored}
    /\ \A i \in DOMAIN written : written[i] <= stored
    /\ evicting = "notify" => shutdown
    /\ stopping = "notify" => shutdown
    /\ \A e \in Emitters : emitting[e] \in {"fill", "notify"} => unlocked
    /\ UpdateIsFresh

\* The inductive invariant
IInv == TypeOK /\ EndInv /\ OrderInv

-----------------------------------------------------------------------------
\* notify_one() moves waiting threads to where they lock the mutex again, and
\* no other.
LEMMA WokenOnly ==
    ASSUME pc \in [Threads -> Labels], NEW pcs \in WokenBy(pc)
    PROVE  /\ pcs \in [Threads -> Labels]
           /\ \A t \in Threads : pcs[t] = pc[t] \/ (pc[t] = "waiting" /\ pcs[t] = "lock")
  BY DEF WokenBy, Labels

\* The types and the exclusion of mtx_ are kept by every step.
LEMMA TypeStep == TypeOK /\ [Next]_vars => TypeOK'
  <1> SUFFICES ASSUME TypeOK, [Next]_vars PROVE TypeOK'
    OBVIOUS
  <1> USE ThreadsAssumption DEF TypeOK, Labels
  <1>1. ASSUME NEW t \in Threads, Deliver(t) PROVE TypeOK'
    BY <1>1 DEF Deliver, Goto, callVars, flagVars, resVars, clientVars, signalVars
  <1>2. ASSUME NEW t \in Threads, Process(t) PROVE TypeOK'
    BY <1>2 DEF Process, Goto, callVars, flagVars, resVars, clientVars, signalVars
  <1>3. ASSUME NEW t \in Threads, Refuse(t) PROVE TypeOK'
    BY <1>3 DEF Refuse, Goto, callVars, flagVars, resVars, clientVars, signalVars
  <1>4. ASSUME NEW t \in Threads, Register(t) PROVE TypeOK'
    BY <1>4 DEF Register, Goto, callVars, flagVars, resVars, clientVars, signalVars
  <1>5. ASSUME NEW t \in Threads, ConnectDevices(t) PROVE TypeOK'
    BY <1>5 DEF ConnectDevices, Goto, callVars, flagVars, resVars, clientVars, signalVars
  <1>6. ASSUME NEW t \in Threads, ProcessNotOk(t) PROVE TypeOK'
    BY <1>6 DEF ProcessNotOk, Goto, callVars, flagVars, resVars, clientVars, signalVars
  <1>7. ASSUME NEW t \in Threads, Dispatch(t) PROVE TypeOK'
    BY <1>7 DEF Dispatch, Goto, callVars, flagVars, resVars, clientVars, signalVars
  <1>8. ASSUME NEW t \in Threads, Lock(t) PROVE TypeOK'
    BY <1>8 DEF Lock, Goto, callVars, flagVars, resVars, clientVars, signalVars
  <1>9. ASSUME NEW t \in Threads, Test(t) PROVE TypeOK'
    <2>1. CASE hasUpdate
      BY <1>9, <2>1 DEF Test, Goto, callVars, flagVars, resVars, clientVars, signalVars
    <2>2. CASE ~hasUpdate
      BY <1>9, <2>2 DEF Test, Goto, callVars, flagVars, resVars, clientVars, signalVars
    <2> QED
      BY <2>1, <2>2
  <1>10. ASSUME NEW t \in Threads, Block(t) PROVE TypeOK'
    BY <1>10 DEF Block, Goto, callVars, flagVars, resVars, clientVars, signalVars
  <1>11. ASSUME NEW t \in Threads, SpuriousWakeup(t) PROVE TypeOK'
    BY <1>11 DEF SpuriousWakeup, Goto, callVars, flagVars, resVars, clientVars, signalVars
  <1>12. ASSUME NEW t \in Threads, Judge(t) PROVE TypeOK'
    BY <1>12 DEF Judge, Goto, callVars, flagVars, resVars, clientVars, signalVars
  <1>13. ASSUME NEW t \in Threads, SendNothing(t) PROVE TypeOK'
    BY <1>13 DEF SendNothing, Goto, callVars, flagVars, resVars, clientVars, signalVars
  <1>14. ASSUME NEW t \in Threads, SendFinish(t) PROVE TypeOK'
    BY <1>14 DEF SendFinish, Goto, callVars, flagVars, resVars, clientVars, signalVars
  <1>15. ASSUME NEW t \in Threads, SendWrite(t) PROVE TypeOK'
    BY <1>15 DEF SendWrite, Goto, callVars, flagVars, resVars, clientVars, signalVars
  <1>16. ASSUME NEW t \in Threads, Unlock(t) PROVE TypeOK'
    BY <1>16 DEF Unlock, Goto, callVars, flagVars, resVars, clientVars, signalVars
  <1>17. ASSUME NEW t \in Threads, Recheck(t) PROVE TypeOK'
    BY <1>17 DEF Recheck, Goto, callVars, flagVars, resVars, clientVars, signalVars
  <1>18. ASSUME NEW t \in Threads, Disconnect(t) PROVE TypeOK'
    BY <1>18 DEF Disconnect, Goto, callVars, flagVars, resVars, clientVars, signalVars
  <1>19. ASSUME NEW t \in Threads, Deregister(t) PROVE TypeOK'
    BY <1>19 DEF Deregister, Goto, callVars, flagVars, resVars, clientVars, signalVars
  <1>20. ASSUME NEW e \in Emitters, EmitAfterEnd(e) PROVE TypeOK'
    BY <1>20, WokenOnly DEF EmitAfterEnd, SetAndNotify, callVars, flagVars, resVars, clientVars,
        signalVars
  <1>21. ASSUME NEW e \in Emitters, EmitBegin(e) PROVE TypeOK'
    BY <1>21 DEF EmitBegin, callVars, flagVars, resVars, clientVars, signalVars
  <1>22. ASSUME NEW e \in Emitters, EmitStore(e) PROVE TypeOK'
    BY <1>22, WokenOnly DEF EmitStore, SetAndNotify, StoreUpdate, callVars, flagVars, resVars,
        clientVars, signalVars
  <1>23. ASSUME NEW e \in Emitters, EmitClear(e) PROVE TypeOK'
    BY <1>23 DEF EmitClear, callVars, flagVars, resVars, clientVars, signalVars
  <1>24. ASSUME NEW e \in Emitters, EmitFill(e) PROVE TypeOK'
    BY <1>24 DEF EmitFill, StoreUpdate, callVars, flagVars, resVars, clientVars, signalVars
  <1>25. ASSUME NEW e \in Emitters, EmitNotify(e) PROVE TypeOK'
    BY <1>25, WokenOnly DEF EmitNotify, SetAndNotify, callVars, flagVars, resVars, clientVars,
        signalVars
  <1>26. ASSUME EvictFlag PROVE TypeOK'
    BY <1>26 DEF EvictFlag, callVars, flagVars, resVars, clientVars, signalVars
  <1>27. ASSUME EvictNotify PROVE TypeOK'
    BY <1>27, WokenOnly DEF EvictNotify, SetAndNotify, callVars, flagVars, resVars, clientVars,
        signalVars
  <1>28. ASSUME StopFlag PROVE TypeOK'
    BY <1>28 DEF StopFlag, callVars, flagVars, resVars, clientVars, signalVars
  <1>29. ASSUME StopNotify PROVE TypeOK'
    BY <1>29, WokenOnly DEF StopNotify, SetAndNotify, callVars, flagVars, resVars, clientVars,
        signalVars
  <1>30. ASSUME ClientCancel PROVE TypeOK'
    BY <1>30 DEF ClientCancel, callVars, flagVars, resVars, clientVars, signalVars
  <1>31. ASSUME TokenExpires PROVE TypeOK'
    BY <1>31 DEF TokenExpires, callVars, flagVars, resVars, clientVars, signalVars
  <1>32. CASE UNCHANGED vars
    BY <1>32 DEF vars, callVars, flagVars, resVars, clientVars, signalVars
  <1>33. ASSUME NEW e \in Emitters, EmitStoreFails(e) PROVE TypeOK'
    BY <1>33 DEF EmitStoreFails, StoreUpdate, callVars, flagVars, resVars, clientVars, signalVars
  <1> QED
    BY <1>1, <1>2, <1>3, <1>4, <1>5, <1>6, <1>7, <1>8, <1>9, <1>10, <1>11, <1>12, <1>13, <1>14,
        <1>15, <1>16, <1>17, <1>18, <1>19, <1>20, <1>21, <1>22, <1>23, <1>24, <1>25, <1>26,
        <1>27, <1>28, <1>29, <1>30, <1>31, <1>32, <1>33 DEF Next, Proceed, Emit

\* A notification does not change who drives the call.
LEMMA EndWoken ==
    ASSUME TypeOK, EndInv, pc' \in WokenBy(pc), evicting' \in {evicting, "no"},
           UNCHANGED <<status, inflight, alive, cancelled, finishes, shutdown>>
    PROVE  EndInv'
  <1>1. \A t \in Threads : pc'[t] = pc[t] \/ (pc[t] = "waiting" /\ pc'[t] = "lock")
    BY WokenOnly DEF TypeOK
  <1>2. Baton'
    BY <1>1 DEF EndInv, Baton, Driving, Aborted
  <1>3. FinishIsLast'
    BY <1>1 DEF EndInv, FinishIsLast, Driving, Aborted
  <1> QED
    BY <1>2, <1>3 DEF EndInv, Aborted

\* How the call ends, step by step
LEMMA EndStep == TypeOK /\ EndInv /\ [Next]_vars => EndInv'
  <1> SUFFICES ASSUME TypeOK, EndInv, [Next]_vars PROVE EndInv'
    OBVIOUS
  <1> USE ThreadsAssumption DEF TypeOK, Labels, EndInv, Baton, FinishIsLast, Aborted, Driving
  <1>1. ASSUME NEW t \in Threads, Deliver(t) PROVE EndInv'
    BY <1>1 DEF Deliver, Goto, callVars, flagVars, resVars, clientVars, signalVars
  <1>2. ASSUME NEW t \in Threads, Process(t) PROVE EndInv'
    BY <1>2 DEF Process, Goto, callVars, flagVars, resVars, clientVars, signalVars
  <1>3. ASSUME NEW t \in Threads, Refuse(t) PROVE EndInv'
    <2>1. /\ alive /\ pc[t] = "register" /\ status' = "kFinish" /\ finishes' = Append(finishes, "kFinish")
          /\ inflight' = inflight + 1 /\ pc' = [pc EXCEPT ![t] = "idle"] /\ pc'[t] = "idle"
          /\ UNCHANGED <<alive, cancelled, shutdown, evicting>>
      BY <1>3 DEF Refuse, Goto, QueueMutexFree, callVars, flagVars, resVars, clientVars, signalVars
    <2>2. \A u \in Threads \ {t} : pc'[u] = pc[u]
      BY <2>1
    <2>3. Baton'
      BY <2>1, <2>2
    <2>4. finishes = <<>> /\ finishes' # <<>> /\ Len(finishes') = 1 /\ finishes'[1] = "kFinish"
      BY <2>1
    <2>5. \A u \in Threads : pc'[u] \in {"idle", "enter", "register", "connect"}
      BY <2>1, <2>2
    <2>6. \A u \in Threads : pc'[u] \notin {"register", "connect"}
      BY <2>1, <2>2
    <2>7. FinishIsLast'
      BY <2>1, <2>4, <2>5, <2>6
    <2> QED
      BY <2>1, <2>3, <2>7
  <1>4. ASSUME NEW t \in Threads, Register(t) PROVE EndInv'
    BY <1>4 DEF Register, Goto, callVars, flagVars, resVars, clientVars, signalVars
  <1>5. ASSUME NEW t \in Threads, ConnectDevices(t) PROVE EndInv'
    <2>1. /\ alive /\ pc[t] = "connect" /\ status' = "kWrite" /\ inflight' = inflight + 1
          /\ pc' = [pc EXCEPT ![t] = "idle"] /\ pc'[t] = "idle" /\ UNCHANGED <<alive, cancelled, shutdown, finishes, evicting>>
      BY <1>5 DEF ConnectDevices, Goto, QueueMutexFree, callVars, flagVars, resVars, clientVars, signalVars
    <2>2. \A u \in Threads \ {t} : pc'[u] = pc[u]
      BY <2>1
    <2>3. Baton'
      BY <2>1, <2>2
    <2>4. FinishIsLast'
      BY <2>1, <2>2
    <2> QED
      BY <2>1, <2>3, <2>4
  <1>6. ASSUME NEW t \in Threads, ProcessNotOk(t) PROVE EndInv'
    <2>1. /\ alive /\ pc[t] = "enter" /\ status = "kProcess" /\ status' = "kFinish"
          /\ pc' = [pc EXCEPT ![t] = "finish"] /\ pc'[t] = "finish"
          /\ UNCHANGED <<inflight, alive, cancelled, shutdown, finishes, evicting>>
      BY <1>6 DEF ProcessNotOk, Goto, QueueMutexFree, callVars, flagVars, resVars, clientVars, signalVars
    <2>2. \A u \in Threads \ {t} : pc'[u] = pc[u]
      BY <2>1
    <2>3. Baton'
      BY <2>1, <2>2
    <2>4. FinishIsLast'
      BY <2>1, <2>2
    <2> QED
      BY <2>1, <2>3, <2>4
  <1>7. ASSUME NEW t \in Threads, Dispatch(t) PROVE EndInv'
    BY <1>7 DEF Dispatch, Goto, callVars, flagVars, resVars, clientVars, signalVars
  <1>8. ASSUME NEW t \in Threads, Lock(t) PROVE EndInv'
    BY <1>8 DEF Lock, Goto, callVars, flagVars, resVars, clientVars, signalVars
  <1>9. ASSUME NEW t \in Threads, Test(t) PROVE EndInv'
    <2>1. CASE hasUpdate
      BY <1>9, <2>1 DEF Test, Goto, callVars, flagVars, resVars, clientVars, signalVars
    <2>2. CASE ~hasUpdate
      BY <1>9, <2>2 DEF Test, Goto, callVars, flagVars, resVars, clientVars, signalVars
    <2> QED
      BY <2>1, <2>2
  <1>10. ASSUME NEW t \in Threads, Block(t) PROVE EndInv'
    BY <1>10 DEF Block, Goto, callVars, flagVars, resVars, clientVars, signalVars
  <1>11. ASSUME NEW t \in Threads, SpuriousWakeup(t) PROVE EndInv'
    BY <1>11 DEF SpuriousWakeup, Goto, callVars, flagVars, resVars, clientVars, signalVars
  <1>12. ASSUME NEW t \in Threads, Judge(t) PROVE EndInv'
    BY <1>12 DEF Judge, Goto, callVars, flagVars, resVars, clientVars, signalVars
  <1>13. ASSUME NEW t \in Threads, SendNothing(t) PROVE EndInv'
    BY <1>13 DEF SendNothing, Goto, callVars, flagVars, resVars, clientVars, signalVars
  <1>14. ASSUME NEW t \in Threads, SendFinish(t) PROVE EndInv'
    BY <1>14 DEF SendFinish, Goto, callVars, flagVars, resVars, clientVars, signalVars
  <1>15. ASSUME NEW t \in Threads, SendWrite(t) PROVE EndInv'
    <2>1. /\ alive /\ pc[t] = "send" /\ ~cancelled /\ inflight' = inflight + 1
          /\ pc' = [pc EXCEPT ![t] = "unlock"] /\ pc'[t] = "unlock"
          /\ UNCHANGED <<status, alive, cancelled, shutdown, finishes, evicting>>
      BY <1>15 DEF SendWrite, Goto, QueueMutexFree, callVars, flagVars, resVars, clientVars, signalVars
    <2>2. \A u \in Threads \ {t} : pc'[u] = pc[u]
      BY <2>1
    <2>3. Baton'
      BY <2>1, <2>2
    <2>4. FinishIsLast'
      BY <2>1, <2>2
    <2> QED
      BY <2>1, <2>3, <2>4
  <1>16. ASSUME NEW t \in Threads, Unlock(t) PROVE EndInv'
    BY <1>16 DEF Unlock, Goto, callVars, flagVars, resVars, clientVars, signalVars
  <1>17. ASSUME NEW t \in Threads, Recheck(t) PROVE EndInv'
    BY <1>17 DEF Recheck, Goto, callVars, flagVars, resVars, clientVars, signalVars
  <1>18. ASSUME NEW t \in Threads, Disconnect(t) PROVE EndInv'
    BY <1>18 DEF Disconnect, Goto, callVars, flagVars, resVars, clientVars, signalVars
  <1>19. ASSUME NEW t \in Threads, Deregister(t) PROVE EndInv'
    <2>1. /\ alive /\ ~alive' /\ pc[t] = "deregister" /\ evicting' = "no"
          /\ pc' = [pc EXCEPT ![t] = "idle"] /\ pc'[t] = "idle"
          /\ UNCHANGED <<status, inflight, cancelled, shutdown, finishes>>
      BY <1>19 DEF Deregister, Goto, QueueMutexFree, callVars, flagVars, resVars, clientVars, signalVars
    <2>2. \A u \in Threads \ {t} : pc'[u] = pc[u]
      BY <2>1
    <2>3. Baton'
      BY <2>1, <2>2
    <2>4. FinishIsLast'
      BY <2>1, <2>2
    <2> QED
      BY <2>1, <2>3, <2>4
  <1>20. ASSUME NEW e \in Emitters, EmitAfterEnd(e) PROVE EndInv'
    <2>1. /\ pc' \in WokenBy(pc) /\ UNCHANGED <<status, inflight, alive, cancelled, finishes, shutdown>>
          /\ evicting' \in {evicting, "no"}
      BY <1>20 DEF EmitAfterEnd, SetAndNotify, callVars, flagVars, resVars, clientVars, signalVars
    <2> QED
      BY <2>1, EndWoken
  <1>21. ASSUME NEW e \in Emitters, EmitBegin(e) PROVE EndInv'
    BY <1>21 DEF EmitBegin, callVars, flagVars, resVars, clientVars, signalVars
  <1>22. ASSUME NEW e \in Emitters, EmitStore(e) PROVE EndInv'
    <2>1. /\ pc' \in WokenBy(pc) /\ UNCHANGED <<status, inflight, alive, cancelled, finishes, shutdown>>
          /\ evicting' \in {evicting, "no"}
      BY <1>22 DEF EmitStore, SetAndNotify, callVars, flagVars, resVars, clientVars, signalVars
    <2> QED
      BY <2>1, EndWoken
  <1>23. ASSUME NEW e \in Emitters, EmitClear(e) PROVE EndInv'
    BY <1>23 DEF EmitClear, callVars, flagVars, resVars, clientVars, signalVars
  <1>24. ASSUME NEW e \in Emitters, EmitFill(e) PROVE EndInv'
    BY <1>24 DEF EmitFill, StoreUpdate, callVars, flagVars, resVars, clientVars, signalVars
  <1>25. ASSUME NEW e \in Emitters, EmitNotify(e) PROVE EndInv'
    <2>1. /\ pc' \in WokenBy(pc) /\ UNCHANGED <<status, inflight, alive, cancelled, finishes, shutdown>>
          /\ evicting' \in {evicting, "no"}
      BY <1>25 DEF EmitNotify, SetAndNotify, callVars, flagVars, resVars, clientVars, signalVars
    <2> QED
      BY <2>1, EndWoken
  <1>26. ASSUME EvictFlag PROVE EndInv'
    BY <1>26 DEF EvictFlag, callVars, flagVars, resVars, clientVars, signalVars
  <1>27. ASSUME EvictNotify PROVE EndInv'
    <2>1. /\ pc' \in WokenBy(pc) /\ UNCHANGED <<status, inflight, alive, cancelled, finishes, shutdown>>
          /\ evicting' \in {evicting, "no"}
      BY <1>27 DEF EvictNotify, SetAndNotify, callVars, flagVars, resVars, clientVars, signalVars
    <2> QED
      BY <2>1, EndWoken
  <1>28. ASSUME StopFlag PROVE EndInv'
    BY <1>28 DEF StopFlag, callVars, flagVars, resVars, clientVars, signalVars
  <1>29. ASSUME StopNotify PROVE EndInv'
    <2>1. /\ pc' \in WokenBy(pc) /\ UNCHANGED <<status, inflight, alive, cancelled, finishes, shutdown>>
          /\ evicting' \in {evicting, "no"}
      BY <1>29 DEF StopNotify, SetAndNotify, callVars, flagVars, resVars, clientVars, signalVars
    <2> QED
      BY <2>1, EndWoken
  <1>30. ASSUME ClientCancel PROVE EndInv'
    BY <1>30 DEF ClientCancel, callVars, flagVars, resVars, clientVars, signalVars
  <1>31. ASSUME TokenExpires PROVE EndInv'
    BY <1>31 DEF TokenExpires, callVars, flagVars, resVars, clientVars, signalVars
  <1>32. CASE UNCHANGED vars
    BY <1>32 DEF vars, callVars, flagVars, resVars, clientVars, signalVars
  <1>33. ASSUME NEW e \in Emitters, EmitStoreFails(e) PROVE EndInv'
    BY <1>33 DEF EmitStoreFails, StoreUpdate, callVars, flagVars, resVars, clientVars, signalVars
  <1> QED
    BY <1>1, <1>2, <1>3, <1>4, <1>5, <1>6, <1>7, <1>8, <1>9, <1>10, <1>11, <1>12, <1>13, <1>14,
        <1>15, <1>16, <1>17, <1>18, <1>19, <1>20, <1>21, <1>22, <1>23, <1>24, <1>25, <1>26,
        <1>27, <1>28, <1>29, <1>30, <1>31, <1>32, <1>33 DEF Next, Proceed, Emit

\* The order of the updates
LEMMA OrderStep == IInv /\ [Next]_vars => OrderInv'
  <1> SUFFICES ASSUME IInv, [Next]_vars PROVE OrderInv'
    OBVIOUS
  <1>a. TypeOK /\ TypeOK'
    BY TypeStep DEF IInv
  <1>b. OrderInv
    BY DEF IInv
  <1> USE <1>a, <1>b DEF OrderInv, UpdatesInOrder, UpdateIsFresh, Fresh, IsCancelled, TypeOK, Labels
  <1>1. ASSUME NEW t \in Threads, Deliver(t) PROVE OrderInv'
    BY <1>1 DEF Deliver, Goto, callVars, flagVars, resVars, clientVars, signalVars
  <1>2. ASSUME NEW t \in Threads, Process(t) PROVE OrderInv'
    BY <1>2 DEF Process, Goto, callVars, flagVars, resVars, clientVars, signalVars
  <1>3. ASSUME NEW t \in Threads, Refuse(t) PROVE OrderInv'
    BY <1>3 DEF Refuse, Goto, callVars, flagVars, resVars, clientVars, signalVars
  <1>4. ASSUME NEW t \in Threads, Register(t) PROVE OrderInv'
    BY <1>4 DEF Register, Goto, callVars, flagVars, resVars, clientVars, signalVars
  <1>5. ASSUME NEW t \in Threads, ConnectDevices(t) PROVE OrderInv'
    BY <1>5 DEF ConnectDevices, Goto, callVars, flagVars, resVars, clientVars, signalVars
  <1>6. ASSUME NEW t \in Threads, ProcessNotOk(t) PROVE OrderInv'
    BY <1>6 DEF ProcessNotOk, Goto, callVars, flagVars, resVars, clientVars, signalVars
  <1>7. ASSUME NEW t \in Threads, Dispatch(t) PROVE OrderInv'
    BY <1>7 DEF Dispatch, Goto, callVars, flagVars, resVars, clientVars, signalVars
  <1>8. ASSUME NEW t \in Threads, Lock(t) PROVE OrderInv'
    BY <1>8 DEF Lock, Goto, callVars, flagVars, resVars, clientVars, signalVars
  <1>9. ASSUME NEW t \in Threads, Test(t) PROVE OrderInv'
    BY <1>9 DEF Test, Goto, callVars, flagVars, resVars, clientVars, signalVars
  <1>10. ASSUME NEW t \in Threads, Block(t) PROVE OrderInv'
    BY <1>10 DEF Block, Goto, callVars, flagVars, resVars, clientVars, signalVars
  <1>11. ASSUME NEW t \in Threads, SpuriousWakeup(t) PROVE OrderInv'
    BY <1>11 DEF SpuriousWakeup, Goto, callVars, flagVars, resVars, clientVars, signalVars
  <1>12. ASSUME NEW t \in Threads, Judge(t) PROVE OrderInv'
    BY <1>12 DEF Judge, Goto, callVars, flagVars, resVars, clientVars, signalVars
  <1>13. ASSUME NEW t \in Threads, SendNothing(t) PROVE OrderInv'
    BY <1>13 DEF SendNothing, Goto, callVars, flagVars, resVars, clientVars, signalVars
  <1>14. ASSUME NEW t \in Threads, SendFinish(t) PROVE OrderInv'
    BY <1>14 DEF SendFinish, Goto, callVars, flagVars, resVars, clientVars, signalVars
  <1>15. ASSUME NEW t \in Threads, SendWrite(t) PROVE OrderInv'
    BY <1>15 DEF SendWrite, Goto, callVars, flagVars, resVars, clientVars, signalVars
  <1>16. ASSUME NEW t \in Threads, Unlock(t) PROVE OrderInv'
    BY <1>16 DEF Unlock, Goto, callVars, flagVars, resVars, clientVars, signalVars
  <1>17. ASSUME NEW t \in Threads, Recheck(t) PROVE OrderInv'
    BY <1>17 DEF Recheck, Goto, callVars, flagVars, resVars, clientVars, signalVars
  <1>18. ASSUME NEW t \in Threads, Disconnect(t) PROVE OrderInv'
    BY <1>18 DEF Disconnect, Goto, callVars, flagVars, resVars, clientVars, signalVars
  <1>19. ASSUME NEW t \in Threads, Deregister(t) PROVE OrderInv'
    <2>1. IsCancelled' = IsCancelled /\ UNCHANGED <<flagVars, written, emitting, stopping>> /\
        evicting = "no" /\ evicting' = "no"
      BY <1>19 DEF Deregister, flagVars, resVars, clientVars, signalVars, QueueMutexFree
    <2>2. \A u \in Threads : pc'[u] = pc[u] \/ pc'[u] = "idle"
      BY <1>19 DEF Deregister, Goto
    <2> QED
      BY <2>1, <2>2 DEF flagVars
  <1>20. ASSUME NEW e \in Emitters, EmitAfterEnd(e) PROVE OrderInv'
    BY <1>20, WokenOnly DEF EmitAfterEnd, SetAndNotify, callVars, flagVars, resVars, clientVars,
        signalVars
  <1>21. ASSUME NEW e \in Emitters, EmitBegin(e) PROVE OrderInv'
    BY <1>21 DEF EmitBegin, callVars, flagVars, resVars, clientVars, signalVars
  <1>22. ASSUME NEW e \in Emitters, EmitStore(e) PROVE OrderInv'
    <2>1. /\ stored' = stored + 1 /\ res' = stored + 1 /\ hasUpdate'
          /\ mtx = NoThread /\ mtx' = NoThread /\ pc' \in WokenBy(pc)
          /\ emitting' = [emitting EXCEPT ![e] = "idle"]
          /\ UNCHANGED <<written, alive, shutdown, unlocked, failed, cancelled, expired, evicting,
              stopping>>
      BY <1>22 DEF EmitStore, SetAndNotify, StoreUpdate, clientVars
    <2>2. \A t \in Threads : pc[t] \notin {"judge", "send", "unlock"}
      BY <2>1, ThreadsAssumption
    <2>3. \A t \in Threads : pc'[t] \notin {"judge", "send", "unlock"}
      BY <2>1, <2>2, WokenOnly
    <2>4. Fresh'
      BY <2>1
    <2>5. UpdateIsFresh'
      BY <2>3, <2>4
    <2>6. UpdatesInOrder'
      BY <2>1
    <2> QED
      BY <2>1, <2>5, <2>6
  <1>23. ASSUME NEW e \in Emitters, EmitClear(e) PROVE OrderInv'
    BY <1>23 DEF EmitClear, callVars, flagVars, resVars, clientVars, signalVars
  <1>24. ASSUME NEW e \in Emitters, EmitFill(e) PROVE OrderInv'
    BY <1>24 DEF EmitFill, StoreUpdate, callVars, flagVars, resVars, clientVars, signalVars
  <1>25. ASSUME NEW e \in Emitters, EmitNotify(e) PROVE OrderInv'
    BY <1>25, WokenOnly DEF EmitNotify, SetAndNotify, callVars, flagVars, resVars, clientVars,
        signalVars
  <1>26. ASSUME EvictFlag PROVE OrderInv'
    BY <1>26 DEF EvictFlag, callVars, flagVars, resVars, clientVars, signalVars
  <1>27. ASSUME EvictNotify PROVE OrderInv'
    BY <1>27, WokenOnly DEF EvictNotify, SetAndNotify, callVars, flagVars, resVars, clientVars,
        signalVars
  <1>28. ASSUME StopFlag PROVE OrderInv'
    BY <1>28 DEF StopFlag, callVars, flagVars, resVars, clientVars, signalVars
  <1>29. ASSUME StopNotify PROVE OrderInv'
    BY <1>29, WokenOnly DEF StopNotify, SetAndNotify, callVars, flagVars, resVars, clientVars,
        signalVars
  <1>30. ASSUME ClientCancel PROVE OrderInv'
    BY <1>30 DEF ClientCancel, callVars, flagVars, resVars, clientVars, signalVars
  <1>31. ASSUME TokenExpires PROVE OrderInv'
    BY <1>31 DEF TokenExpires, callVars, flagVars, resVars, clientVars, signalVars
  <1>32. CASE UNCHANGED vars
    BY <1>32 DEF vars, callVars, flagVars, resVars, clientVars, signalVars
  <1>33. ASSUME NEW e \in Emitters, EmitStoreFails(e) PROVE OrderInv'
    <2>1. /\ stored' = stored + 1 /\ res' = stored + 1 /\ failed' = failed \cup {stored + 1}
          /\ mtx = NoThread /\ emitting' = [emitting EXCEPT ![e] = "idle"]
          /\ UNCHANGED <<hasUpdate, pc, written, shutdown, unlocked, cancelled, expired, evicting, stopping>>
      BY <1>33 DEF EmitStoreFails, StoreUpdate, callVars, clientVars
    <2>2. \A t \in Threads : pc[t] \notin {"judge", "send", "unlock"}
      BY <2>1, ThreadsAssumption
    <2>3. Fresh => Fresh'
      BY <2>1
    <2>4. UpdateIsFresh'
      BY <2>1, <2>2, <2>3
    <2>5. UpdatesInOrder'
      BY <2>1
    <2> QED
      BY <2>1, <2>4, <2>5
  <1> QED
    BY <1>1, <1>2, <1>3, <1>4, <1>5, <1>6, <1>7, <1>8, <1>9, <1>10, <1>11, <1>12, <1>13, <1>14,
        <1>15, <1>16, <1>17, <1>18, <1>19, <1>20, <1>21, <1>22, <1>23, <1>24, <1>25, <1>26,
        <1>27, <1>28, <1>29, <1>30, <1>31, <1>32, <1>33 DEF Next, Proceed, Emit

-----------------------------------------------------------------------------
\* In every state of a Connect call, whatever threads, emitters, the queue, the
\* service and the client do: mtx_ excludes, what is written is in order (and,
\* while res_ is only updated under mtx_, never repeated, and complete unless its
\* conversion failed over one that waited), and the call ends in one of the ways
\* EndsInNamedWays names, never under the connection queue.
THEOREM CallIsSound == Spec => []CallSound
  <1>1. Init => IInv
    <2> SUFFICES ASSUME Init PROVE IInv
      OBVIOUS
    <2>1. TypeOK
      <3>1. pc \in [Threads -> Labels] /\ \A t \in Threads : pc[t] = "idle"
        BY DEF Init, Labels
      <3>2. /\ written \in Seq(Nat) /\ inflight \in Nat /\ stored \in Nat /\ res \in 0 .. stored
            /\ failed \subseteq 1..stored /\ finishes \in Seq({"kProcess", "kWrite", "kFinish"})
        BY DEF Init
      <3>3. emitting \in [Emitters -> {"idle", "store", "clear", "fill", "notify"}]
        BY DEF Init
      <3>4. \A t \in Threads : t # mtx
        BY ThreadsAssumption DEF Init
      <3> QED
        BY <3>1, <3>2, <3>3, <3>4 DEF Init, TypeOK
    <2>2. OrderInv
      BY DEF Init, OrderInv, UpdatesInOrder, UpdateIsFresh
    <2>3. Len(finishes) = 0 /\ \A t \in Threads : pc[t] = "idle"
      BY DEF Init
    <2>4. EndInv
      BY <2>3 DEF Init, EndInv, Baton, FinishIsLast, Aborted, Driving
    <2> QED
      BY <2>1, <2>2, <2>4 DEF IInv
  <1>2. IInv => CallSound
    BY DEF IInv, CallSound, EndInv, OrderInv, EndsInNamedWays, Baton, FinishIsLast, Driving
  <1>3. IInv /\ [Next]_vars => IInv'
    BY TypeStep, EndStep, OrderStep DEF IInv
  <1> QED
    BY <1>1, <1>2, <1>3, PTL DEF Spec
-----------------------------------------------------------------------------
(* Subscriptions *)

\* The next step of the call needs a mutex that another call holds.
Blocked(t) ==
    \/ at[t] \in {"add", "remove", "list"} /\ managerMutex # Nobody
    \/ at[t] \in {"lookup", "set"} /\ deviceMutex # Nobody
    \/ at[t] = "write" /\ answer[t] # {} /\ deviceMutex # Nobody
    \/ at[t] = "emit" /\ subscribersListen /\ managerMutex # Nobody

\* As long as no call that adds a subscription and one that sets a value, with a
\* listener, hold a mutex each, some call in progress can go on.
BlockedOnlyByLockOrder ==
    (\E t \in Callers : at[t] # "idle") /\ ~LockOrderInversion
        => \E t \in Callers : at[t] # "idle" /\ ~Blocked(t)

\* Subtrees are made of oids, and so is what a name stands for.
LEMMA ExpansionType ==
    ASSUME NEW name \in Names, NEW readable \in SUBSET Oids
    PROVE  Expansion(name, readable) \subseteq Oids
  BY OidsAssumption DEF Expansion, Names, Bases

\* A name stands for nothing that its removal does not match: a subtree is found
\* by its prefix.
LEMMA ExpansionMatches ==
    ASSUME NEW name \in Names \cup {NoName}
    PROVE  Expansion(name, Oids) \subseteq Matching(name)
  BY OidsAssumption DEF Expansion, Matching, Names, NoName, Bases

\* The types are an inductive invariant: a call holds a mutex exactly where its
\* critical section is.
LEMMA SubscriptionsTypeStep ==
    SubscriptionsTypeOK /\ [SubscriptionsNext]_subscriptionsVars => SubscriptionsTypeOK'
  <1> SUFFICES ASSUME SubscriptionsTypeOK, [SubscriptionsNext]_subscriptionsVars
               PROVE  SubscriptionsTypeOK'
    OBVIOUS
  <1> USE CallersAssumption DEF SubscriptionsTypeOK, Proceeds
  <1>1. CASE UNCHANGED subscriptionsVars
    BY <1>1 DEF subscriptionsVars
  <1>2. ASSUME NEW t \in Callers, UpdateSubscriptions(t) \/ SetValue(t) \/ Finish(t)
        PROVE  SubscriptionsTypeOK'
    BY <1>2 DEF UpdateSubscriptions, SetValue, Finish
  <1>3. ASSUME NEW t \in Callers, LockForAdd(t) \/ LockForSet(t) \/ EmitValueSet(t)
        PROVE  SubscriptionsTypeOK'
    BY <1>3 DEF LockForAdd, LockForSet, EmitValueSet
  <1>4. ASSUME NEW t \in Callers, NEW added \in Names, NEW readable \in SUBSET Oids,
               AddSubscription(t, added, readable)
        PROVE  SubscriptionsTypeOK'
    BY <1>4, ExpansionType DEF AddSubscription
  <1>5. ASSUME NEW t \in Callers, RemoveSubscription(t) \/ GetAllSubscribedOids(t) \/ WriteNext(t)
        PROVE  SubscriptionsTypeOK'
    BY <1>5 DEF RemoveSubscription, GetAllSubscribedOids, WriteNext
  <1> QED
    BY <1>1, <1>2, <1>3, <1>4, <1>5 DEF SubscriptionsNext, Continue

\* The mutexes exclude: one is held by the call that is in its critical section and
\* by no other.
THEOREM SubscriptionsTyped == SubscriptionsSpec => []SubscriptionsTypeOK
  <1>1. SubscriptionsInit => SubscriptionsTypeOK
    BY CallersAssumption DEF SubscriptionsInit, SubscriptionsTypeOK
  <1> QED
    BY <1>1, SubscriptionsTypeStep, PTL DEF SubscriptionsSpec

\* The calls block each other for good in one way only.
THEOREM SubscriptionsBlock == SubscriptionsSpec => []BlockedOnlyByLockOrder
  <1>1. SubscriptionsTypeOK => BlockedOnlyByLockOrder
    <2> SUFFICES ASSUME SubscriptionsTypeOK, NEW t \in Callers, at[t] # "idle", ~LockOrderInversion
                 PROVE  \E u \in Callers : at[u] # "idle" /\ ~Blocked(u)
      BY DEF BlockedOnlyByLockOrder
    <2>1. CASE deviceMutex # Nobody
      <3>1. deviceMutex \in Callers /\ at[deviceMutex] = "emit"
        BY <2>1 DEF SubscriptionsTypeOK
      <3>2. ~(subscribersListen /\ managerMutex # Nobody)
        BY <3>1 DEF SubscriptionsTypeOK, LockOrderInversion
      <3> QED
        BY <3>1, <3>2 DEF Blocked
    <2>2. CASE deviceMutex = Nobody /\ managerMutex # Nobody
      <3>1. managerMutex \in Callers /\ at[managerMutex] = "lookup"
        BY <2>2 DEF SubscriptionsTypeOK
      <3> QED
        BY <2>2, <3>1 DEF Blocked
    <2>3. CASE deviceMutex = Nobody /\ managerMutex = Nobody
      BY <2>3 DEF Blocked
    <2> QED
      BY <2>1, <2>2, <2>3
  <1> QED
    BY <1>1, SubscriptionsTyped, PTL

\* Whatever the other clients do, a removal leaves no subscription to an oid that
\* its name stands for.
THEOREM SubscriptionsRemoved == SubscriptionsSpec => RemovesWhatItNames
  <1> DEFINE Removed ==
        \A t \in Callers : at[t] = "remove" /\ at'[t] = "list"
                              => subscriptions' \cap Expansion(removing[t], Oids) = {}
  <1>1. SubscriptionsTypeOK /\ [SubscriptionsNext]_subscriptionsVars => [Removed]_subscriptionsVars
    <2> SUFFICES ASSUME SubscriptionsTypeOK, SubscriptionsNext,
                        NEW t \in Callers, at[t] = "remove", at'[t] = "list"
                 PROVE  subscriptions' \cap Expansion(removing[t], Oids) = {}
      OBVIOUS
    <2>1. subscriptions' = subscriptions \ Matching(removing[t])
      BY DEF SubscriptionsTypeOK, SubscriptionsNext, Continue, Proceeds, UpdateSubscriptions,
         SetValue, LockForAdd, AddSubscription, RemoveSubscription, GetAllSubscribedOids,
         WriteNext, Finish, LockForSet, EmitValueSet
    <2> QED
      BY <2>1, ExpansionMatches DEF SubscriptionsTypeOK
  <1> QED
    BY <1>1, SubscriptionsTyped, PTL DEF SubscriptionsSpec, RemovesWhatItNames
=============================================================================
