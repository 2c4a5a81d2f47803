--------------------------- MODULE GoServerProofs ---------------------------
(***************************************************************************)
(* Theorems about GoServer, for any streams, slots, scopes and programs:   *)
(* what clients are told of slots and values, how transports come down,    *)
(* and that a heartbeat stays under control.                               *)
(***************************************************************************)
EXTENDS GoServer, FiniteSetTheorems, SequenceTheorems, TLAPS

-----------------------------------------------------------------------------
(* The inductive invariants *)

\* A Heartbeat is the server's or was taken out by one call, which stops it: the
\* server's is running, so is one that is about to be stopped, and neither is made
\* a second time.
HeartbeatsOwned ==
    /\ heartbeat # Nil => heartbeat \in running /\ \A c \in Callers : taken[c] # heartbeat
    /\ \A c, d \in Callers : taken[c] = taken[d] /\ taken[c] # Nil => c = d
    /\ \A c \in Callers : at[c] \in {"none", "take"} => taken[c] = Nil
    /\ \A c \in Callers : at[c] = "stop" => taken[c] \in running
    /\ \A c \in Callers : at[c] = "wait" => taken[c] # Nil
    /\ \A c \in Callers : taken[c] # Nil => at[taken[c]] = "returned"
    /\ \A h \in running : at[h] = "returned"

\* The inductive invariant of the heartbeat
BeatInv == HeartbeatTypeOK /\ BeatsUnderControl /\ HeartbeatsOwned

\* Values of q have scopes that s may read, and the numbers of broadcasts so far.
ValuesOf(q, s) ==
    \A i \in DOMAIN q : q[i].kind = "value" => q[i].scope \in ReadScopes[s] \cup {""} /\ q[i].n <= broadcasts

\* Values of q come in the order of the broadcasts.
Ordered(q) ==
    \A i, j \in DOMAIN q : i < j /\ q[i].kind = "value" /\ q[j].kind = "value" => q[i].n < q[j].n

\* Values of q come before values of r.
Before(q, r) ==
    \A i \in DOMAIN q, j \in DOMAIN r : q[i].kind = "value" /\ r[j].kind = "value" => q[i].n < r[j].n

\* What a client has been sent, and what waits for it in Updates, are values that it
\* may read in the order of the broadcasts; a stream that is not registered has none.
StreamsOrdered ==
    \A s \in Streams :
        /\ ValuesOf(received[s], s) /\ ValuesOf(updates[s], s)
        /\ Ordered(received[s]) /\ Ordered(updates[s]) /\ Before(received[s], updates[s])
        /\ pc[s] \in {"none", "accepted"} => updates[s] = <<>> /\ received[s] = <<>>

\* slot is named by an update of q.
Names(q, slot) == \E i \in DOMAIN q : q[i].kind = "slots" /\ slot \in q[i].slots

\* A client that lost no update was told of a slot, will be, or the slot is still to
\* be announced.
SlotsNamed ==
    \A s \in connections \ dropped : pc[s] = "streaming" =>
        \A slot \in slots : Names(received[s], slot) \/ Names(updates[s], slot) \/ slot \in announcing

DownCalls == {"begin", "owner", "drain", "await", "remaining", "drainRemaining"}

\* A transport is the server's, or belongs to the one call that takes it down.
TransportsOwned ==
    /\ shutdown <=> call[Stop] # "none"
    /\ call[Stop] = "none" => left = {} /\ current[Stop] = "none"
    /\ call[Stop] # "none" => transports = {}
    /\ call[Stop] # "remaining"
    /\ call[Stop] \in {"drainRemaining", "returned"} => left = {}
    /\ call[Stop] \in DownCalls \ {"drainRemaining"} => current[Stop] \in Transports
    /\ \A t \in Transports :
          /\ current[t] \in {t, "none"} /\ call[t] \notin {"heartbeat", "next"}
          /\ call[t] = "none" => current[t] = "none"
          /\ call[t] \in DownCalls => current[t] = t
          /\ current[t] = t => t \notin transports \cup left /\ current[Stop] # t
          /\ t \in transports \cup left => listener[t] = "serving"
          /\ \A o \in Calls : current[o] = t => listener[t] # "new"
          /\ current[Stop] = t => t \notin left

\* A transport that serves is in the list of transports or some call takes it down;
\* when its call goes on after it is down, it is, and by then no stream of it runs
\* unless the call ran out of time.
TransportsComeDown ==
    \A t \in Transports :
        /\ \/ listener[t] \in {"new", "stopped"} \/ t \in transports \cup left \/ call[t] # "none"
           \/ current[Stop] = t /\ call[Stop] \in {"begin", "owner", "drain", "await"}
        /\ current[t] = t /\ call[t] \in {"remaining", "drainRemaining", "returned"} => listener[t] = "stopped"
        /\ current[t] = t /\ listener[t] = "stopped" => Running(t) = {} \/ t \in expired

\* connectionQueue.shutdown waits for all connections, and lets in no other.
QueueDrained ==
    /\ call[Stop] \in {"drainRemaining", "returned"} => shuttingDown /\ connections \subseteq draining[Stop]
    /\ call[Stop] = "returned" => connections = {}
    /\ stopped <=> call[Stop] = "returned"

\* The types of what the calls and the listeners work on
ControlTypes ==
    /\ transports \subseteq Transports /\ left \subseteq Transports
    /\ shutdown \in BOOLEAN /\ stopped \in BOOLEAN /\ shuttingDown \in BOOLEAN
    /\ listener \in [Transports -> {"new", "serving", "told", "graceful", "stopped"}]
    /\ connections \subseteq {s \in Streams : pc[s] \in {"streaming", "leaving"}}
    /\ done \subseteq Streams /\ cancelled \subseteq Streams
    /\ pc \in [Streams -> {"none", "accepted", "streaming", "leaving", "ended"}]
    /\ via \in [Streams -> Transports \cup {"none"}]
    /\ call \in [Calls -> {"none", "heartbeat", "next", "returned"} \cup DownCalls]
    /\ current \in [Calls -> Transports \cup {"none"}]
    /\ draining \in [Calls -> SUBSET Streams] /\ waiting \subseteq Calls \X Streams /\ expired \subseteq Calls

\* The types of what clients are sent
DataTypes ==
    /\ slots \subseteq Slots /\ announcing \subseteq slots /\ dropped \subseteq Streams
    /\ updates \in [Streams -> Seq(Updates)] /\ received \in [Streams -> Seq(Updates)]
    /\ \A s \in Streams : Len(updates[s]) <= Capacity
    /\ broadcasts \in 0..MaxBroadcasts

\* The inductive invariants of the server: of its calls, and of what it sends
ControlInv == ControlTypes /\ TransportsOwned /\ TransportsComeDown /\ QueueDrained
DataInv == DataTypes /\ StreamsOrdered /\ SlotsNamed
-----------------------------------------------------------------------------
(* The heartbeat *)

\* A call takes the Heartbeat of the server: it is the only one to have it.
LEMMA TakeStep ==
    ASSUME BeatInv, NEW c \in Callers, Take(c) PROVE BeatInv'
<1> USE HeartbeatAssumption DEF BeatInv, Callers
<1>1. /\ at[c] = "take" /\ taken' = [taken EXCEPT ![c] = heartbeat] /\ heartbeat' = Nil
      /\ at' = [at EXCEPT ![c] = IF heartbeat = Nil THEN "store" ELSE "stop"]
      /\ UNCHANGED <<beat, running, within, replaced>>
  BY DEF Take, At
<1>2. HeartbeatTypeOK'
  BY <1>1 DEF HeartbeatTypeOK
<1>3. HeartbeatsOwned'
  BY <1>1 DEF HeartbeatTypeOK, HeartbeatsOwned
<1>4. BeatsUnderControl'
  BY <1>1 DEF HeartbeatTypeOK, HeartbeatsOwned, BeatsUnderControl, EveryBeatCanBeStopped, StoppedBeforeNext
<1> QED BY <1>2, <1>3, <1>4

\* Heartbeat.Stop: the Heartbeat was running, so that its goroutine is waited for.
LEMMA StopBeatStep ==
    ASSUME BeatInv, NEW c \in Callers, StopBeat(c) PROVE BeatInv'
<1> USE HeartbeatAssumption DEF BeatInv, Callers
<1>1. /\ at[c] = "stop" /\ taken[c] \in running /\ running' = running \ {taken[c]}
      /\ at' = [at EXCEPT ![c] = "wait"]
      /\ UNCHANGED <<heartbeat, beat, taken, within, replaced>>
  BY DEF StopBeat, At, HeartbeatsOwned
<1>2. taken[c] # Nil /\ taken[c] \in HeartbeatCalls
  BY <1>1 DEF HeartbeatTypeOK
<1>3. HeartbeatTypeOK'
  BY <1>1 DEF HeartbeatTypeOK
<1>4. HeartbeatsOwned'
  BY <1>1, <1>2 DEF HeartbeatTypeOK, HeartbeatsOwned
<1>5. EveryBeatCanBeStopped'
  <2> SUFFICES ASSUME NEW h \in running' 
               PROVE  h = heartbeat' \/ h \in replaced' \/ \E d \in Callers : at'[d] = "stop" /\ taken'[d] = h
    BY DEF EveryBeatCanBeStopped
  <2>1. CASE \E d \in Callers : at[d] = "stop" /\ taken[d] = h
    <3>1. PICK d \in Callers : at[d] = "stop" /\ taken[d] = h
      BY <2>1
    <3>2. d # c
      BY <1>1, <3>1
    <3>3. at'[d] = "stop" /\ taken'[d] = h
      BY <1>1, <3>1, <3>2 DEF HeartbeatTypeOK
    <3> QED BY <3>3
  <2> QED BY <1>1, <2>1 DEF BeatsUnderControl, EveryBeatCanBeStopped
<1>6. StoppedBeforeNext'
  BY <1>1 DEF HeartbeatTypeOK, BeatsUnderControl, StoppedBeforeNext
<1> QED BY <1>3, <1>4, <1>5, <1>6 DEF BeatsUnderControl

\* A call goes on when the goroutine has ended.
LEMMA WaitBeatStep ==
    ASSUME BeatInv, NEW c \in Callers, WaitBeat(c) PROVE BeatInv'
<1> USE HeartbeatAssumption DEF BeatInv, Callers
<1>1. /\ at[c] = "wait" /\ beat[taken[c]] = "exited" /\ at' = [at EXCEPT ![c] = "store"]
      /\ UNCHANGED <<heartbeat, beat, running, taken, within, replaced>>
  BY DEF WaitBeat, At
<1>2. HeartbeatTypeOK' /\ HeartbeatsOwned'
  BY <1>1 DEF HeartbeatTypeOK, HeartbeatsOwned
<1>3. BeatsUnderControl'
  BY <1>1 DEF HeartbeatTypeOK, BeatsUnderControl, EveryBeatCanBeStopped, StoppedBeforeNext
<1> QED BY <1>2, <1>3

\* StartHeartbeat puts a new Heartbeat in the place of what is there by now.
LEMMA StoreStep ==
    ASSUME BeatInv, NEW c \in Callers, Store(c) PROVE BeatInv'
<1> USE HeartbeatAssumption DEF BeatInv, Callers
<1>1. at[c] = "store" /\ at' = [at EXCEPT ![c] = "returned"] /\ taken' = taken /\ within' = within
  BY DEF Store, At
<1>2. CASE c \notin HeartbeatCalls
  <2>1. UNCHANGED <<heartbeat, running, beat, replaced>>
    BY <1>2 DEF Store
  <2>2. HeartbeatTypeOK' /\ HeartbeatsOwned'
    BY <1>1, <2>1 DEF HeartbeatTypeOK, HeartbeatsOwned
  <2>3. BeatsUnderControl'
    BY <1>1, <2>1 DEF HeartbeatTypeOK, BeatsUnderControl, EveryBeatCanBeStopped, StoppedBeforeNext
  <2> QED BY <2>2, <2>3
<1>3. CASE c \in HeartbeatCalls
  <2>1. /\ heartbeat' = c /\ running' = running \cup {c} /\ beat' = [beat EXCEPT ![c] = "idle"]
        /\ replaced' = replaced \cup ({heartbeat} \ {Nil})
    BY <1>3 DEF Store
  <2>2. c \notin running /\ \A d \in Callers : taken[d] # c
    BY <1>1, <1>3 DEF HeartbeatsOwned, HeartbeatTypeOK
  <2>3. HeartbeatTypeOK'
    BY <1>1, <1>3, <2>1 DEF HeartbeatTypeOK
  <2>4. HeartbeatsOwned'
    BY <1>1, <1>3, <2>1, <2>2 DEF HeartbeatTypeOK, HeartbeatsOwned
  <2>5. BeatsUnderControl'
    BY <1>1, <1>3, <2>1, <2>2 DEF HeartbeatTypeOK, BeatsUnderControl, EveryBeatCanBeStopped, StoppedBeforeNext
  <2> QED BY <2>3, <2>4, <2>5
<1> QED BY <1>2, <1>3

\* The goroutine of a Heartbeat leaves an ended one ended.
LEMMA RunStep ==
    ASSUME BeatInv, NEW h \in HeartbeatCalls, Run(h) PROVE BeatInv'
<1> USE HeartbeatAssumption DEF BeatInv, Callers
<1>1. PICK b \in {"idle", "handler", "exited"} : beat' = [beat EXCEPT ![h] = b]
  BY DEF Run, Tick, HandlersReturn, Exit
<1>2. beat[h] # "exited" /\ UNCHANGED <<heartbeat, running, at, taken, within, replaced>>
  BY DEF Run, Tick, HandlersReturn, Exit
<1>3. HeartbeatTypeOK' /\ HeartbeatsOwned'
  BY <1>1, <1>2 DEF HeartbeatTypeOK, HeartbeatsOwned
<1>4. BeatsUnderControl'
  BY <1>1, <1>2 DEF HeartbeatTypeOK, BeatsUnderControl, EveryBeatCanBeStopped, StoppedBeforeNext
<1> QED BY <1>3, <1>4

\* A call begins without a Heartbeat.
LEMMA CallBeginsStep ==
    ASSUME BeatInv, NEW c \in Callers, NEW h \in HeartbeatCalls \cup {Nil}, Call(c, h) PROVE BeatInv'
<1> USE HeartbeatAssumption DEF BeatInv, Callers
<1>1. /\ at[c] = "none" /\ at' = [at EXCEPT ![c] = "take"] /\ within' = [within EXCEPT ![c] = h]
      /\ UNCHANGED <<heartbeat, beat, running, taken, replaced>>
  BY DEF Call, At
<1>2. HeartbeatTypeOK' /\ HeartbeatsOwned'
  BY <1>1 DEF HeartbeatTypeOK, HeartbeatsOwned
<1>3. BeatsUnderControl'
  BY <1>1 DEF HeartbeatTypeOK, BeatsUnderControl, EveryBeatCanBeStopped, StoppedBeforeNext
<1> QED BY <1>2, <1>3

\* The heartbeat keeps its invariant, whoever takes a step.
LEMMA BeatInvStep == BeatInv /\ program \in Programs /\ [Next]_vars => BeatInv'
<1> SUFFICES ASSUME BeatInv, program \in Programs, [Next]_vars PROVE BeatInv'
  OBVIOUS
<1>1. ASSUME UNCHANGED heartbeatVars PROVE BeatInv'
  BY <1>1 DEF heartbeatVars, BeatInv, HeartbeatTypeOK, HeartbeatsOwned, BeatsUnderControl,
       EveryBeatCanBeStopped, StoppedBeforeNext
<1>2. CASE Heartbeats
  <2>1. program.heartbeats \subseteq HeartbeatCalls
    BY ProgramsAssumption DEF Program
  <2>2. ASSUME NEW c \in program.heartbeats, NEW h \in HeartbeatCalls \cup {Nil}, Call(c, h) PROVE BeatInv'
    BY <2>1, <2>2, CallBeginsStep DEF Callers
  <2>3. ASSUME NEW c \in Callers, CallStepOf(c) PROVE BeatInv'
    BY <2>3, TakeStep, StopBeatStep, WaitBeatStep, StoreStep DEF CallStepOf
  <2>4. ASSUME NEW h \in HeartbeatCalls, Run(h) PROVE BeatInv'
    BY <2>4, RunStep
  <2> QED BY <1>2, <2>2, <2>3, <2>4 DEF Heartbeats
<1>3. CASE Shutdown
  <2>1. PICK h \in HeartbeatCalls \cup {Nil} : Call(Stop, h)
    BY <1>3 DEF Shutdown
  <2>2. Stop \in Callers
    BY DEF Callers
  <2> QED BY <2>1, <2>2, CallBeginsStep
<1>4. CASE UNCHANGED vars
  BY <1>1, <1>4 DEF vars
<1> QED BY <1>1, <1>2, <1>3, <1>4 DEF Next

\* A transport that starts is in the list of transports and serves.
LEMMA RegisterTransportControl ==
    ASSUME ControlInv, NEW t \in Transports, RegisterTransport(t) PROVE ControlInv'
<1> USE TransportsAssumption
    DEF ControlInv, Transports, Calls, Stop, RegisterTransport, queueVars, streamVars, callVars
<1>1. ControlTypes'
  BY DEF ControlTypes, TransportsOwned, DownCalls
<1>2. TransportsOwned'
  BY DEF ControlTypes, TransportsOwned, DownCalls
<1>3. TransportsComeDown'
  BY DEF ControlTypes, TransportsOwned, TransportsComeDown, DownCalls, Running
<1>4. QueueDrained'
  BY DEF ControlTypes, TransportsOwned, QueueDrained, DownCalls
<1> QED BY <1>1, <1>2, <1>3, <1>4

\* DeregisterTransport takes the transport out of the list, which Shutdown has not
\* emptied if it is in it: from then on it alone takes the transport down.
LEMMA DeregisterTransportControl ==
    ASSUME ControlInv, NEW t \in Transports, DeregisterTransport(t) PROVE ControlInv'
<1> USE DEF ControlInv, Calls
<1>1. Stop \notin Transports /\ "none" \notin Transports
  BY TransportsAssumption
<1>2. /\ call[t] = "none" /\ transports' = transports \ {t}
      /\ call' = [call EXCEPT ![t] = IF t \in transports THEN "begin" ELSE "returned"]
      /\ current' = [current EXCEPT ![t] = IF t \in transports THEN t ELSE "none"]
      /\ UNCHANGED <<shutdown, stopped, listener, queueVars, streamVars, left, draining, waiting, expired>>
  BY DEF DeregisterTransport, Continue
<1>3. t \in transports => call[Stop] = "none" /\ left = {} /\ current[Stop] = "none" /\ listener[t] = "serving"
  BY <1>1 DEF TransportsOwned
<1>4. ControlTypes'
  BY <1>2 DEF ControlTypes, queueVars, streamVars, DownCalls
<1>5. call'[Stop] = call[Stop] /\ current'[Stop] = current[Stop] /\ \A u \in Transports \ {t} : call'[u] = call[u] /\ current'[u] = current[u]
  BY <1>1, <1>2 DEF ControlTypes
<1>6. current'[t] = (IF t \in transports THEN t ELSE "none") /\ call'[t] = IF t \in transports THEN "begin" ELSE "returned"
  BY <1>1, <1>2 DEF ControlTypes
<1>7. TransportsOwned'
  <2>1. \A u \in Transports : /\ current'[u] \in {u, "none"} /\ call'[u] \notin {"heartbeat", "next"}
                              /\ call'[u] = "none" => current'[u] = "none"
                              /\ call'[u] \in DownCalls => current'[u] = u
    BY <1>5, <1>6 DEF TransportsOwned, DownCalls
  <2>2. \A u \in Transports : /\ current'[u] = u => u \notin transports' \cup left /\ current'[Stop] # u
                              /\ current'[Stop] = u => u \notin left
    BY <1>1, <1>2, <1>3, <1>5, <1>6 DEF TransportsOwned
  <2>3. \A u \in Transports : /\ u \in transports' \cup left => listener[u] = "serving"
                              /\ \A o \in Calls : current'[o] = u => listener[u] # "new"
    BY <1>1, <1>2, <1>3, <1>5, <1>6 DEF TransportsOwned
  <2> QED BY <1>2, <1>5, <2>1, <2>2, <2>3 DEF TransportsOwned
<1>8. TransportsComeDown'
  BY <1>1, <1>2, <1>3, <1>5, <1>6 DEF TransportsComeDown, Running, queueVars, streamVars
<1>9. QueueDrained'
  BY <1>2, <1>5 DEF QueueDrained, queueVars
<1> QED BY <1>4, <1>7, <1>8, <1>9

\* Only a transport that serves accepts streams, and it is not stopped.
LEMMA AcceptControl ==
    ASSUME ControlInv, NEW s \in Streams, NEW t \in Transports, Accept(s, t) PROVE ControlInv'
<1> USE TransportsAssumption
    DEF ControlInv, Transports, Calls, Stop, Accept, Goto, serverVars, queueVars, callVars
<1>1. ControlTypes'
  BY DEF ControlTypes, TransportsOwned, DownCalls
<1>2. TransportsOwned'
  BY DEF ControlTypes, TransportsOwned, DownCalls
<1>3. TransportsComeDown'
  BY DEF ControlTypes, TransportsOwned, TransportsComeDown, DownCalls, Running
<1>4. QueueDrained'
  BY DEF ControlTypes, TransportsOwned, QueueDrained, DownCalls
<1> QED BY <1>1, <1>2, <1>3, <1>4

\* A stream that registers was accepted before, so it runs already; after
\* connectionQueue.shutdown none does.
LEMMA RegisterTransportConnectionControl ==
    ASSUME ControlInv, NEW s \in Streams, RegisterTransportConnection(s) PROVE ControlInv'
<1> USE TransportsAssumption
    DEF ControlInv, Transports, Calls, Stop, RegisterTransportConnection, Goto, serverVars, callVars
<1>1. ControlTypes'
  BY DEF ControlTypes, TransportsOwned, DownCalls
<1>2. TransportsOwned'
  BY DEF ControlTypes, TransportsOwned, DownCalls
<1>3. TransportsComeDown'
  BY DEF ControlTypes, TransportsOwned, TransportsComeDown, DownCalls, Running
<1>4. QueueDrained'
  BY DEF ControlTypes, TransportsOwned, QueueDrained, DownCalls
<1> QED BY <1>1, <1>2, <1>3, <1>4

\* Sending is no concern of the calls.
LEMMA SendUpdateControl ==
    ASSUME ControlInv, NEW s \in Streams, SendUpdate(s) PROVE ControlInv'
<1> USE TransportsAssumption
    DEF ControlInv, Transports, Calls, Stop, SendUpdate, Goto, serverVars, callVars
<1>1. ControlTypes'
  BY DEF ControlTypes, TransportsOwned, DownCalls
<1>2. TransportsOwned'
  BY DEF ControlTypes, TransportsOwned, DownCalls
<1>3. TransportsComeDown'
  BY DEF ControlTypes, TransportsOwned, TransportsComeDown, DownCalls, Running
<1>4. QueueDrained'
  BY DEF ControlTypes, TransportsOwned, QueueDrained, DownCalls
<1> QED BY <1>1, <1>2, <1>3, <1>4

\* A stream that leaves still runs, and is registered.
LEMMA LeaveControl ==
    ASSUME ControlInv, NEW s \in Streams, Leave(s) PROVE ControlInv'
<1> USE TransportsAssumption
    DEF ControlInv, Transports, Calls, Stop, Leave, Goto, serverVars, queueVars, callVars
<1>1. ControlTypes'
  BY DEF ControlTypes, TransportsOwned, DownCalls
<1>2. TransportsOwned'
  BY DEF ControlTypes, TransportsOwned, DownCalls
<1>3. TransportsComeDown'
  BY DEF ControlTypes, TransportsOwned, TransportsComeDown, DownCalls, Running
<1>4. QueueDrained'
  BY DEF ControlTypes, TransportsOwned, QueueDrained, DownCalls
<1> QED BY <1>1, <1>2, <1>3, <1>4

\* A stream that ends leaves the queue first.
LEMMA DeregisterConnectionControl ==
    ASSUME ControlInv, NEW s \in Streams, DeregisterConnection(s) PROVE ControlInv'
<1> USE TransportsAssumption
    DEF ControlInv, Transports, Calls, Stop, DeregisterConnection, Goto, Forget, serverVars
<1>1. ControlTypes'
  BY DEF ControlTypes, TransportsOwned, DownCalls
<1>2. TransportsOwned'
  BY DEF ControlTypes, TransportsOwned, DownCalls
<1>3. TransportsComeDown'
  BY DEF ControlTypes, TransportsOwned, TransportsComeDown, DownCalls, Running
<1>4. QueueDrained'
  BY DEF ControlTypes, TransportsOwned, QueueDrained, DownCalls
<1> QED BY <1>1, <1>2, <1>3, <1>4

\* A cancelled context changes nothing until the stream leaves.
LEMMA ClientDisconnectsControl ==
    ASSUME ControlInv, NEW s \in Streams, ClientDisconnects(s) PROVE ControlInv'
<1> USE TransportsAssumption
    DEF ControlInv, Transports, Calls, Stop, ClientDisconnects, serverVars, queueVars, callVars
<1>1. ControlTypes'
  BY DEF ControlTypes, TransportsOwned, DownCalls
<1>2. TransportsOwned'
  BY DEF ControlTypes, TransportsOwned, DownCalls
<1>3. TransportsComeDown'
  BY DEF ControlTypes, TransportsOwned, TransportsComeDown, DownCalls, Running
<1>4. QueueDrained'
  BY DEF ControlTypes, TransportsOwned, QueueDrained, DownCalls
<1> QED BY <1>1, <1>2, <1>3, <1>4

\* Shutdown takes all transports that the server has.
LEMMA ShutdownControl ==
    ASSUME ControlInv, Shutdown PROVE ControlInv'
<1> USE DEF ControlInv, Calls
<1>1. Stop \notin Transports /\ "none" \notin Transports
  BY TransportsAssumption
<1>2. /\ call[Stop] = "none" /\ call' = [call EXCEPT ![Stop] = "heartbeat"] /\ shutdown' = TRUE
      /\ left' = transports /\ transports' = {}
      /\ UNCHANGED <<stopped, listener, queueVars, streamVars, current, draining, waiting, expired>>
  BY DEF Shutdown, Continue
<1>3. ControlTypes'
  BY <1>2 DEF ControlTypes, queueVars, streamVars, DownCalls
<1>4. call'[Stop] = "heartbeat" /\ current[Stop] = "none" /\ left = {} /\ \A t \in Transports : call'[t] = call[t]
  BY <1>1, <1>2 DEF ControlTypes, TransportsOwned
<1>5. TransportsOwned'
  BY <1>1, <1>2, <1>4 DEF TransportsOwned, DownCalls
<1>6. TransportsComeDown'
  BY <1>1, <1>2, <1>4 DEF TransportsComeDown, Running, queueVars, streamVars
<1>7. QueueDrained'
  BY <1>2, <1>4 DEF QueueDrained, queueVars
<1> QED BY <1>3, <1>5, <1>6, <1>7

\* Shutdown goes on when the heartbeat is over.
LEMMA HeartbeatStoppedControl ==
    ASSUME ControlInv, HeartbeatStopped PROVE ControlInv'
<1> USE TransportsAssumption
    DEF ControlInv, Transports, Calls, Stop, HeartbeatStopped, Continue, serverVars, queueVars, streamVars
<1>1. ControlTypes'
  BY DEF ControlTypes, TransportsOwned, DownCalls
<1>2. TransportsOwned'
  BY DEF ControlTypes, TransportsOwned, DownCalls
<1>3. TransportsComeDown'
  BY DEF ControlTypes, TransportsOwned, TransportsComeDown, DownCalls, Running
<1>4. QueueDrained'
  BY DEF ControlTypes, TransportsOwned, QueueDrained, DownCalls
<1> QED BY <1>1, <1>2, <1>3, <1>4

\* Shutdown takes the next of its transports, which no other call has.
LEMMA NextTransportControl ==
    ASSUME ControlInv, NextTransport PROVE ControlInv'
<1> USE TransportsAssumption
    DEF ControlInv, Transports, Calls, Stop, NextTransport, Continue, serverVars, queueVars, streamVars
<1>1. ControlTypes'
  BY DEF ControlTypes, TransportsOwned, DownCalls
<1>2. TransportsOwned'
  BY DEF ControlTypes, TransportsOwned, DownCalls
<1>3. TransportsComeDown'
  BY DEF ControlTypes, TransportsOwned, TransportsComeDown, DownCalls, Running
<1>4. QueueDrained'
  BY DEF ControlTypes, TransportsOwned, QueueDrained, DownCalls
<1> QED BY <1>1, <1>2, <1>3, <1>4

\* A transport that is told to shut down is the one of the call.
LEMMA BeginTransportShutdownControl ==
    ASSUME ControlInv, NEW o \in Calls, BeginTransportShutdown(o) PROVE ControlInv'
<1> USE TransportsAssumption
    DEF ControlInv, Transports, Calls, Stop, BeginTransportShutdown, Continue, serverVars, queueVars, streamVars
<1>1. ControlTypes'
  BY DEF ControlTypes, TransportsOwned, DownCalls
<1>2. TransportsOwned'
  BY DEF ControlTypes, TransportsOwned, DownCalls
<1>3. TransportsComeDown'
  BY DEF ControlTypes, TransportsOwned, TransportsComeDown, DownCalls, Running
<1>4. QueueDrained'
  BY DEF ControlTypes, TransportsOwned, QueueDrained, DownCalls
<1> QED BY <1>1, <1>2, <1>3, <1>4

\* A listener that closes still waits for its streams.
LEMMA StopServingControl ==
    ASSUME ControlInv, NEW t \in Transports, StopServing(t) PROVE ControlInv'
<1> USE TransportsAssumption
    DEF ControlInv, Transports, Calls, Stop, StopServing, serverVars, queueVars, streamVars, callVars
<1>1. ControlTypes'
  BY DEF ControlTypes, TransportsOwned, DownCalls
<1>2. TransportsOwned'
  BY DEF ControlTypes, TransportsOwned, DownCalls
<1>3. TransportsComeDown'
  BY DEF ControlTypes, TransportsOwned, TransportsComeDown, DownCalls, Running
<1>4. QueueDrained'
  BY DEF ControlTypes, TransportsOwned, QueueDrained, DownCalls
<1> QED BY <1>1, <1>2, <1>3, <1>4

\* The http server stops when no stream of it runs.
LEMMA RestServerStopsControl ==
    ASSUME ControlInv, RestServerStops PROVE ControlInv'
<1> USE TransportsAssumption
    DEF ControlInv, Transports, Calls, Stop, RestServerStops, serverVars, queueVars, streamVars, callVars
<1>1. ControlTypes'
  BY DEF ControlTypes, TransportsOwned, DownCalls
<1>2. TransportsOwned'
  BY DEF ControlTypes, TransportsOwned, DownCalls
<1>3. TransportsComeDown'
  BY DEF ControlTypes, TransportsOwned, TransportsComeDown, DownCalls, Running
<1>4. QueueDrained'
  BY DEF ControlTypes, TransportsOwned, QueueDrained, DownCalls
<1> QED BY <1>1, <1>2, <1>3, <1>4

\* GracefulStop returns when no stream of it runs.
LEMMA GrpcServerStopsControl ==
    ASSUME ControlInv, GrpcServerStops PROVE ControlInv'
<1> USE TransportsAssumption
    DEF ControlInv, Transports, Calls, Stop, GrpcServerStops, serverVars, queueVars, streamVars, callVars
<1>1. ControlTypes'
  BY DEF ControlTypes, TransportsOwned, DownCalls
<1>2. TransportsOwned'
  BY DEF ControlTypes, TransportsOwned, DownCalls
<1>3. TransportsComeDown'
  BY DEF ControlTypes, TransportsOwned, TransportsComeDown, DownCalls, Running
<1>4. QueueDrained'
  BY DEF ControlTypes, TransportsOwned, QueueDrained, DownCalls
<1> QED BY <1>1, <1>2, <1>3, <1>4

\* The http server is closed by force only if the call that shuts it down, which is
\* the only one that has the transport, ran out of time.
LEMMA RestForcesCloseControl ==
    ASSUME ControlInv, RestForcesClose PROVE ControlInv'
<1> USE TransportsAssumption
    DEF ControlInv, Transports, Calls, Stop, RestForcesClose, serverVars, queueVars, callVars
<1>1. ControlTypes'
  BY DEF ControlTypes, TransportsOwned, DownCalls, Running
<1>2. TransportsOwned'
  BY DEF ControlTypes, TransportsOwned, DownCalls
<1>3. TransportsComeDown'
  <2>1. current[Rest] = Rest => Rest \in expired
    <3>1. PICK o \in expired : current[o] = Rest
      BY DEF ForcedBy
    <3>2. o \in {Rest, Grpc, Stop}
      BY DEF ControlTypes
    <3>3. o # Grpc
      BY <3>1 DEF TransportsOwned
    <3>4. current[Rest] = Rest => o # Stop
      BY <3>1 DEF TransportsOwned
    <3> QED BY <3>1, <3>2, <3>3, <3>4
  <2>2. /\ listener' = [listener EXCEPT ![Rest] = "stopped"]
        /\ UNCHANGED <<transports, left, call, current, expired, pc, via>>
    OBVIOUS
  <2> QED BY ONLY TransportsAssumption, ControlInv, <2>1, <2>2
        DEF ControlInv, ControlTypes, TransportsComeDown, Running, Transports, Calls, Stop
<1>4. QueueDrained'
  BY DEF ControlTypes, TransportsOwned, QueueDrained, DownCalls
<1> QED BY <1>1, <1>2, <1>3, <1>4

\* So is the gRPC server, by the call itself.
LEMMA GrpcForcesStopControl ==
    ASSUME ControlInv, NEW o \in Calls, GrpcForcesStop(o) PROVE ControlInv'
<1> USE TransportsAssumption
    DEF ControlInv, Transports, Calls, Stop, GrpcForcesStop, serverVars, queueVars, callVars
<1>1. ControlTypes'
  BY DEF ControlTypes, TransportsOwned, DownCalls, Running
<1>2. TransportsOwned'
  BY DEF ControlTypes, TransportsOwned, DownCalls
<1>3. TransportsComeDown'
  BY DEF ControlTypes, TransportsOwned, TransportsComeDown, DownCalls, Running
<1>4. QueueDrained'
  BY DEF ControlTypes, TransportsOwned, QueueDrained, DownCalls
<1> QED BY <1>1, <1>2, <1>3, <1>4

\* The connections of the transport are drained; nothing else changes hands.
LEMMA shutdownOwnerControl ==
    ASSUME ControlInv, NEW o \in Calls, shutdownOwner(o) PROVE ControlInv'
<1> USE TransportsAssumption
    DEF ControlInv, Transports, Calls, Stop, shutdownOwner, Continue, serverVars, queueVars, streamVars
<1>1. ControlTypes'
  BY DEF ControlTypes, TransportsOwned, DownCalls
<1>2. TransportsOwned'
  BY DEF ControlTypes, TransportsOwned, DownCalls
<1>3. TransportsComeDown'
  BY DEF ControlTypes, TransportsOwned, TransportsComeDown, DownCalls, Running
<1>4. QueueDrained'
  BY DEF ControlTypes, TransportsOwned, QueueDrained, DownCalls
<1> QED BY <1>1, <1>2, <1>3, <1>4

\* All connections are drained, and from then on no other is registered.
LEMMA shutdownQueueControl ==
    ASSUME ControlInv, shutdownQueue PROVE ControlInv'
<1> USE TransportsAssumption
    DEF ControlInv, Transports, Calls, Stop, shutdownQueue, Continue, serverVars, streamVars
<1>1. ControlTypes'
  BY DEF ControlTypes, TransportsOwned, DownCalls
<1>2. TransportsOwned'
  BY DEF ControlTypes, TransportsOwned, DownCalls
<1>3. TransportsComeDown'
  BY DEF ControlTypes, TransportsOwned, TransportsComeDown, DownCalls, Running
<1>4. QueueDrained'
  BY DEF ControlTypes, TransportsOwned, QueueDrained, DownCalls
<1> QED BY <1>1, <1>2, <1>3, <1>4

\* A connection that is waited for is waited for until it is not registered.
LEMMA shutdownConnectionControl ==
    ASSUME ControlInv, NEW o \in Calls, NEW s \in Streams, shutdownConnection(o, s) PROVE ControlInv'
<1> USE TransportsAssumption
    DEF ControlInv, Transports, Calls, Stop, shutdownConnection, serverVars, streamVars
<1>1. ControlTypes'
  BY DEF ControlTypes, TransportsOwned, DownCalls
<1>2. TransportsOwned'
  BY DEF ControlTypes, TransportsOwned, DownCalls
<1>3. TransportsComeDown'
  BY DEF ControlTypes, TransportsOwned, TransportsComeDown, DownCalls, Running
<1>4. QueueDrained'
  BY DEF ControlTypes, TransportsOwned, QueueDrained, DownCalls
<1> QED BY <1>1, <1>2, <1>3, <1>4

\* The watchdog takes a connection out of the queue.
LEMMA WatchdogControl ==
    ASSUME ControlInv, NEW o \in Calls, NEW s \in Streams, Watchdog(o, s) PROVE ControlInv'
<1> USE TransportsAssumption
    DEF ControlInv, Transports, Calls, Stop, Watchdog, Forget, serverVars, streamVars
<1>1. ControlTypes'
  BY DEF ControlTypes, TransportsOwned, DownCalls
<1>2. TransportsOwned'
  BY DEF ControlTypes, TransportsOwned, DownCalls
<1>3. TransportsComeDown'
  BY DEF ControlTypes, TransportsOwned, TransportsComeDown, DownCalls, Running
<1>4. QueueDrained'
  BY DEF ControlTypes, TransportsOwned, QueueDrained, DownCalls
<1> QED BY <1>1, <1>2, <1>3, <1>4

\* When all are drained no connection is left, as none was registered meanwhile.
LEMMA DrainedControl ==
    ASSUME ControlInv, NEW o \in Calls, Drained(o) PROVE ControlInv'
<1> USE TransportsAssumption
    DEF ControlInv, Transports, Calls, Stop, Drained, Continue, queueVars, streamVars
<1>1. ControlTypes'
  BY DEF ControlTypes, TransportsOwned, DownCalls
<1>2. TransportsOwned'
  BY DEF ControlTypes, TransportsOwned, DownCalls
<1>3. TransportsComeDown'
  BY DEF ControlTypes, TransportsOwned, TransportsComeDown, DownCalls, Running
<1>4. QueueDrained'
  BY DEF ControlTypes, TransportsOwned, QueueDrained, DownCalls
<1> QED BY <1>1, <1>2, <1>3, <1>4

\* The call goes on when the transport is down.
LEMMA TransportIsDownControl ==
    ASSUME ControlInv, NEW o \in Calls, TransportIsDown(o) PROVE ControlInv'
<1> USE TransportsAssumption
    DEF ControlInv, Transports, Calls, Stop, TransportIsDown, Continue, serverVars, queueVars, streamVars
<1>1. ControlTypes'
  BY DEF ControlTypes, TransportsOwned, DownCalls
<1>2. TransportsOwned'
  BY DEF ControlTypes, TransportsOwned, DownCalls
<1>3. TransportsComeDown'
  BY DEF ControlTypes, TransportsOwned, TransportsComeDown, DownCalls, Running
<1>4. QueueDrained'
  BY DEF ControlTypes, TransportsOwned, QueueDrained, DownCalls
<1> QED BY <1>1, <1>2, <1>3, <1>4

\* A call that runs out of time is no worse off.
LEMMA ExpireControl ==
    ASSUME ControlInv, NEW o \in Calls, Expire(o) PROVE ControlInv'
<1> USE TransportsAssumption
    DEF ControlInv, Transports, Calls, Stop, Expire, serverVars, queueVars, streamVars
<1>1. ControlTypes'
  BY DEF ControlTypes, TransportsOwned, DownCalls
<1>2. TransportsOwned'
  BY DEF ControlTypes, TransportsOwned, DownCalls
<1>3. TransportsComeDown'
  BY DEF ControlTypes, TransportsOwned, TransportsComeDown, DownCalls, Running
<1>4. QueueDrained'
  BY DEF ControlTypes, TransportsOwned, QueueDrained, DownCalls
<1> QED BY <1>1, <1>2, <1>3, <1>4
-----------------------------------------------------------------------------
(* What clients are sent *)

\* Everything that is sent is of a known kind.
LEMMA UpdateKinds ==
    ASSUME NEW q \in Seq(Updates), NEW i \in DOMAIN q
    PROVE  /\ q[i] \in Updates
           /\ q[i].kind = "value" => q[i].n \in Int
<1>1. q[i] \in Updates
  OBVIOUS
<1>2. CASE q[i] \in [kind : {"slots"}, slots : SUBSET Slots]
  BY <1>1, <1>2
<1>3. CASE q[i] \in [kind : {"value"}, n : 1..MaxBroadcasts, scope : Scopes \cup {""}]
  <2>1. q[i].n \in 1..MaxBroadcasts
    BY <1>3
  <2> QED BY <1>1, <2>1
<1> QED BY <1>1, <1>2, <1>3 DEF Updates

\* What Append returns
LEMMA Appended ==
    ASSUME NEW S, NEW q \in Seq(S), NEW u \in S, NEW r, r = Append(q, u)
    PROVE  /\ r \in Seq(S) /\ Len(r) = Len(q) + 1 /\ Len(q) \in Nat
           /\ DOMAIN q = 1..Len(q) /\ DOMAIN r = 1..(Len(q) + 1)
           /\ \A i \in DOMAIN q : r[i] = q[i] /\ i \in DOMAIN r
           /\ r[Len(q) + 1] = u /\ Len(q) + 1 \in DOMAIN r
           /\ \A i \in DOMAIN r : i \in DOMAIN q \/ i = Len(q) + 1
           /\ \A i, j \in DOMAIN r : i < j => i \in DOMAIN q
<1>1. /\ r \in Seq(S) /\ Len(r) = Len(q) + 1 /\ \A i \in 1..Len(q) : r[i] = q[i]
      /\ r[Len(q) + 1] = u
  BY AppendProperties
<1>2. Len(q) \in Nat /\ DOMAIN q = 1..Len(q) /\ DOMAIN r = 1..Len(r)
  BY <1>1
<1>3. \A n \in Nat : /\ \A i \in 1..n : i \in 1..(n + 1)
                     /\ n + 1 \in 1..(n + 1)
                     /\ \A i \in 1..(n + 1) : i \in 1..n \/ i = n + 1
                     /\ \A i, j \in 1..(n + 1) : i < j => i \in 1..n
  OBVIOUS
<1> QED BY <1>1, <1>2, <1>3

\* What appending an update does to the values of a sequence, and to the slots it
\* names.
LEMMA AppendUpdate ==
    ASSUME NEW s, NEW q \in Seq(Updates), NEW u \in Updates, ValuesOf(q, s), Ordered(q),
           u.kind = "value" => /\ u.scope \in ReadScopes[s] \cup {""} /\ u.n <= broadcasts'
                               /\ \A i \in DOMAIN q : q[i].kind = "value" => q[i].n < u.n,
           broadcasts \in Int, broadcasts' \in Int, broadcasts <= broadcasts'
    PROVE  /\ Append(q, u) \in Seq(Updates) /\ Len(Append(q, u)) = Len(q) + 1
           /\ ValuesOf(Append(q, u), s)' /\ Ordered(Append(q, u))
           /\ \A slot : Names(q, slot) => Names(Append(q, u), slot)
           /\ \A slot : u.kind = "slots" /\ slot \in u.slots => Names(Append(q, u), slot)
<1> DEFINE r == Append(q, u)
<1>1. /\ r \in Seq(Updates) /\ Len(r) = Len(q) + 1
      /\ \A i \in DOMAIN q : r[i] = q[i] /\ i \in DOMAIN r
      /\ r[Len(q) + 1] = u /\ Len(q) + 1 \in DOMAIN r
      /\ \A i \in DOMAIN r : i \in DOMAIN q \/ i = Len(q) + 1
      /\ \A i, j \in DOMAIN r : i < j => i \in DOMAIN q
  <2>1. r = Append(q, u) /\ q \in Seq(Updates) /\ u \in Updates
    OBVIOUS
  <2> HIDE DEF r
  <2> QED BY ONLY <2>1, Appended
<1> HIDE DEF r
<1>3. ValuesOf(r, s)'
  <2> SUFFICES ASSUME NEW i \in DOMAIN r, r[i].kind = "value"
               PROVE  r[i].scope \in ReadScopes[s] \cup {""} /\ r[i].n <= broadcasts'
    BY DEF ValuesOf
  <2>1. CASE i \in DOMAIN q
    <3>1. q[i].kind = "value" /\ q[i].n \in Int /\ q[i].n <= broadcasts /\ q[i].scope \in ReadScopes[s] \cup {""}
      BY <1>1, <2>1, UpdateKinds DEF ValuesOf
    <3>2. r[i] = q[i]
      BY <1>1, <2>1
    <3>3. q[i].n <= broadcasts'
      <4> DEFINE a == q[i].n
      <4>1. a \in Int /\ a <= broadcasts /\ broadcasts \in Int /\ broadcasts' \in Int /\ broadcasts <= broadcasts'
        BY <3>1
      <4> HIDE DEF a
      <4>2. a <= broadcasts'
        BY ONLY <4>1
      <4> QED BY <4>2 DEF a
    <3> QED BY <3>1, <3>2, <3>3
  <2>2. CASE i = Len(q) + 1
    BY <1>1, <2>2
  <2> QED BY <1>1, <2>1, <2>2
<1>4. Ordered(r)
  <2> SUFFICES ASSUME NEW i \in DOMAIN r, NEW j \in DOMAIN r, i < j, r[i].kind = "value", r[j].kind = "value"
               PROVE  r[i].n < r[j].n
    BY DEF Ordered
  <2>1. i \in DOMAIN q
    BY <1>1
  <2>2. CASE j \in DOMAIN q
    BY <1>1, <2>1, <2>2 DEF Ordered
  <2>3. CASE j = Len(q) + 1
    BY <1>1, <2>1, <2>3
  <2> QED BY <1>1, <2>2, <2>3
<1>5. \A slot : Names(q, slot) => Names(r, slot)
  BY <1>1 DEF Names
<1>6. \A slot : u.kind = "slots" /\ slot \in u.slots => Names(r, slot)
  BY <1>1 DEF Names
<1> QED BY <1>1, <1>3, <1>4, <1>5, <1>6 DEF r

\* Values stay values of broadcasts so far when there is another one.
LEMMA ValuesKeep ==
    ASSUME NEW s, NEW q \in Seq(Updates), ValuesOf(q, s),
           broadcasts \in Int, broadcasts' \in Int, broadcasts <= broadcasts'
    PROVE  ValuesOf(q, s)'
<1> SUFFICES ASSUME NEW i \in DOMAIN q, q[i].kind = "value"
             PROVE  q[i].scope \in ReadScopes[s] \cup {""} /\ q[i].n <= broadcasts'
  BY DEF ValuesOf
<1> DEFINE a == q[i].n
<1>1. a \in Int /\ a <= broadcasts /\ broadcasts \in Int /\ broadcasts' \in Int /\ broadcasts <= broadcasts'
  BY UpdateKinds DEF ValuesOf
<1>2. q[i].scope \in ReadScopes[s] \cup {""}
  BY DEF ValuesOf
<1> HIDE DEF a
<1>3. a <= broadcasts'
  BY ONLY <1>1
<1> QED BY <1>2, <1>3 DEF a

\* Taking the first update out of Updates leaves the rest in order.
LEMMA TailUpdates ==
    ASSUME NEW s, NEW q \in Seq(Updates), q # <<>>, NEW r \in Seq(Updates),
           ValuesOf(q, s), Ordered(q), Before(r, q)
    PROVE  /\ Tail(q) \in Seq(Updates) /\ Len(Tail(q)) = Len(q) - 1
           /\ ValuesOf(Tail(q), s) /\ Ordered(Tail(q)) /\ Before(r, Tail(q))
           /\ Head(q) = q[1] /\ 1 \in DOMAIN q /\ Head(q) \in Updates
           /\ \A i \in DOMAIN Tail(q) : i + 1 \in DOMAIN q /\ Tail(q)[i] = q[i + 1]
           /\ \A i \in DOMAIN q : i = 1 \/ (i - 1 \in DOMAIN Tail(q) /\ q[i] = Tail(q)[i - 1])
<1>1. /\ Tail(q) \in Seq(Updates) /\ Len(Tail(q)) = Len(q) - 1 /\ Len(q) \in Nat \ {0}
      /\ DOMAIN q = 1..Len(q) /\ DOMAIN Tail(q) = 1..(Len(q) - 1)
      /\ Head(q) = q[1] /\ Head(q) \in Updates
  OBVIOUS
<1>2. \A i \in DOMAIN Tail(q) : i + 1 \in DOMAIN q /\ Tail(q)[i] = q[i + 1] /\ i \in Int
  BY <1>1
<1>3. \A i \in DOMAIN q : i = 1 \/ (i - 1 \in DOMAIN Tail(q) /\ q[i] = Tail(q)[i - 1])
  BY <1>1
<1>4. ValuesOf(Tail(q), s)
  BY <1>2 DEF ValuesOf
<1>5. Ordered(Tail(q))
  <2> SUFFICES ASSUME NEW i \in DOMAIN Tail(q), NEW j \in DOMAIN Tail(q), i < j,
                      Tail(q)[i].kind = "value", Tail(q)[j].kind = "value"
               PROVE  Tail(q)[i].n < Tail(q)[j].n
    BY DEF Ordered
  <2>1. i + 1 < j + 1
    BY <1>2
  <2> QED BY <1>2, <2>1 DEF Ordered
<1>6. Before(r, Tail(q))
  BY <1>2 DEF Before
<1> QED BY <1>1, <1>2, <1>3, <1>4, <1>5, <1>6

\* Calls and listeners do not touch what clients are sent, and streams that leave
\* are no concern of SlotsNamed.
LEMMA DataUnchanged ==
    ASSUME DataInv, UNCHANGED <<slots, announcing, dropped, updates, received, broadcasts>>,
           connections' \subseteq connections,
           \A s \in Streams : pc'[s] = "streaming" => pc[s] = "streaming",
           \A s \in Streams : pc'[s] \in {"none", "accepted"} => pc[s] \in {"none", "accepted"},
           connections \subseteq Streams
    PROVE  DataInv'
<1> USE DEF DataInv
<1>1. DataTypes'
  BY DEF DataTypes
<1>2. StreamsOrdered'
  BY DEF StreamsOrdered, ValuesOf
<1>3. SlotsNamed'
  BY DEF SlotsNamed
<1> QED BY <1>1, <1>2, <1>3
\* Arithmetic, without its context
LEMMA AtMostLess ==
    ASSUME NEW x \in Int, NEW y \in Int, NEW z \in Int, x <= y, y < z PROVE x < z
OBVIOUS


\* notifyUpdate keeps what is sent in order, of the right scopes and within the
\* capacity; whom it does not reach it has dropped an update of, or may not read it.
LEMMA NotifyStep ==
    ASSUME DataInv, ControlTypes, NEW update \in Updates, NEW scope, notifyUpdate(update, scope),
           update.kind = "value" => /\ update.scope = scope /\ update.n \in Int
                                    /\ broadcasts < update.n /\ update.n <= broadcasts',
           broadcasts' \in 0..MaxBroadcasts, broadcasts <= broadcasts', UNCHANGED <<received, pc>>
    PROVE  /\ updates' \in [Streams -> Seq(Updates)]
           /\ \A s \in Streams : Len(updates'[s]) <= Capacity
           /\ dropped' \subseteq Streams
           /\ StreamsOrdered'
           /\ \A s \in Streams : \A slot : Names(updates[s], slot) => Names(updates'[s], slot)
           /\ dropped \subseteq dropped'
           /\ update.kind = "slots" => \A s \in connections \ dropped' : \A slot \in update.slots :
                                           Names(updates'[s], slot)
<1> DEFINE readers == {s \in connections : update.kind = "value" /\ scope # "" => scope \in ReadScopes[s]}
           full == {s \in readers : Len(updates[s]) = Capacity}
<1>1. /\ updates' = [s \in Streams |-> IF s \in readers \ full THEN Append(updates[s], update) ELSE updates[s]]
      /\ dropped' = dropped \cup full
  BY DEF notifyUpdate
<1>2. /\ broadcasts \in Int /\ broadcasts' \in Int /\ broadcasts <= broadcasts'
      /\ Capacity \in Nat /\ MaxBroadcasts \in Nat
  BY MaxAssumption, CapacityAssumption DEF DataInv, DataTypes
<1>3. connections \subseteq Streams /\ \A s \in connections : pc[s] \notin {"none", "accepted"}
  BY DEF ControlTypes
<1>4. ASSUME NEW s \in readers \ full
      PROVE  /\ updates'[s] \in Seq(Updates) /\ Len(updates'[s]) <= Capacity
             /\ ValuesOf(updates[s], s)' /\ Ordered(updates'[s]) /\ Before(received[s], updates'[s])
             /\ \A slot : Names(updates[s], slot) => Names(updates'[s], slot)
             /\ \A slot : update.kind = "slots" /\ slot \in update.slots => Names(updates'[s], slot)
  <2>0. PICK q, r, p : q = updates[s] /\ r = received[s] /\ p = updates'[s]
    OBVIOUS
  <2>1. s \in Streams /\ s \in connections /\ p = Append(q, update)
    BY <1>1, <1>3, <2>0
  <2>2. /\ q \in Seq(Updates) /\ r \in Seq(Updates) /\ Len(q) <= Capacity /\ Len(q) # Capacity
        /\ ValuesOf(q, s) /\ ValuesOf(r, s) /\ Ordered(q) /\ Before(r, q)
    BY <2>0, <2>1 DEF DataInv, DataTypes, StreamsOrdered
  <2>3. ASSUME NEW m \in Seq(Updates), ValuesOf(m, s), update.kind = "value"
        PROVE  \A i \in DOMAIN m : m[i].kind = "value" => m[i].n < update.n
    <3> SUFFICES ASSUME NEW i \in DOMAIN m, m[i].kind = "value" PROVE m[i].n < update.n
      OBVIOUS
    <3> DEFINE a == m[i].n
               b == update.n
    <3>1. /\ a \in Int /\ a <= broadcasts /\ b \in Int /\ broadcasts < b
          /\ broadcasts \in Int
      BY <1>2, <2>3, UpdateKinds DEF ValuesOf
    <3> HIDE DEF a, b
    <3>2. a < b
      BY ONLY <3>1, AtMostLess
    <3> QED BY <3>2 DEF a, b
  <2>4. update.kind = "value" => /\ update.scope \in ReadScopes[s] \cup {""} /\ update.n <= broadcasts'
                                 /\ \A i \in DOMAIN q : q[i].kind = "value" => q[i].n < update.n
    <3> SUFFICES ASSUME update.kind = "value"
                 PROVE  /\ update.scope \in ReadScopes[s] \cup {""} /\ update.n <= broadcasts'
                        /\ \A i \in DOMAIN q : q[i].kind = "value" => q[i].n < update.n
      OBVIOUS
    <3>1. update.scope \in ReadScopes[s] \cup {""}
      <4>1. scope # "" => scope \in ReadScopes[s]
        OBVIOUS
      <4>2. update.scope = scope
        OBVIOUS
      <4> QED BY ONLY <4>1, <4>2
    <3>2. update.n <= broadcasts'
      OBVIOUS
    <3>3. \A i \in DOMAIN q : q[i].kind = "value" => q[i].n < update.n
      BY <2>2, <2>3
    <3> QED BY <3>1, <3>2, <3>3
  <2> HIDE DEF readers, full
  <2>5. /\ p \in Seq(Updates) /\ Len(p) = Len(q) + 1 /\ ValuesOf(p, s)' /\ Ordered(p)
        /\ \A slot : Names(q, slot) => Names(p, slot)
        /\ \A slot : update.kind = "slots" /\ slot \in update.slots => Names(p, slot)
    BY ONLY <1>2, <2>1, <2>2, <2>4, update \in Updates, AppendUpdate
  <2>6. Before(r, p)
    <3> SUFFICES ASSUME NEW i \in DOMAIN r, NEW j \in DOMAIN p, r[i].kind = "value", p[j].kind = "value"
                 PROVE  r[i].n < p[j].n
      BY DEF Before
    <3>1. (j \in DOMAIN q /\ p[j] = q[j]) \/ p[j] = update
      BY <2>1, <2>2, Appended
    <3>2. CASE j \in DOMAIN q /\ p[j] = q[j]
      BY <2>2, <3>2 DEF Before
    <3>3. CASE p[j] = update
      BY <2>2, <2>3, <3>3
    <3> QED BY <3>1, <3>2, <3>3
  <2>7. Len(p) <= Capacity
    <3>1. Len(q) \in Nat
      BY <2>2
    <3> QED BY ONLY <1>2, <2>2, <2>5, <3>1
  <2>8. ValuesOf(updates[s], s)'
    BY <2>0, <2>5 DEF ValuesOf
  <2> QED BY <2>0, <2>5, <2>6, <2>7, <2>8
<1>5. ASSUME NEW s \in Streams, s \notin readers \ full
      PROVE  updates'[s] = updates[s] /\ ValuesOf(updates[s], s)'
  <2>1. updates'[s] = updates[s]
    BY <1>1, <1>5
  <2>2. ValuesOf(updates[s], s) /\ updates[s] \in Seq(Updates)
    BY DEF DataInv, DataTypes, StreamsOrdered
  <2> QED BY <1>2, <2>1, <2>2, ValuesKeep
<1>6. ASSUME NEW s \in Streams PROVE ValuesOf(received[s], s)'
  <2>1. ValuesOf(received[s], s) /\ received[s] \in Seq(Updates) /\ received'[s] = received[s]
    BY DEF DataInv, DataTypes, StreamsOrdered
  <2> QED BY <1>2, <2>1, ValuesKeep
<1>7. readers \subseteq connections /\ full \subseteq readers
  OBVIOUS
<1>8. ASSUME update.kind = "slots" PROVE readers = connections
  BY <1>8
<1> HIDE DEF readers, full
<1>9. updates' \in [Streams -> Seq(Updates)] /\ \A s \in Streams : Len(updates'[s]) <= Capacity
  <2>1. \A s \in Streams : updates'[s] \in Seq(Updates) /\ Len(updates'[s]) <= Capacity
    BY <1>4, <1>5 DEF DataInv, DataTypes
  <2> QED BY <1>1, <2>1
<1>10. StreamsOrdered'
  <2> SUFFICES ASSUME NEW s \in Streams
               PROVE  /\ ValuesOf(received[s], s)' /\ ValuesOf(updates[s], s)'
                      /\ Ordered(received[s]) /\ Ordered(updates'[s]) /\ Before(received[s], updates'[s])
                      /\ pc[s] \in {"none", "accepted"} => updates'[s] = <<>> /\ received[s] = <<>>
    BY DEF StreamsOrdered, Ordered, Before
  <2>1. CASE s \in readers \ full
    BY <1>3, <1>4, <1>6, <1>7, <2>1 DEF DataInv, StreamsOrdered
  <2>2. CASE s \notin readers \ full
    BY <1>5, <1>6, <2>2 DEF DataInv, StreamsOrdered
  <2> QED BY <2>1, <2>2
<1>11. dropped' \subseteq Streams /\ dropped \subseteq dropped'
  BY <1>1, <1>3, <1>7 DEF DataInv, DataTypes
<1>12. \A s \in Streams : \A slot : Names(updates[s], slot) => Names(updates'[s], slot)
  BY <1>4, <1>5
<1>13. update.kind = "slots" => \A s \in connections \ dropped' : \A slot \in update.slots : Names(updates'[s], slot)
  BY <1>1, <1>4, <1>8
<1> QED BY <1>9, <1>10, <1>11, <1>12, <1>13

\* The number of the next broadcast
LEMMA NextNumber ==
    ASSUME NEW m \in Nat, NEW b \in 0..m, b < m, NEW n, n = b + 1
    PROVE  n \in 1..m /\ n \in Int /\ b < n /\ b <= n /\ n <= n /\ n \in 0..m
<1>1. b + 1 \in 1..m /\ b + 1 \in Int /\ b < b + 1 /\ b <= b + 1 /\ b + 1 <= b + 1 /\ b + 1 \in 0..m
  OBVIOUS
<1> QED BY <1>1, Zenon

\* Every registered handler's slot is still to be announced.
LEMMA RegisterHandlerData ==
    ASSUME DataInv, NEW slot \in Slots, RegisterHandler(slot) PROVE DataInv'
<1>1. /\ slots' = slots \cup {slot} /\ announcing' = announcing \cup {slot}
      /\ UNCHANGED <<dropped, updates, received, broadcasts, connections, pc>>
  BY DEF RegisterHandler, queueVars, streamVars
<1>2. DataTypes'
  BY <1>1 DEF DataInv, DataTypes
<1>3. StreamsOrdered'
  BY <1>1 DEF DataInv, StreamsOrdered, ValuesOf
<1>4. SlotsNamed'
  BY <1>1 DEF DataInv, SlotsNamed
<1> QED BY <1>2, <1>3, <1>4 DEF DataInv

\* An announced slot is in the queue of every connection that did not drop it.
LEMMA notifySlotsAddedData ==
    ASSUME DataInv, ControlTypes, NEW slot \in Slots, notifySlotsAdded(slot) PROVE DataInv'
<1>1. /\ slot \in announcing /\ announcing' = announcing \ {slot}
      /\ UNCHANGED <<slots, received, broadcasts, connections, pc>>
      /\ notifyUpdate(SlotsAdded({slot}), "")
  BY DEF notifySlotsAdded, streamVars
<1>2. broadcasts \in 0..MaxBroadcasts /\ broadcasts <= broadcasts' /\ broadcasts' \in 0..MaxBroadcasts
  <2>1. broadcasts \in 0..MaxBroadcasts /\ MaxBroadcasts \in Nat /\ broadcasts' = broadcasts
    BY <1>1, MaxAssumption DEF DataInv, DataTypes
  <2> QED BY ONLY <2>1
<1>3. PICK u : u = SlotsAdded({slot})
  OBVIOUS
<1>4. u \in Updates /\ u.kind = "slots" /\ u.slots = {slot}
  BY <1>3 DEF SlotsAdded, Updates
<1>5. notifyUpdate(u, "")
  BY <1>1, <1>3
<1>6. /\ updates' \in [Streams -> Seq(Updates)] /\ \A s \in Streams : Len(updates'[s]) <= Capacity
      /\ dropped' \subseteq Streams /\ StreamsOrdered' /\ dropped \subseteq dropped'
      /\ \A s \in Streams : \A x : Names(updates[s], x) => Names(updates'[s], x)
      /\ \A s \in connections \ dropped' : Names(updates'[s], slot)
  BY <1>1, <1>2, <1>4, <1>5, NotifyStep
<1>7. DataTypes'
  BY <1>1, <1>2, <1>6 DEF DataInv, DataTypes
<1>8. SlotsNamed'
  <2> SUFFICES ASSUME NEW s \in connections \ dropped', pc[s] = "streaming", NEW x \in slots
               PROVE  Names(received[s], x) \/ Names(updates'[s], x) \/ x \in announcing \ {slot}
    BY <1>1 DEF SlotsNamed, Names
  <2>1. Names(received[s], x) \/ Names(updates[s], x) \/ x \in announcing
    BY <1>6 DEF DataInv, SlotsNamed
  <2>2. s \in Streams
    BY DEF ControlTypes
  <2>3. Names(updates'[s], slot) /\ (Names(updates[s], x) => Names(updates'[s], x))
    BY <1>6, <2>2
  <2> QED BY <2>1, <2>3
<1> QED BY <1>6, <1>7, <1>8 DEF DataInv

\* The broadcast of a value comes after all earlier ones, wherever it goes.
LEMMA BroadcastUpdateData ==
    ASSUME DataInv, ControlTypes, NEW scope \in Scopes \cup {""}, BroadcastUpdate(scope) PROVE DataInv'
<1>1. /\ broadcasts < MaxBroadcasts /\ broadcasts' = broadcasts + 1
      /\ UNCHANGED <<slots, announcing, received, connections, pc>>
      /\ notifyUpdate(ValueUpdate(broadcasts', scope), scope)
  BY DEF BroadcastUpdate, serverVars, streamVars
<1>2. broadcasts \in 0..MaxBroadcasts
  BY DEF DataInv, DataTypes
<1>3. PICK n : n = broadcasts'
  OBVIOUS
<1>4. n \in 1..MaxBroadcasts /\ n \in Int /\ broadcasts < n /\ n <= broadcasts' /\ broadcasts <= broadcasts'
      /\ broadcasts' \in 0..MaxBroadcasts
  <2>1. /\ broadcasts \in 0..MaxBroadcasts /\ MaxBroadcasts \in Nat /\ broadcasts < MaxBroadcasts
        /\ n = broadcasts + 1
    BY <1>1, <1>2, <1>3, MaxAssumption
  <2>2. n \in 1..MaxBroadcasts /\ n \in Int /\ broadcasts < n /\ broadcasts <= n /\ n <= n /\ n \in 0..MaxBroadcasts
    BY ONLY <2>1, NextNumber
  <2> QED BY ONLY <1>3, <2>2
<1>5. PICK u : u = ValueUpdate(n, scope)
  OBVIOUS
<1>6. u \in Updates /\ u.kind = "value" /\ u.scope = scope /\ u.n = n
  BY <1>4, <1>5 DEF ValueUpdate, Updates
<1>7. notifyUpdate(u, scope)
  BY <1>1, <1>3, <1>5
<1>8. /\ updates' \in [Streams -> Seq(Updates)] /\ \A s \in Streams : Len(updates'[s]) <= Capacity
      /\ dropped' \subseteq Streams /\ StreamsOrdered' /\ dropped \subseteq dropped'
      /\ \A s \in Streams : \A x : Names(updates[s], x) => Names(updates'[s], x)
  BY <1>1, <1>4, <1>6, <1>7, NotifyStep
<1>9. DataTypes'
  BY <1>1, <1>4, <1>8 DEF DataInv, DataTypes
<1>10. SlotsNamed'
  <2> SUFFICES ASSUME NEW s \in connections \ dropped', pc[s] = "streaming", NEW x \in slots
               PROVE  Names(received[s], x) \/ Names(updates'[s], x) \/ x \in announcing
    BY <1>1 DEF SlotsNamed, Names
  <2>1. Names(received[s], x) \/ Names(updates[s], x) \/ x \in announcing
    BY <1>8 DEF DataInv, SlotsNamed
  <2>2. s \in Streams
    BY DEF ControlTypes
  <2> QED BY <1>8, <2>1, <2>2
<1> QED BY <1>8, <1>9, <1>10 DEF DataInv

\* A connection is registered together with the slots that there are: none is
\* forgotten between reading them and registering.
LEMMA RegisterTransportConnectionData ==
    ASSUME DataInv, ControlTypes, NEW s \in Streams, RegisterTransportConnection(s) PROVE DataInv'
<1>1. /\ pc[s] = "accepted" /\ UNCHANGED <<slots, announcing, dropped, received, broadcasts>>
  BY DEF RegisterTransportConnection, serverVars
<1>2. CASE Goto(s, "ended") /\ UNCHANGED <<connections, updates>>
  <2>1. /\ \A r \in Streams : pc'[r] = "streaming" => pc[r] = "streaming"
        /\ \A r \in Streams : pc'[r] \in {"none", "accepted"} => pc[r] \in {"none", "accepted"}
    BY <1>2 DEF Goto, ControlTypes
  <2> QED BY <1>1, <1>2, <2>1, DataUnchanged DEF ControlTypes
<1>3. CASE /\ connections' = connections \cup {s} /\ Goto(s, "streaming")
           /\ updates' = [updates EXCEPT ![s] = <<SlotsAdded(slots)>>]
  <2>1. PICK q : q = <<SlotsAdded(slots)>>
    OBVIOUS
  <2>2. slots \subseteq Slots
    BY DEF DataInv, DataTypes
  <2>3. /\ SlotsAdded(slots) \in Updates /\ SlotsAdded(slots).kind = "slots"
        /\ SlotsAdded(slots).slots = slots
    BY <2>2 DEF SlotsAdded, Updates
  <2>4. q \in Seq(Updates) /\ Len(q) = 1 /\ DOMAIN q = {1} /\ q[1].kind = "slots" /\ q[1].slots = slots
    BY <2>1, <2>3
  <2>5. /\ updates'[s] = q /\ \A r \in Streams \ {s} : updates'[r] = updates[r] /\ pc'[r] = pc[r]
        /\ pc'[s] = "streaming" /\ received[s] = <<>>
    BY <1>1, <1>3, <2>1 DEF DataInv, DataTypes, StreamsOrdered, ControlTypes, Goto
  <2>6. updates' \in [Streams -> Seq(Updates)] /\ \A r \in Streams : Len(updates'[r]) <= Capacity
    <3>1. \A r \in Streams : updates'[r] \in Seq(Updates) /\ Len(updates'[r]) <= Capacity
      <4>1. 1 <= Capacity
        BY ONLY CapacityAssumption
      <4>2. \A r \in Streams : updates[r] \in Seq(Updates) /\ Len(updates[r]) <= Capacity
        BY DEF DataInv, DataTypes
      <4> QED BY ONLY <2>4, <2>5, <4>1, <4>2
    <3>2. updates' = [r \in Streams |-> updates'[r]]
      BY <1>3, <2>4, <2>1 DEF DataInv, DataTypes
    <3> QED BY <3>1, <3>2
  <2>7. DataTypes'
    BY <1>1, <2>6 DEF DataInv, DataTypes
  <2>8. StreamsOrdered'
    <3> SUFFICES ASSUME NEW r \in Streams
                 PROVE  /\ ValuesOf(received[r], r)' /\ ValuesOf(updates[r], r)'
                        /\ Ordered(received[r]) /\ Ordered(updates'[r]) /\ Before(received[r], updates'[r])
                        /\ pc'[r] \in {"none", "accepted"} => updates'[r] = <<>> /\ received[r] = <<>>
      BY <1>1 DEF StreamsOrdered, Ordered, Before
    <3>1. CASE r # s
      BY <1>1, <2>5, <3>1 DEF DataInv, StreamsOrdered, ValuesOf
    <3>2. CASE r = s
      <4>1. ValuesOf(received[r], r)' /\ Ordered(received[r])
        BY <1>1 DEF DataInv, StreamsOrdered, ValuesOf
      <4>2. ValuesOf(updates[r], r)' /\ Ordered(updates'[r]) /\ Before(received[r], updates'[r])
        <5>1. \A i \in DOMAIN q : q[i].kind # "value"
          BY <2>4
        <5> QED BY <2>5, <3>2, <5>1 DEF ValuesOf, Ordered, Before
      <4> QED BY <2>5, <3>2, <4>1, <4>2
    <3> QED BY <3>1, <3>2
  <2>9. SlotsNamed'
    <3> SUFFICES ASSUME NEW r \in connections' \ dropped, pc'[r] = "streaming", NEW x \in slots
                 PROVE  Names(received[r], x) \/ Names(updates'[r], x) \/ x \in announcing
      BY <1>1 DEF SlotsNamed, Names
    <3>1. CASE r = s
      BY <2>4, <2>5, <3>1 DEF Names
    <3>2. CASE r # s
      <4>1. r \in connections \ dropped /\ pc[r] = "streaming" /\ updates'[r] = updates[r]
        BY <1>3, <2>5, <3>2 DEF ControlTypes
      <4> QED BY <4>1 DEF DataInv, SlotsNamed
    <3> QED BY <3>1, <3>2
  <2> QED BY <2>7, <2>8, <2>9 DEF DataInv
<1> QED BY <1>2, <1>3 DEF RegisterTransportConnection

\* The goroutine of a stream takes the first update out of Updates and sends it, or
\* fails to and leaves.
LEMMA SendUpdateData ==
    ASSUME DataInv, ControlTypes, NEW s \in Streams, SendUpdate(s) PROVE DataInv'
<1>1. /\ pc[s] = "streaming" /\ updates[s] # <<>> /\ updates' = [updates EXCEPT ![s] = Tail(@)]
      /\ UNCHANGED <<slots, announcing, dropped, broadcasts, connections>>
      /\ \/ received' = [received EXCEPT ![s] = Append(@, Head(updates[s]))] /\ UNCHANGED pc
         \/ Goto(s, "leaving") /\ UNCHANGED received
  BY DEF SendUpdate, serverVars
<1>2. PICK q, r : q = updates[s] /\ r = received[s]
  OBVIOUS
<1>3. /\ q \in Seq(Updates) /\ r \in Seq(Updates) /\ q # <<>> /\ Len(q) <= Capacity
      /\ ValuesOf(q, s) /\ ValuesOf(r, s) /\ Ordered(q) /\ Ordered(r) /\ Before(r, q)
  BY <1>1, <1>2 DEF DataInv, DataTypes, StreamsOrdered
<1>4. PICK t : t = Tail(q)
  OBVIOUS
<1>5. /\ t \in Seq(Updates) /\ Len(t) = Len(q) - 1
      /\ ValuesOf(t, s) /\ Ordered(t) /\ Before(r, t)
      /\ Head(q) = q[1] /\ 1 \in DOMAIN q /\ Head(q) \in Updates
      /\ \A i \in DOMAIN t : i + 1 \in DOMAIN q /\ t[i] = q[i + 1]
      /\ \A i \in DOMAIN q : i = 1 \/ (i - 1 \in DOMAIN t /\ q[i] = t[i - 1])
  BY <1>3, <1>4, TailUpdates
<1>6. Len(t) <= Capacity
  <2>1. Len(q) \in Nat /\ Len(q) <= Capacity /\ Len(t) = Len(q) - 1 /\ Capacity \in Nat
    BY <1>3, <1>5, CapacityAssumption
  <2> QED BY ONLY <2>1
<1>7. /\ updates'[s] = t /\ \A o \in Streams \ {s} : updates'[o] = updates[o]
      /\ updates' \in [Streams -> Seq(Updates)]
  BY <1>1, <1>2, <1>4, <1>5 DEF DataInv, DataTypes
<1>8. /\ broadcasts \in Int /\ broadcasts' = broadcasts /\ broadcasts' \in Int /\ broadcasts <= broadcasts'
  <2>1. broadcasts \in 0..MaxBroadcasts /\ broadcasts' = broadcasts /\ MaxBroadcasts \in Nat
    BY <1>1, MaxAssumption DEF DataInv, DataTypes
  <2> QED BY ONLY <2>1
<1>9. ASSUME NEW p, p \in Seq(Updates), received' = [received EXCEPT ![s] = p], ValuesOf(p, s), Ordered(p), Before(p, t),
             \A o \in Streams : pc'[o] = "streaming" => pc[o] = "streaming",
             \A o \in Streams : pc'[o] \in {"none", "accepted"} => pc[o] \in {"none", "accepted"},
             pc'[s] = "streaming" => \A x : Names(r, x) \/ Names(q, x) => Names(p, x) \/ Names(t, x),
             pc'[s] \notin {"none", "accepted"}
      PROVE  DataInv'
  <2>1. /\ received'[s] = p /\ \A o \in Streams \ {s} : received'[o] = received[o]
        /\ received' \in [Streams -> Seq(Updates)]
    BY <1>9 DEF DataInv, DataTypes
  <2>2. \A o \in Streams : Len(updates'[o]) <= Capacity
    BY <1>6, <1>7 DEF DataInv, DataTypes
  <2>3. DataTypes'
    BY <1>1, <1>7, <2>1, <2>2 DEF DataInv, DataTypes
  <2>4. StreamsOrdered'
    <3> SUFFICES ASSUME NEW o \in Streams
                 PROVE  /\ ValuesOf(received[o], o)' /\ ValuesOf(updates[o], o)'
                        /\ Ordered(received'[o]) /\ Ordered(updates'[o]) /\ Before(received'[o], updates'[o])
                        /\ pc'[o] \in {"none", "accepted"} => updates'[o] = <<>> /\ received'[o] = <<>>
      BY DEF StreamsOrdered, Ordered, Before
    <3>1. CASE o # s
      BY <1>1, <1>7, <1>9, <2>1, <3>1 DEF DataInv, StreamsOrdered, ValuesOf
    <3>2. CASE o = s
      BY <1>1, <1>5, <1>7, <1>9, <2>1, <3>2 DEF ValuesOf
    <3> QED BY <3>1, <3>2
  <2>5. SlotsNamed'
    <3> SUFFICES ASSUME NEW o \in connections \ dropped, pc'[o] = "streaming", NEW x \in slots
                 PROVE  Names(received'[o], x) \/ Names(updates'[o], x) \/ x \in announcing
      BY <1>1 DEF SlotsNamed, Names
    <3>1. o \in Streams /\ pc[o] = "streaming"
      BY <1>9 DEF ControlTypes
    <3>2. Names(received[o], x) \/ Names(updates[o], x) \/ x \in announcing
      BY <3>1 DEF DataInv, SlotsNamed
    <3>3. CASE o # s
      BY <1>7, <2>1, <3>1, <3>2, <3>3
    <3>4. CASE o = s
      BY <1>2, <1>7, <1>9, <2>1, <3>2, <3>4
    <3> QED BY <3>3, <3>4
  <2> QED BY <2>3, <2>4, <2>5 DEF DataInv
<1>10. CASE received' = [received EXCEPT ![s] = Append(@, Head(updates[s]))] /\ UNCHANGED pc
  <2>1. PICK u, p : u = Head(q) /\ p = Append(r, u)
    OBVIOUS
  <2>2. /\ u = q[1] /\ u \in Updates
        /\ u.kind = "value" =>
           /\ u.scope \in ReadScopes[s] \cup {""} /\ u.n <= broadcasts
           /\ \A i \in DOMAIN r : r[i].kind = "value" => r[i].n < u.n
    BY <1>3, <1>5, <2>1 DEF ValuesOf, Before
  <2>3. u.kind = "value" => u.n <= broadcasts'
    BY <1>8, <2>2
  <2>4. /\ p \in Seq(Updates) /\ ValuesOf(p, s)' /\ Ordered(p)
        /\ \A x : Names(r, x) => Names(p, x)
        /\ \A x : u.kind = "slots" /\ x \in u.slots => Names(p, x)
    BY <1>3, <1>8, <2>1, <2>2, <2>3, AppendUpdate
  <2>5. ValuesOf(p, s)
    BY <1>8, <2>4 DEF ValuesOf
  <2>6. Before(p, t)
    <3> SUFFICES ASSUME NEW i \in DOMAIN p, NEW j \in DOMAIN t, p[i].kind = "value", t[j].kind = "value"
                 PROVE  p[i].n < t[j].n
      BY DEF Before
    <3>1. (i \in DOMAIN r /\ p[i] = r[i]) \/ p[i] = u
      <4>1. r \in Seq(Updates) /\ u \in Updates /\ p = Append(r, u)
        BY <1>3, <2>1, <2>2
      <4>2. /\ \A k \in DOMAIN r : p[k] = r[k]
            /\ p[Len(r) + 1] = u
            /\ \A k \in DOMAIN p : k \in DOMAIN r \/ k = Len(r) + 1
        BY ONLY <4>1, Appended
      <4> QED BY <4>2
    <3>2. CASE i \in DOMAIN r /\ p[i] = r[i]
      BY <1>5, <3>2 DEF Before
    <3>3. CASE p[i] = u
      <4>1. j + 1 \in DOMAIN q /\ t[j] = q[j + 1] /\ 1 \in DOMAIN q
        BY <1>5
      <4>2. 1 < j + 1
        <5>1. DOMAIN t = 1..Len(t) /\ Len(t) \in Nat
          BY <1>5
        <5> QED BY <5>1
      <4> QED BY <1>3, <2>2, <3>3, <4>1, <4>2 DEF Ordered
    <3> QED BY <3>1, <3>2, <3>3
  <2>7. ASSUME NEW x, Names(q, x) PROVE Names(p, x) \/ Names(t, x)
    <3>1. PICK i \in DOMAIN q : q[i].kind = "slots" /\ x \in q[i].slots
      BY <2>7 DEF Names
    <3>2. CASE i = 1
      BY <2>2, <2>4, <3>1, <3>2
    <3>3. CASE i - 1 \in DOMAIN t /\ q[i] = t[i - 1]
      BY <3>1, <3>3 DEF Names
    <3> QED BY <1>5, <3>2, <3>3
  <2>8. received' = [received EXCEPT ![s] = p]
    BY <1>2, <1>10, <2>1
  <2> QED BY <1>1, <1>9, <1>10, <2>4, <2>5, <2>6, <2>7, <2>8
<1>11. CASE Goto(s, "leaving") /\ UNCHANGED received
  <2>1. received' = [received EXCEPT ![s] = r]
    BY <1>2, <1>11 DEF DataInv, DataTypes
  <2>2. /\ pc'[s] = "leaving" /\ \A o \in Streams \ {s} : pc'[o] = pc[o]
    BY <1>11 DEF Goto, ControlTypes
  <2> QED BY <1>1, <1>3, <1>5, <1>9, <2>1, <2>2
<1> QED BY <1>1, <1>10, <1>11

-----------------------------------------------------------------------------
(* The theorems *)

\* The inductive invariant of the whole server
Inv == program \in Programs /\ BeatInv /\ ControlInv /\ DataInv

\* Registering handlers and sending updates touch no call, listener or connection.
LEMMA ControlUnchanged ==
    ASSUME ControlInv,
           UNCHANGED <<transports, shutdown, stopped, listener, connections, shuttingDown, done, pc, via, cancelled,
                       callVars>>
    PROVE  ControlInv'
<1> USE DEF callVars
<1>1. ControlTypes'
  BY DEF ControlInv, ControlTypes
<1>2. TransportsOwned'
  BY DEF ControlInv, TransportsOwned
<1>3. TransportsComeDown'
  BY DEF ControlInv, TransportsComeDown, Running
<1>4. QueueDrained'
  BY DEF ControlInv, QueueDrained
<1> QED BY <1>1, <1>2, <1>3, <1>4 DEF ControlInv

\* What the application of a program does is of the types the invariants speak of.
LEMMA ProgramTyped ==
    ASSUME program \in Programs
    PROVE  /\ program.transports \subseteq Transports /\ program.slots \subseteq Slots
           /\ program.scopes \subseteq Scopes \cup {""} /\ program.calls \subseteq Calls
           /\ program.streams \subseteq Streams
BY ProgramsAssumption DEF Program

\* Every step of the application, its announcements included, keeps both invariants.
LEMMA ApplicationStep ==
    ASSUME Inv, Application \/ Announce PROVE ControlInv' /\ DataInv'
<1>0. /\ ControlInv /\ DataInv /\ ControlTypes /\ connections \subseteq Streams
      /\ program.transports \subseteq Transports /\ program.slots \subseteq Slots
      /\ program.scopes \subseteq Scopes \cup {""} /\ program.calls \subseteq Calls
  BY ProgramTyped DEF Inv, ControlInv, ControlTypes
<1>1. ASSUME NEW t \in program.transports, RegisterTransport(t) PROVE ControlInv' /\ DataInv'
  <2>1. ControlInv'
    BY <1>0, <1>1, RegisterTransportControl
  <2>2. DataInv'
    BY <1>0, <1>1, DataUnchanged DEF RegisterTransport, queueVars, streamVars
  <2> QED BY <2>1, <2>2
<1>2. ASSUME NEW t \in program.calls \ {Stop}, DeregisterTransport(t) PROVE ControlInv' /\ DataInv'
  <2>1. ControlInv'
    BY <1>0, <1>2, DeregisterTransportControl DEF Calls
  <2>2. DataInv'
    BY <1>0, <1>2, DataUnchanged DEF DeregisterTransport, queueVars, streamVars
  <2> QED BY <2>1, <2>2
<1>3. ASSUME NEW slot \in program.slots, RegisterHandler(slot) PROVE ControlInv' /\ DataInv'
  <2>1. ControlInv'
    BY <1>0, <1>3, ControlUnchanged DEF RegisterHandler, queueVars, streamVars
  <2>2. DataInv'
    BY <1>0, <1>3, RegisterHandlerData
  <2> QED BY <2>1, <2>2
<1>4. ASSUME NEW scope \in program.scopes, BroadcastUpdate(scope) PROVE ControlInv' /\ DataInv'
  <2>1. ControlInv'
    BY <1>0, <1>4, ControlUnchanged DEF BroadcastUpdate, serverVars, streamVars
  <2>2. DataInv'
    BY <1>0, <1>4, BroadcastUpdateData
  <2> QED BY <2>1, <2>2
<1>5. ASSUME NEW slot \in Slots, notifySlotsAdded(slot) PROVE ControlInv' /\ DataInv'
  <2>1. ControlInv'
    BY <1>0, <1>5, ControlUnchanged DEF notifySlotsAdded, streamVars
  <2>2. DataInv'
    BY <1>0, <1>5, notifySlotsAddedData
  <2> QED BY <2>1, <2>2
<1> QED BY <1>1, <1>2, <1>3, <1>4, <1>5 DEF Application, Announce

\* Every step of a stream keeps both invariants.
LEMMA StreamStep ==
    ASSUME Inv, NEW s \in Streams, Stream(s) PROVE ControlInv' /\ DataInv'
<1>0. /\ ControlInv /\ DataInv /\ ControlTypes /\ connections \subseteq Streams
      /\ pc \in [Streams -> {"none", "accepted", "streaming", "leaving", "ended"}]
  BY DEF Inv, ControlInv, ControlTypes
<1>1. ASSUME NEW t \in Transports, Accept(s, t) PROVE ControlInv' /\ DataInv'
  <2>1. ControlInv'
    BY <1>0, <1>1, AcceptControl
  <2>2. DataInv'
    BY <1>0, <1>1, DataUnchanged DEF Accept, serverVars, queueVars, Goto
  <2> QED BY <2>1, <2>2
<1>2. CASE RegisterTransportConnection(s)
  BY <1>0, <1>2, RegisterTransportConnectionControl, RegisterTransportConnectionData
<1>3. CASE SendUpdate(s)
  BY <1>0, <1>3, SendUpdateControl, SendUpdateData
<1>4. CASE Leave(s)
  <2>1. ControlInv'
    BY <1>0, <1>4, LeaveControl
  <2>2. DataInv'
    BY <1>0, <1>4, DataUnchanged DEF Leave, serverVars, queueVars, Goto
  <2> QED BY <2>1, <2>2
<1>5. CASE DeregisterConnection(s)
  <2>1. ControlInv'
    BY <1>0, <1>5, DeregisterConnectionControl
  <2>2. DataInv'
    BY <1>0, <1>5, DataUnchanged DEF DeregisterConnection, serverVars, Goto, Forget
  <2> QED BY <2>1, <2>2
<1>6. CASE ClientDisconnects(s)
  <2>1. ControlInv'
    BY <1>0, <1>6, ClientDisconnectsControl
  <2>2. DataInv'
    BY <1>0, <1>6, DataUnchanged DEF ClientDisconnects, serverVars, queueVars
  <2> QED BY <2>1, <2>2
<1> QED BY <1>1, <1>2, <1>3, <1>4, <1>5, <1>6 DEF Stream

\* No call and no listener touches what clients are sent.
LEMMA CallsSendNothing ==
    ASSUME Inv,
           \/ \E o \in Calls : CallStep(o) \/ Expire(o)
           \/ \E t \in Transports : ListenerStep(t)
           \/ Shutdown
    PROVE  DataInv'
<1>1. DataInv /\ connections \subseteq Streams
  BY DEF Inv, ControlInv, ControlTypes
<1>2. /\ UNCHANGED <<slots, announcing, dropped, updates, received, broadcasts, pc>>
      /\ connections' \subseteq connections
  <2> USE DEF serverVars, queueVars, streamVars, callVars
  <2>1. ASSUME NEW o \in Calls, CallStep(o) \/ Expire(o)
        PROVE  /\ UNCHANGED <<slots, announcing, dropped, updates, received, broadcasts, pc>>
               /\ connections' \subseteq connections
    <3>1. CASE HeartbeatStopped \/ NextTransport \/ shutdownQueue \/ BeginTransportShutdown(o) \/ shutdownOwner(o)
      BY <3>1 DEF HeartbeatStopped, NextTransport, shutdownQueue, BeginTransportShutdown, shutdownOwner
    <3>2. CASE Drained(o) \/ TransportIsDown(o) \/ GrpcForcesStop(o) \/ Expire(o)
      BY <3>2 DEF Drained, TransportIsDown, GrpcForcesStop, Expire
    <3>3. ASSUME NEW s \in Streams, shutdownConnection(o, s) \/ Watchdog(o, s)
          PROVE  /\ UNCHANGED <<slots, announcing, dropped, updates, received, broadcasts, pc>>
                 /\ connections' \subseteq connections
      BY <3>3 DEF shutdownConnection, Watchdog, Forget
    <3> QED BY <2>1, <3>1, <3>2, <3>3 DEF CallStep
  <2>2. ASSUME NEW t \in Transports, ListenerStep(t)
        PROVE  /\ UNCHANGED <<slots, announcing, dropped, updates, received, broadcasts, pc>>
               /\ connections' \subseteq connections
    BY <2>2 DEF ListenerStep, StopServing, RestServerStops, RestForcesClose, GrpcServerStops
  <2>3. CASE Shutdown
    BY <2>3 DEF Shutdown
  <2> QED BY <2>1, <2>2, <2>3
<1> QED BY <1>1, <1>2, DataUnchanged

\* Every step of Shutdown, of DeregisterTransport and of a listener keeps the
\* invariant of the calls.
LEMMA CallsControl ==
    ASSUME ControlInv,
           \/ \E o \in Calls : CallStep(o) \/ Expire(o)
           \/ \E t \in Transports : ListenerStep(t)
           \/ Shutdown
    PROVE  ControlInv'
<1>1. ASSUME NEW o \in Calls, CallStep(o) \/ Expire(o) PROVE ControlInv'
  <2>1. CASE o = Stop /\ (HeartbeatStopped \/ NextTransport \/ shutdownQueue)
    BY <2>1, HeartbeatStoppedControl, NextTransportControl, shutdownQueueControl
  <2>2. CASE BeginTransportShutdown(o) \/ shutdownOwner(o) \/ Drained(o) \/ TransportIsDown(o)
    BY <2>2, BeginTransportShutdownControl, shutdownOwnerControl, DrainedControl, TransportIsDownControl
  <2>3. CASE GrpcForcesStop(o) \/ Expire(o)
    BY <2>3, GrpcForcesStopControl, ExpireControl
  <2>4. CASE \E s \in Streams : shutdownConnection(o, s) \/ Watchdog(o, s)
    BY <2>4, shutdownConnectionControl, WatchdogControl
  <2> QED BY <1>1, <2>1, <2>2, <2>3, <2>4 DEF CallStep
<1>2. ASSUME NEW t \in Transports, ListenerStep(t) PROVE ControlInv'
  BY <1>2, StopServingControl, RestServerStopsControl, RestForcesCloseControl, GrpcServerStopsControl
     DEF ListenerStep
<1>3. CASE Shutdown
  BY <1>3, ShutdownControl
<1> QED BY <1>1, <1>2, <1>3

\* No step changes the program.
LEMMA SameProgram == [Next]_vars => program' = program
<1> SUFFICES ASSUME [Next]_vars PROVE program' = program
  OBVIOUS
<1> USE DEF serverVars
<1>1. CASE Application \/ Announce
  BY <1>1 DEF Application, Announce, RegisterTransport, DeregisterTransport, RegisterHandler, BroadcastUpdate,
              notifySlotsAdded
<1>2. CASE \E s \in program.streams : Stream(s)
  BY <1>2 DEF Stream, Accept, RegisterTransportConnection, SendUpdate, Leave, DeregisterConnection,
              ClientDisconnects
<1>3. CASE \E o \in Calls : CallStep(o) \/ Expire(o)
  BY <1>3 DEF CallStep, Expire, HeartbeatStopped, NextTransport, shutdownQueue, BeginTransportShutdown,
              shutdownOwner, Drained, TransportIsDown, GrpcForcesStop, shutdownConnection, Watchdog
<1>4. CASE \E t \in Transports : ListenerStep(t)
  BY <1>4 DEF ListenerStep, StopServing, RestServerStops, RestForcesClose, GrpcServerStops
<1>5. CASE Shutdown
  BY <1>5 DEF Shutdown
<1>6. CASE UNCHANGED coreVars
  BY <1>6 DEF coreVars
<1> QED BY <1>1, <1>2, <1>3, <1>4, <1>5, <1>6 DEF Next, Core, vars

\* The invariant holds at first: nothing is registered and no call has begun.
LEMMA InvInit == Init => Inv
<1> SUFFICES ASSUME Init PROVE Inv
  OBVIOUS
<1>1. BeatInv
  BY HeartbeatAssumption DEF Init, HeartbeatInit, BeatInv, HeartbeatTypeOK, BeatsUnderControl, EveryBeatCanBeStopped,
     StoppedBeforeNext, HeartbeatsOwned, Callers
<1>2. ControlTypes
  BY DEF Init, ControlTypes, DownCalls
<1>3. TransportsOwned
  BY TransportsAssumption DEF Init, TransportsOwned, DownCalls, Calls
<1>4. TransportsComeDown
  BY TransportsAssumption DEF Init, TransportsComeDown, Calls
<1>5. QueueDrained
  BY DEF Init, QueueDrained, Calls
<1>6. DataTypes
  <2>1. 0 \in 0..MaxBroadcasts /\ 0 <= Capacity
    BY ONLY MaxAssumption, CapacityAssumption
  <2> QED BY <2>1 DEF Init, DataTypes
<1>7. StreamsOrdered
  BY DEF Init, StreamsOrdered, ValuesOf, Ordered, Before
<1>8. SlotsNamed
  BY DEF Init, SlotsNamed
<1> QED BY <1>1, <1>2, <1>3, <1>4, <1>5, <1>6, <1>7, <1>8 DEF Init, Inv, ControlInv, DataInv

\* Every step keeps the invariant.
LEMMA InvStep == Inv /\ [Next]_vars => Inv'
<1> SUFFICES ASSUME Inv, [Next]_vars PROVE Inv'
  OBVIOUS
<1>1. program' \in Programs /\ BeatInv' /\ ControlInv /\ DataInv
  BY SameProgram, BeatInvStep DEF Inv
<1>2. ControlInv' /\ DataInv'
  <2>1. CASE Application \/ Announce
    BY <2>1, ApplicationStep
  <2>2. CASE \E s \in program.streams : Stream(s)
    BY <2>2, StreamStep, ProgramTyped DEF Inv
  <2>3. CASE \/ \E o \in Calls : CallStep(o) \/ Expire(o)
             \/ \E t \in Transports : ListenerStep(t)
             \/ Shutdown
    BY <1>1, <2>3, CallsControl, CallsSendNothing
  <2>4. CASE UNCHANGED coreVars
    <3>1. ControlInv'
      BY <1>1, <2>4, ControlUnchanged DEF coreVars, serverVars, queueVars, streamVars
    <3>2. connections \subseteq Streams
      BY DEF Inv, ControlInv, ControlTypes
    <3>3. DataInv'
      BY <1>1, <2>4, <3>2, DataUnchanged DEF coreVars, serverVars, queueVars, streamVars
    <3> QED BY <3>1, <3>3
  <2> QED BY <2>1, <2>2, <2>3, <2>4 DEF Next, Core, vars
<1> QED BY <1>1, <1>2 DEF Inv

\* The server keeps its invariant.
LEMMA Invariance == Spec => []Inv
BY InvInit, InvStep, PTL DEF Spec

\* However StartHeartbeat, StopHeartbeat and Shutdown overlap, for any number of calls and
\* from any handler: a beating heartbeat can be stopped unless it was replaced, and one that
\* was stopped is over before the call that stopped it goes on.
THEOREM GoBeatsUnderControl == Spec => []BeatsUnderControl
<1>1. Inv => BeatsUnderControl
  BY DEF Inv, BeatInv
<1> QED BY <1>1, Invariance, PTL

\* Shutdown and DeregisterTransport, for any number of streams: when Wait returns no
\* connection is left, no transport is taken down twice, and DeregisterTransport leaves
\* connections behind only when it ran out of time.
THEOREM GoStoppedInPeace == Spec => []StoppedInPeace
<1>1. Inv => TypeOK
  <2>1. Inv => program \in Programs /\ HeartbeatTypeOK /\ ControlTypes /\ DataTypes
    BY DEF Inv, BeatInv, ControlInv, DataInv
  <2>2. ASSUME program \in Programs, HeartbeatTypeOK, ControlTypes, DataTypes PROVE TypeOK
    BY <2>2 DEF TypeOK, ControlTypes, DataTypes, DownCalls
  <2> QED BY <2>1, <2>2
<1>2. Inv => NothingLeftWhenStopped
  <2> SUFFICES ASSUME Inv, stopped
               PROVE  /\ connections = {}
                      /\ \A t \in Transports : listener[t] \in {"new", "stopped"} \/ call[t] # "none"
    BY DEF NothingLeftWhenStopped
  <2>1. call[Stop] = "returned" /\ connections = {}
    BY DEF Inv, ControlInv, QueueDrained
  <2>2. transports = {} /\ left = {}
    BY <2>1 DEF Inv, ControlInv, TransportsOwned
  <2> QED BY <2>1, <2>2 DEF Inv, ControlInv, TransportsComeDown
<1>3. Inv => ShutDownByOne
  BY DEF Inv, ControlInv, TransportsOwned, ShutDownByOne, DownCalls
<1>4. Inv => DeregisteredInPeace
  <2> SUFFICES ASSUME Inv, NEW t \in Transports, NEW s \in connections, call[t] = "returned", current[t] = t,
                      via[s] = t
               PROVE  t \in expired
    BY DEF DeregisteredInPeace
  <2>1. listener[t] = "stopped" /\ (Running(t) = {} \/ t \in expired)
    BY DEF Inv, ControlInv, TransportsComeDown
  <2>2. s \in Running(t)
    BY DEF Inv, ControlInv, ControlTypes, Running
  <2> QED BY <2>1, <2>2
<1>5. Inv => StoppedInPeace
  BY <1>1, <1>2, <1>3, <1>4 DEF StoppedInPeace
<1> QED BY <1>5, Invariance, PTL

\* What a client got is what it was sent, followed by what waits for it.
LEMMA GotProperties ==
    ASSUME NEW r \in Seq(Updates), NEW q \in Seq(Updates), NEW g, g = r \o q
    PROVE  /\ \A i \in DOMAIN r : i \in DOMAIN g /\ g[i] = r[i]
           /\ \A i \in DOMAIN q : i + Len(r) \in DOMAIN g /\ g[i + Len(r)] = q[i]
           /\ \A i \in DOMAIN g : \/ i \in DOMAIN r /\ g[i] = r[i]
                                  \/ i > Len(r) /\ i - Len(r) \in DOMAIN q /\ g[i] = q[i - Len(r)]
           /\ DOMAIN g \subseteq Int /\ Len(r) \in Int /\ \A i \in DOMAIN r : i <= Len(r)
<1>1. /\ g \in Seq(Updates) /\ Len(g) = Len(r) + Len(q)
      /\ \A i \in 1..(Len(r) + Len(q)) : g[i] = IF i <= Len(r) THEN r[i] ELSE q[i - Len(r)]
  BY ConcatProperties
<1>2. /\ DOMAIN r = 1..Len(r) /\ DOMAIN q = 1..Len(q) /\ DOMAIN g = 1..(Len(r) + Len(q))
      /\ Len(r) \in Nat /\ Len(q) \in Nat
  BY <1>1
<1>3. \A m, n \in Nat :
         /\ \A i \in 1..m : i \in 1..(m + n) /\ i <= m
         /\ \A i \in 1..n : i + m \in 1..(m + n) /\ ~(i + m <= m) /\ (i + m) - m = i
         /\ \A i \in 1..(m + n) : (i <= m /\ i \in 1..m) \/ (~(i <= m) /\ i > m /\ i - m \in 1..n)
         /\ 1..(m + n) \subseteq Int /\ m \in Int
  OBVIOUS
<1> QED BY <1>1, <1>2, <1>3

\* However registering slots and connecting overlap, a client that lost no update is
\* told of every slot, except those still to be announced.
THEOREM GoEverySlotAnnounced == Spec => []EverySlotAnnounced
<1>1. Inv => EverySlotAnnounced
  <2> SUFFICES ASSUME Inv, NEW s \in connections \ dropped, pc[s] = "streaming", NEW slot \in slots,
                      slot \notin announcing
               PROVE  slot \in Known(s)
    BY DEF EverySlotAnnounced
  <2>1. s \in Streams
    BY DEF Inv, ControlInv, ControlTypes
  <2>2. Names(received[s], slot) \/ Names(updates[s], slot)
    BY DEF Inv, DataInv, SlotsNamed
  <2>3. PICK r, q, g : r = received[s] /\ q = updates[s] /\ g = r \o q
    OBVIOUS
  <2>4. r \in Seq(Updates) /\ q \in Seq(Updates)
    BY <2>1, <2>3 DEF Inv, DataInv, DataTypes
  <2>5. /\ \A i \in DOMAIN r : i \in DOMAIN g /\ g[i] = r[i]
        /\ \A i \in DOMAIN q : i + Len(r) \in DOMAIN g /\ g[i + Len(r)] = q[i]
    <3>1. g = r \o q
      BY <2>3
    <3> QED BY ONLY <2>4, <3>1, GotProperties
  <2>6. \E i \in DOMAIN g : g[i].kind = "slots" /\ slot \in g[i].slots
    <3>1. CASE Names(r, slot)
      BY <2>5, <3>1 DEF Names
    <3>2. CASE Names(q, slot)
      <4>1. PICK i \in DOMAIN q : q[i].kind = "slots" /\ slot \in q[i].slots
        BY <3>2 DEF Names
      <4>2. i + Len(r) \in DOMAIN g /\ g[i + Len(r)] = q[i]
        BY <2>5
      <4> QED BY <4>1, <4>2
    <3> QED BY <2>2, <2>3, <3>1, <3>2
  <2>7. g = Got(s)
    BY <2>3 DEF Got
  <2> QED BY <2>6, <2>7 DEF Known, Range
<1> QED BY <1>1, Invariance, PTL

\* Values that a client is sent are ones that it may read, and come in the order of the
\* broadcasts, each at most once, for any streams, scopes and number of broadcasts.
THEOREM GoValuesInOrder == Spec => []ValuesOfScopeInOrder
<1>1. Inv => ValuesOfScopeInOrder
  <2> SUFFICES ASSUME Inv, NEW s \in Streams, NEW g, g = Got(s)
               PROVE  /\ \A i \in DOMAIN g : g[i].kind = "value" => g[i].scope \in ReadScopes[s] \cup {""}
                      /\ \A i, j \in DOMAIN g : g[i].kind = "value" /\ g[j].kind = "value" /\ i < j => g[i].n < g[j].n
    BY DEF ValuesOfScopeInOrder
  <2>1. PICK r, q : r = received[s] /\ q = updates[s] /\ g = r \o q
    BY DEF Got
  <2>2. /\ r \in Seq(Updates) /\ q \in Seq(Updates) /\ ValuesOf(r, s) /\ ValuesOf(q, s)
        /\ Ordered(r) /\ Ordered(q) /\ Before(r, q)
    BY <2>1 DEF Inv, DataInv, DataTypes, StreamsOrdered
  <2>3. /\ \A i \in DOMAIN g : \/ i \in DOMAIN r /\ g[i] = r[i]
                               \/ i > Len(r) /\ i - Len(r) \in DOMAIN q /\ g[i] = q[i - Len(r)]
        /\ DOMAIN g \subseteq Int /\ Len(r) \in Int /\ \A i \in DOMAIN r : i <= Len(r)
    <3>1. g = r \o q /\ r \in Seq(Updates) /\ q \in Seq(Updates)
      BY <2>1, <2>2
    <3> QED BY ONLY <3>1, GotProperties
  <2>4. ASSUME NEW i \in DOMAIN g, g[i].kind = "value" PROVE g[i].scope \in ReadScopes[s] \cup {""}
    BY <2>2, <2>3, <2>4 DEF ValuesOf
  <2>5. ASSUME NEW i \in DOMAIN g, NEW j \in DOMAIN g, g[i].kind = "value", g[j].kind = "value", i < j
        PROVE  g[i].n < g[j].n
    <3>1. CASE i \in DOMAIN r /\ g[i] = r[i] /\ j \in DOMAIN r /\ g[j] = r[j]
      BY <2>2, <2>5, <3>1 DEF Ordered
    <3>2. CASE i \in DOMAIN r /\ g[i] = r[i] /\ j - Len(r) \in DOMAIN q /\ g[j] = q[j - Len(r)]
      BY <2>2, <2>5, <3>2 DEF Before
    <3>3. CASE /\ i - Len(r) \in DOMAIN q /\ g[i] = q[i - Len(r)]
               /\ j - Len(r) \in DOMAIN q /\ g[j] = q[j - Len(r)]
      <4>1. i - Len(r) < j - Len(r)
        BY <2>3, <2>5
      <4> QED BY <2>2, <2>5, <3>3, <4>1 DEF Ordered
    <3>4. ~(i > Len(r) /\ j \in DOMAIN r)
      BY <2>3, <2>5
    <3> QED BY <2>3, <3>1, <3>2, <3>3, <3>4
  <2> QED BY <2>4, <2>5
<1> QED BY <1>1, Invariance, PTL
=============================================================================
