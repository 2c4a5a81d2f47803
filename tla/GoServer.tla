------------------------------- MODULE GoServer -------------------------------
(***************************************************************************)
(* The Go server: its transports, its slots, and the queue of the          *)
(* streaming connections. A stream is one Connect call (REST: SSE) in a    *)
(* goroutine of its transport. Shutdown and DeregisterTransport run at the *)
(* same time as the streams, as the registration of handlers and as each   *)
(* other.                                                                  *)
(*                                                                         *)
(* What happens under server.mu or connectionQueue.mu is one step. net/http*)
(* and grpc-go are external: a server that shuts down accepts no call      *)
(* and waits for the handlers that run; closed by force, it cancels their  *)
(* contexts. Handlers of single requests are in GoRequests; the heartbeat, *)
(* which Shutdown stops, is the instance of GoHeartbeat.                   *)
(***************************************************************************)
EXTENDS Integers, Sequences, FiniteSets, Functions

CONSTANTS Rest, Grpc,     \* the transports, RestTransport and GrpcTransport
          Streams,        \* Connect calls, each by one client
          Slots,          \* slots that get a handler
          ReadScopes,     \* the read scopes of the token of each stream
          MaxConnections, \* maxConnections, 0 for no limit
          Capacity,       \* capacity of Connection.Updates (100 in the code)
          MaxBroadcasts,  \* bound on the calls of BroadcastUpdate
          Scopes,         \* the scopes of the parameters
          HeartbeatCalls, \* calls of StartHeartbeat
          Nil,            \* no Heartbeat
          Programs        \* what applications and clients do, see Program

Transports == {Rest, Grpc}

ASSUME CapacityAssumption == Capacity \in Nat \ {0}
ASSUME MaxAssumption == MaxConnections \in Nat /\ MaxBroadcasts \in Nat
ASSUME ScopesAssumption == ReadScopes \in [Streams -> SUBSET Scopes]

Stop == "Shutdown"
ASSUME TransportsAssumption == Rest # Grpc /\ Transports \cap {Stop, "none"} = {}
Calls == Transports \cup {Stop}   \* DeregisterTransport(t), and Shutdown

\* The application registers some transports and slots, broadcasts updates of some
\* scopes and makes some of the calls; some clients connect.
Program == [transports : SUBSET Transports, slots : SUBSET Slots, scopes : SUBSET (Scopes \cup {""}),
            calls : SUBSET Calls, streams : SUBSET Streams, heartbeats : SUBSET HeartbeatCalls]
ASSUME HeartbeatAssumption == HeartbeatCalls \cap {Stop, Nil} = {}
ASSUME ProgramsAssumption == Programs \subseteq Program

VARIABLES
    program,      \* the program of this behaviour
    slots,        \* server.slots
    announcing,   \* slots that notifySlotsAdded has yet to send
    transports,   \* server.transports
    listener,     \* what the http or gRPC server of a transport does
    shutdown,     \* server.shutdown
    stopped,      \* server.stopped is closed
    connections,  \* connectionQueue.connections
    shuttingDown, \* connectionQueue.shuttingDown
    done,         \* connections of which Done is closed
    updates,      \* Connection.Updates
    received,     \* history: what the client of a stream has been sent
    dropped,      \* history: connections that lost an update
    broadcasts,   \* number of value updates so far
    pc,           \* where the goroutine of a stream is
    via,          \* the transport of a stream
    cancelled,    \* streams of which the context is done
    call,         \* where Shutdown and DeregisterTransport are
    current,      \* the transport they shut down
    left,         \* transports that Shutdown has yet to shut down
    draining,     \* connections that they wait for, in shutdownConnection
    waiting,      \* those of them in cond.Wait
    expired,      \* calls of which the context is done
    heartbeat, beat, running, at, taken, within, replaced   \* of GoHeartbeat

INSTANCE GoHeartbeat WITH Starts <- HeartbeatCalls, Stops <- {Stop}

serverVars == <<program, slots, announcing, transports, shutdown, stopped>>
queueVars == <<connections, shuttingDown, done, updates, dropped>>
streamVars == <<pc, via, cancelled, received>>
callVars == <<call, current, left, draining, waiting, expired>>
heartbeatVars == <<heartbeat, beat, running, at, taken, within, replaced>>
coreVars == <<serverVars, listener, queueVars, streamVars, callVars, broadcasts>>
vars == <<coreVars, heartbeatVars>>

Goto(s, l) == pc' = [pc EXCEPT ![s] = l]
Continue(o, l) == call' = [call EXCEPT ![o] = l]

-----------------------------------------------------------------------------
(* connectionQueue *)

SlotsAdded(set) == [kind |-> "slots", slots |-> set]
ValueUpdate(n, scope) == [kind |-> "value", n |-> n, scope |-> scope]

\* Mutant of notifyUpdate: the scope is not tested.
notifyUpdateToAll(update, scope) ==
    LET full == {s \in connections : Len(updates[s]) = Capacity} IN
    /\ updates' = [s \in Streams |-> IF s \in connections \ full THEN Append(updates[s], update) ELSE updates[s]]
    /\ dropped' = dropped \cup full

\* The update goes to every connection that may read it and has room for it.
notifyUpdate(update, scope) ==
    LET readers == {s \in connections : update.kind = "value" /\ scope # "" => scope \in ReadScopes[s]}
        full == {s \in readers : Len(updates[s]) = Capacity} IN
    /\ updates' = [s \in Streams |-> IF s \in readers \ full THEN Append(updates[s], update) ELSE updates[s]]
    /\ dropped' = dropped \cup full

\* Mutant of Forget: the waiters are not woken up.
ForgetSilently(s) ==
    /\ connections' = connections \ {s}
    /\ UNCHANGED waiting

\* deregisterConnection, and the watchdog of shutdownConnection: every waiter is
\* woken up.
Forget(s) ==
    /\ connections' = connections \ {s}
    /\ waiting' = IF s \in connections THEN {} ELSE waiting

-----------------------------------------------------------------------------
(* The application *)

\* Start of a transport, under server.mu; listening may fail.
RegisterTransport(t) ==
    /\ listener[t] = "new"
    /\ ~shutdown
    /\ listener' = [listener EXCEPT ![t] = "serving"]
    /\ transports' = transports \cup {t}
    /\ UNCHANGED <<program, slots, announcing, shutdown, stopped, queueVars, streamVars, callVars, broadcasts>>

\* The RegisterXHandler functions add the slot, and then tell the clients of it.
RegisterHandler(slot) ==
    /\ slot \notin slots
    /\ slots' = slots \cup {slot}
    /\ announcing' = announcing \cup {slot}
    /\ UNCHANGED <<program, transports, shutdown, stopped, listener, queueVars, streamVars, callVars, broadcasts>>

notifySlotsAdded(slot) ==
    /\ slot \in announcing
    /\ notifyUpdate(SlotsAdded({slot}), "")
    /\ announcing' = announcing \ {slot}
    /\ UNCHANGED <<program, slots, transports, shutdown, stopped, listener, connections, shuttingDown, done,
                   streamVars, callVars, broadcasts>>

BroadcastUpdate(scope) ==
    /\ broadcasts < MaxBroadcasts
    /\ broadcasts' = broadcasts + 1
    /\ notifyUpdate(ValueUpdate(broadcasts', scope), scope)
    /\ UNCHANGED <<serverVars, listener, connections, shuttingDown, done, streamVars, callVars>>

-----------------------------------------------------------------------------
(* A stream: RestTransport.handleConnect, catenaService.Connect *)

Accept(s, t) ==
    /\ pc[s] = "none"
    /\ listener[t] = "serving"
    /\ via' = [via EXCEPT ![s] = t]
    /\ Goto(s, "accepted")
    /\ UNCHANGED <<serverVars, listener, queueVars, cancelled, received, callVars, broadcasts>>

\* Mutant of RegisterTransportConnection: the slots are not sent.
RegisterTransportConnectionPlain(s) ==
    /\ pc[s] = "accepted"
    /\ ~shuttingDown /\ ReadScopes[s] # {}
    /\ connections' = connections \cup {s}
    /\ Goto(s, "streaming")
    /\ UNCHANGED <<serverVars, listener, shuttingDown, done, updates, dropped, via, cancelled, received,
                   callVars, broadcasts>>

\* The connection is registered with the slots there are as its first update, in
\* one step, unless the token, the access handler or the queue refuses it.
RegisterTransportConnection(s) ==
    /\ pc[s] = "accepted"
    /\ \/ /\ ReadScopes[s] # {}
          /\ ~shuttingDown
          /\ MaxConnections > 0 => Cardinality(connections) < MaxConnections
          /\ connections' = connections \cup {s}
          /\ updates' = [updates EXCEPT ![s] = <<SlotsAdded(slots)>>]
          /\ Goto(s, "streaming")
       \/ /\ Goto(s, "ended")
          /\ UNCHANGED <<connections, updates>>
    /\ UNCHANGED <<serverVars, listener, shuttingDown, done, dropped, via, cancelled, received, callVars,
                   broadcasts>>

\* select takes any case that is ready. Sending may fail, or block.
SendUpdate(s) ==
    /\ pc[s] = "streaming"
    /\ updates[s] # <<>>
    /\ updates' = [updates EXCEPT ![s] = Tail(@)]
    /\ \/ received' = [received EXCEPT ![s] = Append(@, Head(updates[s]))] /\ UNCHANGED pc
       \/ Goto(s, "leaving") /\ UNCHANGED received
    /\ UNCHANGED <<serverVars, listener, connections, shuttingDown, done, dropped, via, cancelled, callVars,
                   broadcasts>>

Leave(s) ==
    /\ pc[s] = "streaming"
    /\ s \in done \cup cancelled
    /\ Goto(s, "leaving")
    /\ UNCHANGED <<serverVars, listener, queueVars, via, cancelled, received, callVars, broadcasts>>

\* defer DeregisterConnection
DeregisterConnection(s) ==
    /\ pc[s] = "leaving"
    /\ Forget(s)
    /\ Goto(s, "ended")
    /\ UNCHANGED <<serverVars, listener, shuttingDown, done, updates, dropped, via, cancelled, received, call,
                   current, left, draining, expired, broadcasts>>

ClientDisconnects(s) ==
    /\ pc[s] \in {"accepted", "streaming"}
    /\ cancelled' = cancelled \cup {s}
    /\ UNCHANGED <<serverVars, listener, queueVars, pc, via, received, callVars, broadcasts>>

-----------------------------------------------------------------------------
(* Shutdown and DeregisterTransport *)

\* Mutant of DeregisterTransport: the transport stays in the list.
DeregisterTransportKept(t) ==
    /\ call[t] = "none"
    /\ Continue(t, IF t \in transports THEN "begin" ELSE "returned")
    /\ current' = [current EXCEPT ![t] = IF t \in transports THEN t ELSE "none"]
    /\ UNCHANGED <<serverVars, listener, queueVars, streamVars, left, draining, waiting, expired, broadcasts>>

DeregisterTransport(t) ==
    /\ call[t] = "none"
    /\ Continue(t, IF t \in transports THEN "begin" ELSE "returned")
    /\ transports' = transports \ {t}
    /\ current' = [current EXCEPT ![t] = IF t \in transports THEN t ELSE "none"]
    /\ UNCHANGED <<program, slots, announcing, shutdown, stopped, listener, queueVars, streamVars, left, draining,
                   waiting, expired, broadcasts>>

\* A second call returns at once. The heartbeat is stopped first.
Shutdown ==
    /\ call[Stop] = "none"
    /\ shutdown' = TRUE
    /\ left' = transports /\ transports' = {}
    /\ Continue(Stop, "heartbeat")
    /\ \E h \in HeartbeatCalls \cup {Nil} : Call(Stop, h)
    /\ UNCHANGED <<program, slots, announcing, stopped, listener, queueVars, streamVars, current, draining,
                   waiting, expired, broadcasts>>

HeartbeatStopped ==
    /\ call[Stop] = "heartbeat" /\ at[Stop] = "returned"
    /\ Continue(Stop, "next")
    /\ UNCHANGED <<serverVars, listener, queueVars, streamVars, current, left, draining, waiting, expired,
                   broadcasts>>

\* Shutdown's loop over the transports
NextTransport ==
    /\ call[Stop] = "next"
    /\ \E t \in left :
          /\ current' = [current EXCEPT ![Stop] = t]
          /\ left' = left \ {t}
          /\ Continue(Stop, "begin")
    /\ UNCHANGED <<serverVars, listener, queueVars, streamVars, draining, waiting, expired, broadcasts>>

\* The Shutdown of the transports starts a goroutine that shuts the http or gRPC
\* server down,
BeginTransportShutdown(o) ==
    /\ call[o] = "begin"
    /\ listener' = [listener EXCEPT ![current[o]] = "told"]
    /\ Continue(o, "owner")
    /\ UNCHANGED <<serverVars, queueVars, streamVars, current, left, draining, waiting, expired, broadcasts>>

Running(t) == {s \in Streams : via[s] = t /\ pc[s] \in {"accepted", "streaming", "leaving"}}
ForcedBy(t) == \E o \in expired : current[o] = t

\* which closes the listener and waits for the handlers,
StopServing(t) ==
    /\ listener[t] = "told"
    /\ listener' = [listener EXCEPT ![t] = "graceful"]
    /\ UNCHANGED <<serverVars, queueVars, streamVars, callVars, broadcasts>>

RestServerStops ==
    /\ listener[Rest] = "graceful"
    /\ Running(Rest) = {}
    /\ listener' = [listener EXCEPT ![Rest] = "stopped"]
    /\ UNCHANGED <<serverVars, queueVars, streamVars, callVars, broadcasts>>

GrpcServerStops ==
    /\ listener[Grpc] = "graceful"
    /\ Running(Grpc) = {}
    /\ listener' = [listener EXCEPT ![Grpc] = "stopped"]
    /\ UNCHANGED <<serverVars, queueVars, streamVars, callVars, broadcasts>>

\* REST: server.Shutdown returns with the context, and server.Close cancels the
\* requests.
RestForcesClose ==
    /\ listener[Rest] = "graceful" /\ ForcedBy(Rest)
    /\ listener' = [listener EXCEPT ![Rest] = "stopped"]
    /\ cancelled' = cancelled \cup Running(Rest)
    /\ UNCHANGED <<serverVars, queueVars, pc, via, received, callVars, broadcasts>>

\* gRPC: Shutdown itself sees that the context is done, calls Stop and waits for
\* GracefulStop.
GrpcForcesStop(o) ==
    /\ call[o] = "await" /\ current[o] = Grpc /\ o \in expired
    /\ listener[Grpc] \in {"told", "graceful"}
    /\ listener' = [listener EXCEPT ![Grpc] = "stopped"]
    /\ cancelled' = cancelled \cup Running(Grpc)
    /\ UNCHANGED <<serverVars, queueVars, pc, via, received, callVars, broadcasts>>

\* shutdownOwner takes the connections that there are.
shutdownOwner(o) ==
    /\ call[o] \in {"owner", "remaining"}
    /\ draining' = [draining EXCEPT ![o] = {s \in connections : via[s] = current[o]}]
    /\ Continue(o, IF call[o] = "owner" THEN "drain" ELSE "drainRemaining")
    /\ UNCHANGED <<serverVars, listener, queueVars, streamVars, current, left, waiting, expired, broadcasts>>

\* connectionQueue.shutdown: no connection is registered any more.
shutdownQueue ==
    /\ call[Stop] = "next" /\ left = {}
    /\ shuttingDown' = TRUE
    /\ draining' = [draining EXCEPT ![Stop] = connections]
    /\ Continue(Stop, "drainRemaining")
    /\ UNCHANGED <<serverVars, listener, connections, done, updates, dropped, streamVars, current, left,
                   waiting, expired, broadcasts>>

\* shutdownConnection, one goroutine for each of them: Done is closed, once; as long
\* as the connection is registered the goroutine waits to be woken up.
shutdownConnection(o, s) ==
    /\ s \in draining[o] /\ <<o, s>> \notin waiting
    /\ done' = done \cup {s}
    /\ IF s \in connections
       THEN waiting' = waiting \cup {<<o, s>>} /\ UNCHANGED draining
       ELSE draining' = [draining EXCEPT ![o] = @ \ {s}] /\ UNCHANGED waiting
    /\ UNCHANGED <<serverVars, listener, connections, shuttingDown, updates, dropped, streamVars, call,
                   current, left, expired, broadcasts>>

\* Its watchdog takes the connection out when the context is done.
Watchdog(o, s) ==
    /\ s \in draining[o] /\ s \in done /\ o \in expired
    /\ s \in connections
    /\ Forget(s)
    /\ UNCHANGED <<serverVars, listener, shuttingDown, done, updates, dropped, streamVars, call, current,
                   left, draining, expired, broadcasts>>

\* wg.Wait
Drained(o) ==
    /\ draining[o] = {}
    /\ \/ call[o] = "drain" /\ Continue(o, "await") /\ UNCHANGED stopped
       \/ call[o] = "drainRemaining" /\ Continue(o, "returned") /\ stopped' = (stopped \/ o = Stop)
    /\ UNCHANGED <<program, slots, announcing, transports, shutdown, listener, queueVars, streamVars, current, left,
                   draining, waiting, expired, broadcasts>>

\* The Shutdown of the transport returns.
TransportIsDown(o) ==
    /\ call[o] = "await" /\ listener[current[o]] = "stopped"
    /\ Continue(o, IF o = Stop THEN "next" ELSE "remaining")
    /\ UNCHANGED <<serverVars, listener, queueVars, streamVars, current, left, draining, waiting, expired,
                   broadcasts>>

\* boundedShutdownContext: after maxShutdownWait at the latest
Expire(o) ==
    /\ call[o] \notin {"none", "returned"}
    /\ expired' = expired \cup {o}
    /\ UNCHANGED <<serverVars, listener, queueVars, streamVars, call, current, left, draining, waiting,
                   broadcasts>>

-----------------------------------------------------------------------------
Init ==
    /\ program \in Programs
    /\ slots = {} /\ announcing = {} /\ transports = {} /\ shutdown = FALSE /\ stopped = FALSE
    /\ listener = [t \in Transports |-> "new"]
    /\ connections = {} /\ shuttingDown = FALSE /\ done = {}
    /\ updates = [s \in Streams |-> <<>>] /\ dropped = {} /\ broadcasts = 0
    /\ pc = [s \in Streams |-> "none"] /\ via = [s \in Streams |-> "none"]
    /\ cancelled = {} /\ received = [s \in Streams |-> <<>>]
    /\ call = [o \in Calls |-> "none"] /\ current = [o \in Calls |-> "none"]
    /\ HeartbeatInit
    /\ left = {} /\ draining = [o \in Calls |-> {}] /\ waiting = {} /\ expired = {}

Application ==
    \/ \E t \in program.transports : RegisterTransport(t)
    \/ \E t \in program.calls \ {Stop} : DeregisterTransport(t)
    \/ \E slot \in program.slots : RegisterHandler(slot)
    \/ \E scope \in program.scopes : BroadcastUpdate(scope)

Announce == \E slot \in Slots : notifySlotsAdded(slot)

Stream(s) ==
    \/ \E t \in Transports : Accept(s, t)
    \/ RegisterTransportConnection(s) \/ SendUpdate(s) \/ Leave(s) \/ DeregisterConnection(s)
    \/ ClientDisconnects(s)

CallStep(o) ==
    \/ o = Stop /\ (HeartbeatStopped \/ NextTransport \/ shutdownQueue)
    \/ BeginTransportShutdown(o) \/ shutdownOwner(o) \/ Drained(o) \/ TransportIsDown(o)
    \/ GrpcForcesStop(o)
    \/ \E s \in Streams : shutdownConnection(o, s) \/ Watchdog(o, s)

ListenerStep(t) ==
    \/ StopServing(t)
    \/ t = Rest /\ (RestServerStops \/ RestForcesClose)
    \/ t = Grpc /\ GrpcServerStops

Heartbeats ==
    \/ \E c \in program.heartbeats, h \in HeartbeatCalls \cup {Nil} : Call(c, h)
    \/ \E c \in Callers : CallStepOf(c)
    \/ \E h \in HeartbeatCalls : Run(h)

Core ==
    \/ Application \/ Announce
    \/ \E s \in program.streams : Stream(s)
    \/ \E o \in Calls : CallStep(o) \/ Expire(o)
    \/ \E t \in Transports : ListenerStep(t)

Next ==
    \/ Core /\ UNCHANGED heartbeatVars
    \/ Heartbeats /\ UNCHANGED coreVars
    \/ Stop \in program.calls /\ Shutdown

Spec == Init /\ [][Next]_vars

\* The goroutines of the calls and of the listeners are scheduled as long as one of
\* them can go on, and contexts have a deadline. The handlers of the heartbeat
\* return, and select does not take the tick for ever when the stop is ready. The
\* streams get no fairness: a client that does not read may block its stream.
Progress ==
    \/ UNCHANGED heartbeatVars /\ \E o \in Calls : CallStep(o) \/ Expire(o)
    \/ UNCHANGED heartbeatVars /\ \E t \in Transports : ListenerStep(t)
    \/ UNCHANGED coreVars /\ \E c \in Callers : CallStepOf(c)

FairSpec ==
    /\ Spec
    /\ WF_vars(Progress)
    /\ \A h \in HeartbeatCalls : /\ WF_vars(HandlersReturn(h) /\ UNCHANGED coreVars)
                                /\ SF_vars(Exit(h) /\ UNCHANGED coreVars)

-----------------------------------------------------------------------------
(* Properties *)

Updates == [kind : {"slots"}, slots : SUBSET Slots]
           \cup [kind : {"value"}, n : 1..MaxBroadcasts, scope : Scopes \cup {""}]

\* The types of the state; what waits for a client never exceeds the channel's capacity.
TypeOK ==
    /\ program \in Programs
    /\ slots \subseteq Slots /\ announcing \subseteq slots /\ transports \subseteq Transports
    /\ shutdown \in BOOLEAN /\ stopped \in BOOLEAN /\ shuttingDown \in BOOLEAN
    /\ listener \in [Transports -> {"new", "serving", "told", "graceful", "stopped"}]
    /\ connections \subseteq {s \in Streams : pc[s] \in {"streaming", "leaving"}}
    /\ done \subseteq Streams /\ dropped \subseteq Streams /\ cancelled \subseteq Streams
    /\ updates \in [Streams -> Seq(Updates)] /\ received \in [Streams -> Seq(Updates)]
    /\ \A s \in Streams : Len(updates[s]) <= Capacity
    /\ broadcasts \in 0..MaxBroadcasts
    /\ pc \in [Streams -> {"none", "accepted", "streaming", "leaving", "ended"}]
    /\ via \in [Streams -> Transports \cup {"none"}]
    /\ call \in [Calls -> {"none", "heartbeat", "next", "begin", "owner", "drain", "await", "remaining", "drainRemaining",
                           "returned"}]
    /\ current \in [Calls -> Transports \cup {"none"}] /\ left \subseteq Transports
    /\ HeartbeatTypeOK
    /\ draining \in [Calls -> SUBSET Streams] /\ waiting \subseteq Calls \X Streams /\ expired \subseteq Calls

Got(s) == received[s] \o updates[s]
Known(s) == UNION {u.slots : u \in {v \in Range(Got(s)) : v.kind = "slots"}}

\* However registering a slot and connecting overlap, a client that lost no update
\* is told of every slot, except those whose announcement is still to come.
EverySlotAnnounced ==
    \A s \in connections \ dropped : pc[s] = "streaming" => slots \subseteq Known(s) \cup announcing

\* Values that a client is sent are ones that it may read, and come in the order of
\* the broadcasts, each at most once.
ValuesOfScopeInOrder ==
    \A s \in Streams :
        LET got == Got(s)
            values == {i \in DOMAIN got : got[i].kind = "value"} IN
        /\ \A i \in values : got[i].scope \in ReadScopes[s] \cup {""}
        /\ \A i, j \in values : i < j => got[i].n < got[j].n

\* When Wait returns there is no connection left, there will be none, and every
\* transport is down or being shut down by DeregisterTransport.
NothingLeftWhenStopped ==
    stopped => /\ connections = {}
               /\ \A t \in Transports : listener[t] \in {"new", "stopped"} \/ call[t] # "none"

\* No transport is shut down twice, by Shutdown and by DeregisterTransport.
ShutDownByOne ==
    \A t \in Transports : call[t] \in {"begin", "owner", "drain", "await", "remaining", "drainRemaining"}
        => ~(current[Stop] = t /\ call[Stop] \notin {"none", "returned"}) /\ t \notin left

\* A connection that DeregisterTransport leaves registered is one of a transport
\* that had to be closed by force.
DeregisteredInPeace ==
    \A t \in Transports, s \in connections :
        call[t] = "returned" /\ current[t] = t /\ via[s] = t => t \in expired

\* Transports come down in peace, whichever of the two calls begins it and whoever
\* connects meanwhile: each by one call, and none leaves connections behind that it
\* did not have to cut off.
StoppedInPeace == TypeOK /\ NothingLeftWhenStopped /\ ShutDownByOne /\ DeregisteredInPeace

\* Shutdown and DeregisterTransport return, even if a client never reads what it is
\* sent and its stream never ends. Only a handler of the heartbeat that stops the
\* heartbeat waits for itself.
CallsReturn ==
    \A o \in Calls : (call[o] # "none") ~> (call[o] = "returned" \/ \E c \in Callers : WaitsForItself(c))

\* "By this point, the runtime should have signaled all active connections to shut
\* down": when Shutdown of the REST transport waits for the http server, the
\* streams that the server waits for have been told to end.
AllSignaled ==
    \A o \in Calls : call[o] = "await" /\ current[o] = Rest
        => \A s \in connections : via[s] = Rest => s \in done
=============================================================================
