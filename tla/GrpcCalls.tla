------------------------------ MODULE GrpcCalls ------------------------------
(***************************************************************************)
(* The calls of the C++ gRPC service: ServiceImpl with its registry and    *)
(* its completion queue, and the call objects of the controllers.          *)
(*                                                                         *)
(* A call object drives itself: it starts one operation of gRPC at a time  *)
(* with itself as the tag (a request for a call, a write, a finish), and   *)
(* processEvents runs proceed() in a new detached thread when the          *)
(* operation completes. An object that accepts a call first creates the    *)
(* next one, and an object that is done removes itself from the registry,  *)
(* which destroys it. Each controller below is all of its proceed(): one   *)
(* disjunct per stretch of it that no other thread can interrupt.          *)
(*                                                                         *)
(* Of a Connect call the updates are left out, and shutdown() is one step: *)
(* PushConnect models them in detail. "sent" holds the positions, in the   *)
(* list of the call's responses, of those passed to writer_.Write.         *)
(***************************************************************************)
EXTENDS Integers, Sequences, FiniteSets

CONSTANTS MaxCalls,             \* bound on the calls that clients make
          MaxServed,            \* bound on the RPCs served together (the code serves all fourteen)
          MaxParts,             \* bound on the responses of one call
          ServedTogether,       \* the lists of RPCs that are looked at together, each with the
                                \* calls that clients make: the objects of the other classes only wait
          AuthorizationEnabled, \* service_->authorizationEnabled()
          Nobody                \* no object

Rpcs == {"GetPopulatedSlots", "GetValue", "SetValue", "MultiSetValue", "Connect",
         "DeviceRequest", "ExternalObjectRequest", "ParamInfoRequest", "GetParam",
         "ExecuteCommand", "AddLanguage", "ListLanguages", "LanguagePackRequest",
         "UpdateSubscriptions"}

ASSUME BoundsAssumption ==
    MaxCalls \in Nat /\ MaxServed \in Nat \ {0} /\ MaxParts \in Nat \ {0}
ASSUME ServedAssumption ==
    \A served \in ServedTogether :
        /\ served.rpcs \in Seq(Rpcs) /\ Len(served.rpcs) \in 1..MaxServed
        /\ \A i, j \in DOMAIN served.rpcs : served.rpcs[i] = served.rpcs[j] => i = j
        /\ served.calls \in 0..MaxCalls
ASSUME NobodyAssumption == AuthorizationEnabled \in BOOLEAN /\ Nobody \notin Nat

\* When fewer RPCs are served, or fewer calls made, the last objects are never created.
Objects == 1..(MaxServed + MaxCalls)

VARIABLES
    rpc,         \* rpc[o]: the class of the object
    status,      \* status[o]: status_; "unborn" before its constructor, "gone" after its destructor
    op,          \* op[o]: the operation that gRPC has not yet completed
    at,          \* at[o]: where the thread that runs proceed() is
    parts,       \* parts[o]: how many responses the call has
    current,     \* current[o]: the position of the next one
    sent,        \* sent[o]: the positions written so far
    reply,       \* reply[o]: the status passed to Finish, "OK" or another
    trailing,    \* objects with a thread that has started a write and goes on with them
    leaving,     \* threads that have destroyed their object and are still in deregisterItem
    deviceMutex, \* the object whose thread holds the mutex of the device
    cancelled,   \* objects whose client has gone away
    listening,   \* Connect objects connected to shutdownSignal_
    stopped,     \* Connect objects whose shutdown() was called
    hasUpdate,   \* Connect objects with hasUpdate_
    missed,      \* those whose thread was notified between its test and its wait
    hand,        \* hand[o]: where a thread of a Connect is that has started an operation
                 \* and goes on with the object
    serverDown,  \* the server has been shut down
    cqDown,      \* the completion queue has been shut down
    events,      \* where processEvents is; "aborted" once the process has been
    dangling     \* a thread has used an object that is gone

objVars == <<rpc, status, op, at, parts, current, sent, reply>>
connectVars == <<listening, stopped, hasUpdate, missed, hand>>
serverVars == <<serverDown, cqDown, events>>
otherVars == <<cancelled, connectVars, serverVars, dangling>>
vars == <<objVars, trailing, leaving, deviceMutex, cancelled, connectVars,
          serverVars, dangling>>

Alive(o) == status[o] \notin {"unborn", "gone"}
Registry == {o \in Objects : Alive(o)}
Unborn == {o \in Objects : status[o] = "unborn"}

\* The thread of o is about to execute the switch on status_, which is s.
In(o, r, s) == rpc[o] = r /\ at[o] = "switch" /\ status[o] = s

SlotErrors == {"INVALID_ARGUMENT", "NOT_FOUND"}
\* jwsToken_() and the Authorizer throw
TokenErrors == IF AuthorizationEnabled THEN {"UNAUTHENTICATED"} ELSE {}
DeviceErrors == {"UNKNOWN"}

-----------------------------------------------------------------------------
(* Pieces that the controllers share *)

\* The constructor of the next object of the class, which registers itself and
\* requests a call (kCreate).
Construct(n, r) ==
    /\ rpc' = [rpc EXCEPT ![n] = r]
    /\ op' = [op EXCEPT ![n] = "request"]

\* deregisterItem erases the object from the registry, and the unique_ptr there
\* destroys it. The thread still has to log and to unlock.
Destroy(o) ==
    /\ status' = [status EXCEPT ![o] = "gone"]
    /\ at' = [at EXCEPT ![o] = "idle"]
    /\ parts' = [parts EXCEPT ![o] = 0]
    /\ current' = [current EXCEPT ![o] = 1]
    /\ sent' = [sent EXCEPT ![o] = <<>>]
    /\ reply' = [reply EXCEPT ![o] = "none"]
    /\ leaving' = leaving \cup {o}
    /\ cancelled' = cancelled \ {o}
    /\ listening' = listening \ {o}
    /\ stopped' = stopped \ {o}
    /\ hasUpdate' = hasUpdate \ {o}
    /\ missed' = missed \ {o}

\* kFinish
Deregister(o) ==
    /\ at[o] = "switch" /\ status[o] = "kFinish"
    /\ Destroy(o)
    /\ UNCHANGED <<rpc, op, trailing, deviceMutex, hand, serverVars, dangling>>

\* kProcess begins: the next object takes the place of o, so that other clients
\* are served while o is processed.
Offer(o, from) ==
    /\ at[o] = from /\ status[o] = "kProcess"
    /\ LET n == CHOOSE n \in Unborn : TRUE IN
          /\ Construct(n, rpc[o])
          /\ status' = [status EXCEPT ![n] = "kProcess"]
    /\ at' = [at EXCEPT ![o] = "process"]
    /\ UNCHANGED <<otherVars, parts, current, sent, reply, trailing, leaving, deviceMutex>>

\* status_ = kFinish and Finish(rc)
FinishWith(o, rc) ==
    /\ status' = [status EXCEPT ![o] = "kFinish"]
    /\ op' = [op EXCEPT ![o] = "finish"]
    /\ reply' = [reply EXCEPT ![o] = IF rc = "OK" THEN "OK" ELSE "error"]
    /\ at' = [at EXCEPT ![o] = "idle"]
    /\ UNCHANGED <<otherVars, rpc, parts, current, sent, trailing, leaving, deviceMutex>>

\* Mutant of Refuse: the break is missing.
RefuseFallsThrough(o, errors) ==
    /\ at[o] = "process"
    /\ \E rc \in errors :
          /\ status' = [status EXCEPT ![o] = "kFinish"]
          /\ op' = [op EXCEPT ![o] = "finish"]
          /\ reply' = [reply EXCEPT ![o] = IF rc = "OK" THEN "OK" ELSE "error"]
          /\ at' = [at EXCEPT ![o] = "switch"]
    /\ UNCHANGED <<otherVars, rpc, parts, current, sent, trailing, leaving, deviceMutex>>

\* Errors found before the device is asked
Refuse(o, errors) == at[o] = "process" /\ \E rc \in errors : FinishWith(o, rc)

\* The device is asked under its mutex, and the answer is the end of the call.
Answer(o, results) ==
    /\ at[o] = "process"
    /\ deviceMutex = Nobody
    /\ \E rc \in results : FinishWith(o, rc)

\* kProcess of a stream ends: its n responses are known; falls through to kWrite.
BeginStream(o, n) ==
    /\ at[o] = "process"
    /\ status' = [status EXCEPT ![o] = "kWrite"]
    /\ at' = [at EXCEPT ![o] = "switch"]
    /\ parts' = [parts EXCEPT ![o] = n]
    /\ UNCHANGED <<otherVars, rpc, op, current, sent, reply, trailing, leaving, deviceMutex>>

\* Mutant of WritePart: the iterator is not moved.
WritePartAgain(o, i, next) ==
    /\ status' = [status EXCEPT ![o] = next]
    /\ sent' = [sent EXCEPT ![o] = Append(@, i)]
    /\ op' = [op EXCEPT ![o] = "write"]
    /\ at' = [at EXCEPT ![o] = "idle"]
    /\ Len(sent[o]) < MaxParts
    /\ UNCHANGED <<otherVars, rpc, parts, current, reply, trailing, leaving, deviceMutex>>

\* writer_.Write of the response at position i; next is the status until it completes.
WritePart(o, i, next) ==
    /\ status' = [status EXCEPT ![o] = next]
    /\ sent' = [sent EXCEPT ![o] = Append(@, i)]
    /\ current' = [current EXCEPT ![o] = i + 1]
    /\ op' = [op EXCEPT ![o] = "write"]
    /\ at' = [at EXCEPT ![o] = "idle"]
    /\ UNCHANGED <<otherVars, rpc, parts, reply, trailing, leaving, deviceMutex>>

\* Mutant of SendNext: hasMore() is asked before getNext().
SendNextTooFew(o) ==
    /\ current[o] <= parts[o]
    /\ WritePart(o, current[o], IF current[o] + 1 < parts[o] THEN "kWrite" ELSE "kPostWrite")

\* getNext(), with hasMore() deciding about the state before Write starts
SendNext(o) ==
    /\ current[o] <= parts[o]
    /\ WritePart(o, current[o], IF current[o] < parts[o] THEN "kWrite" ELSE "kPostWrite")

\* kPostWrite: gRPC accepts one Finish.
PostWrite(o, r) == In(o, r, "kPostWrite") /\ reply[o] = "none" /\ FinishWith(o, "OK")

\* gRPC ends the process at the second one.
FinishTwice(o) ==
    /\ reply[o] # "none"
    /\ events' = "aborted"
    /\ UNCHANGED <<objVars, trailing, leaving, deviceMutex, cancelled, connectVars,
                   serverDown, cqDown, dangling>>

\* The life of a call with one response
Unary(o, r, errors, results) ==
    /\ rpc[o] = r
    /\ \/ Offer(o, "switch")
       \/ Refuse(o, errors)
       \/ Answer(o, results)
       \/ Deregister(o)

-----------------------------------------------------------------------------
(* The controllers: calls with one response *)

GetPopulatedSlots(o) ==
    /\ rpc[o] = "GetPopulatedSlots"
    /\ Offer(o, "switch") \/ Refuse(o, {"OK"}) \/ Deregister(o)

GetValue(o) == Unary(o, "GetValue", SlotErrors \cup TokenErrors, {"OK"} \cup DeviceErrors)

GetParam(o) == Unary(o, "GetParam", SlotErrors \cup TokenErrors, {"OK"} \cup DeviceErrors)

\* One conversion of the payload apart, SetValue is MultiSetValue.
SetValue(o) == Unary(o, "SetValue", SlotErrors \cup TokenErrors, {"OK"} \cup DeviceErrors)

MultiSetValue(o) ==
    Unary(o, "MultiSetValue", SlotErrors \cup TokenErrors, {"OK"} \cup DeviceErrors)

AddLanguage(o) ==
    Unary(o, "AddLanguage", SlotErrors \cup TokenErrors, {"OK"} \cup DeviceErrors)

\* Anybody may ask for the languages.
ListLanguages(o) == Unary(o, "ListLanguages", SlotErrors, {"OK"})

LanguagePackRequest(o) ==
    Unary(o, "LanguagePackRequest", SlotErrors, {"OK"} \cup DeviceErrors)

-----------------------------------------------------------------------------
(* The controllers: streams *)

\* getNext() resumes the device's serializer under its mutex and may throw.
DeviceRequest(o) ==
    /\ rpc[o] = "DeviceRequest"
    /\ \/ Offer(o, "switch")
       \/ Refuse(o, SlotErrors \cup TokenErrors)
       \/ \E n \in 1..MaxParts : BeginStream(o, n)
       \/ /\ In(o, "DeviceRequest", "kWrite")
          /\ deviceMutex = Nobody
          /\ SendNext(o) \/ FinishWith(o, "UNKNOWN")
       \/ PostWrite(o, "DeviceRequest")
       \/ Deregister(o)

\* The device is not locked. A client that wants no response gets none: the
\* command is run to its end within kProcess. The token is tested again before
\* every response.
ExecuteCommand(o) ==
    /\ rpc[o] = "ExecuteCommand"
    /\ \/ Offer(o, "switch")
       \/ Refuse(o, SlotErrors \cup TokenErrors \cup DeviceErrors \cup {"OK"})
       \/ \E n \in 1..MaxParts : BeginStream(o, n)
       \/ /\ In(o, "ExecuteCommand", "kWrite")
          /\ SendNext(o) \/ \E rc \in TokenErrors \cup DeviceErrors : FinishWith(o, rc)
       \/ PostWrite(o, "ExecuteCommand")
       \/ Deregister(o)

\* The file is sent in one response; no token is asked for.
ExternalObjectRequest(o) ==
    /\ rpc[o] = "ExternalObjectRequest"
    /\ \/ Offer(o, "switch")
       \/ Refuse(o, SlotErrors \cup {"CANCELLED"})
       \/ BeginStream(o, 1)
       \/ In(o, "ExternalObjectRequest", "kWrite") /\ SendNext(o)
       \/ PostWrite(o, "ExternalObjectRequest")
       \/ Deregister(o)

\* Oids that have gone or may not be read are passed over, the device being
\* locked for each of them; when none is left the call ends.
UpdateSubscriptions(o) ==
    /\ rpc[o] = "UpdateSubscriptions"
    /\ \/ Offer(o, "switch")
       \/ Refuse(o, SlotErrors \cup TokenErrors \cup {"FAILED_PRECONDITION"})
       \/ \E n \in 0..MaxParts : BeginStream(o, n)
       \/ /\ In(o, "UpdateSubscriptions", "kWrite")
          /\ deviceMutex = Nobody
          /\ \/ \E i \in current[o]..parts[o] : WritePart(o, i, "kWrite")
             \/ \E rc \in {"OK"} \cup DeviceErrors : FinishWith(o, rc)
       \/ Deregister(o)

\* The switch on status_ is taken before the device is locked,
EnterWrite(o) ==
    /\ In(o, "ParamInfoRequest", "kWrite")
    /\ at' = [at EXCEPT ![o] = "write"]
    /\ UNCHANGED <<otherVars, rpc, status, op, parts, current, sent, reply, trailing, leaving,
                   deviceMutex>>

\* Write is started under the device's mutex,
StartWrite(o) ==
    /\ at[o] = "write"
    /\ deviceMutex = Nobody
    /\ deviceMutex' = o
    /\ sent' = [sent EXCEPT ![o] = Append(@, current[o])]
    /\ op' = [op EXCEPT ![o] = "write"]
    /\ at' = [at EXCEPT ![o] = "idle"]
    /\ trailing' = trailing \cup {o}
    /\ UNCHANGED <<otherVars, rpc, status, parts, current, reply, leaving>>

\* and then the same thread, which may no longer be the only one, updates the
\* object's position and state, if there is still an object, and unlocks.
AfterWrite(o) ==
    /\ o \in trailing
    /\ trailing' = trailing \ {o}
    /\ deviceMutex' = Nobody
    /\ \/ /\ Alive(o)
          /\ status' = [status EXCEPT ![o] = IF current[o] < parts[o] THEN "kWrite" ELSE "kPostWrite"]
          /\ current' = [current EXCEPT ![o] = IF @ < parts[o] THEN @ + 1 ELSE @]
          /\ UNCHANGED dangling
       \/ /\ ~Alive(o)
          /\ dangling' = TRUE
          /\ UNCHANGED <<status, current>>
    /\ UNCHANGED <<rpc, op, at, parts, sent, reply, leaving, cancelled, connectVars,
                   serverVars>>

ParamInfoRequest(o) ==
    \/ /\ rpc[o] = "ParamInfoRequest"
       /\ \/ Offer(o, "switch")
          \/ Refuse(o, SlotErrors \cup TokenErrors \cup DeviceErrors)
          \/ deviceMutex = Nobody /\ \E n \in 1..MaxParts : BeginStream(o, n)
          \/ EnterWrite(o)
          \/ StartWrite(o)
          \/ PostWrite(o, "ParamInfoRequest")
          \/ In(o, "ParamInfoRequest", "kPostWrite") /\ FinishTwice(o)
          \/ Deregister(o)
    \/ AfterWrite(o)

-----------------------------------------------------------------------------
(* Connect *)

\* Mutant of ConnectSignal: the slot is not connected.
ConnectSignalNever(o) ==
    /\ In(o, "Connect", "kProcess")
    /\ at' = [at EXCEPT ![o] = "offer"]
    /\ UNCHANGED <<rpc, status, op, parts, current, sent, reply, trailing, leaving,
                   deviceMutex, cancelled, connectVars, serverVars, dangling>>

\* kProcess: the slot of shutdownSignal_ is connected before the next object is created.
ConnectSignal(o) ==
    /\ In(o, "Connect", "kProcess")
    /\ listening' = listening \cup {o}
    /\ at' = [at EXCEPT ![o] = "offer"]
    /\ UNCHANGED <<rpc, status, op, parts, current, sent, reply, trailing, leaving,
                   deviceMutex, cancelled, stopped, hasUpdate, missed, hand, serverVars, dangling>>

\* The first write is the list of slots.
ConnectFirstWrite(o) ==
    /\ at[o] = "process"
    /\ status' = [status EXCEPT ![o] = "kWrite"]
    /\ op' = [op EXCEPT ![o] = "write"]
    /\ at' = [at EXCEPT ![o] = "idle"]
    /\ UNCHANGED <<otherVars, rpc, parts, current, sent, reply, trailing, leaving, deviceMutex>>

\* The thread moves on within kWrite.
Goes(o, from, to) ==
    /\ at[o] = from
    /\ at' = [at EXCEPT ![o] = to]
    /\ UNCHANGED <<rpc, op, parts, current, sent, reply, trailing, leaving, deviceMutex,
                   cancelled, listening, stopped, hand, serverVars, dangling>>

\* kWrite locks mtx_ and waits for an update.
ConnectEnters(o) ==
    /\ In(o, "Connect", "kWrite") /\ Goes(o, "switch", "lock")
    /\ UNCHANGED <<status, hasUpdate, missed>>

\* The test of cv_.wait finds no update,
ConnectFindsNothing(o) ==
    /\ o \notin hasUpdate /\ Goes(o, "lock", "block")
    /\ UNCHANGED <<status, hasUpdate, missed>>

\* and the thread waits.
ConnectWaits(o) == Goes(o, "block", "wait") /\ UNCHANGED <<status, hasUpdate, missed>>

\* A notification, or nothing at all, wakes it.
Wakes(o) ==
    /\ Goes(o, "wait", "lock")
    /\ missed' = missed \ {o}
    /\ UNCHANGED <<status, hasUpdate>>
ConnectWakes(o) == o \in hasUpdate \ missed /\ Wakes(o)

\* There is an update: the first look at shutdown_ and at the client
ConnectJudges(o) ==
    /\ o \in hasUpdate /\ Goes(o, "lock", "send")
    /\ status' = [status EXCEPT ![o] = IF o \in stopped \cup cancelled THEN "kFinish" ELSE @]
    /\ hasUpdate' = hasUpdate \ {o}
    /\ missed' = missed \ {o}

\* The second look. The client has gone: "The completion queue won't do it for us",
\* and the thread calls proceed(false) itself.
ConnectGivesUp(o) ==
    /\ o \in cancelled /\ Goes(o, "send", "switch")
    /\ UNCHANGED <<status, hasUpdate, missed>>

\* The thread starts an operation, unlocks mtx_, and has a third look to take.
ConnectStarts(o, operation, s) ==
    /\ at[o] = "send" /\ o \notin cancelled
    /\ status' = [status EXCEPT ![o] = s]
    /\ op' = [op EXCEPT ![o] = operation]
    /\ reply' = [reply EXCEPT ![o] = IF operation = "finish" THEN "error" ELSE @]
    /\ at' = [at EXCEPT ![o] = "idle"]
    /\ hand' = [hand EXCEPT ![o] = "look"]
    /\ UNCHANGED <<rpc, parts, current, sent, trailing, leaving, deviceMutex, cancelled,
                   listening, stopped, hasUpdate, missed, serverVars, dangling>>

\* writer_.Finish(CANCELLED) leaves status_ as the first look has put it, which may
\* be before the shutdown. An expired token ends the call, else the update is written.
ConnectSends(o) ==
    \/ o \in stopped /\ reply[o] = "none" /\ ConnectStarts(o, "finish", status[o])
    \/ o \in stopped /\ at[o] = "send" /\ o \notin cancelled /\ FinishTwice(o)
    \/ o \notin stopped /\ TokenErrors # {} /\ ConnectStarts(o, "finish", "kFinish")
    \/ o \notin stopped /\ ConnectStarts(o, "write", status[o])

\* The third look, at an object that the operation's own thread may have destroyed.
\* (Threads that look together count as one: each of them would do the same.)
HandLooks(o) ==
    /\ hand[o] = "look"
    /\ hand' = [hand EXCEPT ![o] = IF o \in cancelled THEN "proceed" ELSE "none"]
    /\ dangling' = (dangling \/ ~Alive(o))
    /\ UNCHANGED <<objVars, trailing, leaving, deviceMutex, cancelled, listening, stopped,
                   hasUpdate, missed, serverVars>>

\* proceed(false) by hand, beside the operation or its thread: kWrite waits for
\* an update and finds that the client has gone,
HandJudges(o) ==
    /\ hand[o] = "proceed" /\ status[o] = "kWrite" /\ at[o] \notin {"block", "send"}
    /\ o \in hasUpdate
    /\ status' = [status EXCEPT ![o] = "kFinish"]
    /\ hasUpdate' = hasUpdate \ {o}
    /\ missed' = missed \ {o}
    /\ UNCHANGED <<rpc, op, at, parts, current, sent, reply, trailing, leaving, deviceMutex,
                   cancelled, listening, stopped, hand, serverVars, dangling>>

\* kFinish destroys the object, although gRPC or another thread still has it,
HandDestroys(o) ==
    /\ hand[o] = "proceed" /\ status[o] = "kFinish"
    /\ Destroy(o)
    /\ hand' = [hand EXCEPT ![o] = "none"]
    /\ dangling' = (dangling \/ at[o] # "idle")
    /\ UNCHANGED <<rpc, op, trailing, deviceMutex, serverVars>>

\* unless that thread was first.
HandFindsNothing(o) ==
    /\ hand[o] = "proceed" /\ ~Alive(o)
    /\ hand' = [hand EXCEPT ![o] = "none"]
    /\ dangling' = TRUE
    /\ UNCHANGED <<objVars, trailing, leaving, deviceMutex, cancelled, listening, stopped,
                   hasUpdate, missed, serverVars>>

Hand(o) == HandLooks(o) \/ HandJudges(o) \/ HandDestroys(o) \/ HandFindsNothing(o)

Connect(o) ==
    /\ rpc[o] = "Connect"
    /\ \/ ConnectSignal(o)
       \/ Offer(o, "offer")
       \/ Refuse(o, TokenErrors \cup {"RESOURCE_EXHAUSTED"})
       \/ ConnectFirstWrite(o)
       \/ ConnectEnters(o) \/ ConnectFindsNothing(o) \/ ConnectWaits(o) \/ ConnectWakes(o)
       \/ ConnectJudges(o) \/ ConnectGivesUp(o) \/ ConnectSends(o)
       \/ Deregister(o)
       \/ Hand(o)

\* hasUpdate_ = true and notify_one(), which a thread that is about to wait misses
SetAndNotify(calls) ==
    /\ hasUpdate' = hasUpdate \cup calls
    /\ missed' = (missed \ calls) \cup {o \in calls : at[o] = "block"}

\* The other side of an open call: an update, or the connection queue makes room
\* for another client. (shutdown() and some of the updates do not lock mtx_.)
ConnectSignalled(o) ==
    /\ rpc[o] = "Connect" /\ status[o] = "kWrite"
    /\ SetAndNotify({o})
    /\ \/ UNCHANGED stopped
       \/ stopped' = stopped \cup {o}
    /\ UNCHANGED <<objVars, trailing, leaving, deviceMutex, cancelled, listening, hand,
                   serverVars, dangling>>

-----------------------------------------------------------------------------
(* proceed() and the service *)

\* proceed(false) puts the object into kFinish. A Connect does so only if it is
\* still waiting for a client: it then stops the calls that are open.
ProceedCancelled(o) ==
    /\ at[o] = "cancelled"
    /\ at' = [at EXCEPT ![o] = "switch"]
    /\ \/ /\ rpc[o] # "Connect"
          /\ status' = [status EXCEPT ![o] = "kFinish"]
          /\ UNCHANGED <<stopped, hasUpdate, missed>>
       \/ /\ rpc[o] = "Connect" /\ status[o] = "kProcess"
          /\ stopped' = stopped \cup listening
          /\ SetAndNotify(listening)
          /\ status' = [status EXCEPT ![o] = "kFinish"]
       \/ /\ rpc[o] = "Connect" /\ status[o] # "kProcess"
          /\ UNCHANGED <<status, stopped, hasUpdate, missed>>
    /\ UNCHANGED <<rpc, op, parts, current, sent, reply, trailing, leaving, deviceMutex,
                   cancelled, listening, hand, serverVars, dangling>>

Proceed(o) ==
    \/ ProceedCancelled(o)
    \/ GetPopulatedSlots(o) \/ GetValue(o) \/ GetParam(o) \/ SetValue(o) \/ MultiSetValue(o)
    \/ AddLanguage(o) \/ ListLanguages(o) \/ LanguagePackRequest(o)
    \/ DeviceRequest(o) \/ ExecuteCommand(o) \/ ExternalObjectRequest(o)
    \/ UpdateSubscriptions(o) \/ ParamInfoRequest(o)
    \/ Connect(o)

\* The thread returns from deregisterItem.
Leave(o) ==
    /\ o \in leaving
    /\ leaving' = leaving \ {o}
    /\ UNCHANGED <<objVars, trailing, deviceMutex, cancelled, connectVars, serverVars,
                   dangling>>

\* processEvents gets the event of an operation and starts a thread, which runs
\* proceed() of the object, if there is still one.
GotEvent(o, ok) ==
    /\ events = "loop"
    /\ op[o] # "none"
    /\ op' = [op EXCEPT ![o] = "none"]
    /\ at' = [at EXCEPT ![o] = IF ~Alive(o) THEN "idle" ELSE IF ok THEN "switch" ELSE "cancelled"]
    /\ dangling' = (dangling \/ ~Alive(o))
    /\ UNCHANGED <<rpc, status, parts, current, sent, reply, trailing, leaving, deviceMutex,
                   cancelled, connectVars, serverVars>>

\* A client calls, which takes the one object that waits for this RPC. (There
\* has to be an object left for the next one.)
ClientCalls(o) ==
    /\ op[o] = "request"
    /\ ~serverDown
    /\ Cardinality(Unborn) > Cardinality({p \in Objects : status[p] = "kProcess" /\ at[p] \in {"switch", "offer"}})
    /\ GotEvent(o, TRUE)

\* What was requested of a server that is down completes with ok = false, and so
\* may a write or a finish when the client has gone.
OperationCompletes(o) ==
    \/ op[o] = "request" /\ serverDown /\ GotEvent(o, FALSE)
    \/ op[o] \in {"write", "finish"} /\ GotEvent(o, TRUE)
    \/ op[o] \in {"write", "finish"} /\ o \in cancelled /\ GotEvent(o, FALSE)

\* Accepted: the object has a client
Accepted(o) == Alive(o) /\ op[o] # "request"
                        /\ ~(status[o] = "kProcess" /\ at[o] = "cancelled")

\* IsCancelled() may turn true as long as the call has not been finished.
ClientGoesAway(o) ==
    /\ Accepted(o)
    /\ IF reply[o] = "none" THEN status[o] # "kFinish" \/ at[o] = "send" ELSE op[o] = "finish"
    /\ cancelled' = cancelled \cup {o}
    /\ UNCHANGED <<objVars, trailing, leaving, deviceMutex, connectVars, serverVars, dangling>>

\* server->Shutdown()
ServerShutdown ==
    /\ ~serverDown
    /\ serverDown' = TRUE
    /\ UNCHANGED <<objVars, trailing, leaving, deviceMutex, cancelled, connectVars,
                   cqDown, events, dangling>>

\* server->Wait() returns when every call has been finished, and the completion
\* queue is shut down.
CqShutdown ==
    /\ serverDown /\ ~cqDown
    /\ \A o \in Objects : Accepted(o) => reply[o] # "none"
    /\ cqDown' = TRUE
    /\ UNCHANGED <<objVars, trailing, leaving, deviceMutex, cancelled, connectVars,
                   serverDown, events, dangling>>

\* processEvents gets SHUTDOWN once the queue has no more events,
GotShutdown ==
    /\ events = "loop"
    /\ cqDown /\ \A o \in Objects : op[o] = "none"
    /\ events' = "drain"
    /\ UNCHANGED <<objVars, trailing, leaving, deviceMutex, cancelled, connectVars,
                   serverDown, cqDown, dangling>>

\* and waits until the registry is empty.
ProcessEventsReturns ==
    /\ events = "drain"
    /\ Registry = {}
    /\ events' = "returned"
    /\ UNCHANGED <<objVars, trailing, leaving, deviceMutex, cancelled, connectVars,
                   serverDown, cqDown, dangling>>

-----------------------------------------------------------------------------
\* init() has created one object of each class.
Init ==
    /\ \E served \in ServedTogether :
          /\ rpc = [o \in Objects |-> IF o \in DOMAIN served.rpcs THEN served.rpcs[o] ELSE "none"]
          /\ status = [o \in Objects |-> IF o \in DOMAIN served.rpcs THEN "kProcess"
                                         ELSE IF o <= Len(served.rpcs) + served.calls THEN "unborn" ELSE "gone"]
          /\ op = [o \in Objects |-> IF o \in DOMAIN served.rpcs THEN "request" ELSE "none"]
    /\ at = [o \in Objects |-> "idle"]
    /\ parts = [o \in Objects |-> 0]
    /\ current = [o \in Objects |-> 1]
    /\ sent = [o \in Objects |-> <<>>]
    /\ reply = [o \in Objects |-> "none"]
    /\ trailing = {} /\ leaving = {} /\ deviceMutex = Nobody
    /\ cancelled = {} /\ listening = {} /\ stopped = {} /\ hasUpdate = {} /\ missed = {}
    /\ hand = [o \in Objects |-> "none"]
    /\ serverDown = FALSE /\ cqDown = FALSE /\ events = "loop"
    /\ dangling = FALSE

\* What happens by itself once it can
Progress ==
    \/ \E o \in Objects : Proceed(o) \/ Leave(o) \/ OperationCompletes(o)
    \/ CqShutdown \/ GotShutdown \/ ProcessEventsReturns

Next ==
    /\ events # "aborted"
    /\ \/ Progress
       \/ \E o \in Objects : \/ ClientCalls(o) \/ ClientGoesAway(o)
                             \/ Wakes(o) \/ ConnectSignalled(o)
       \/ ServerShutdown

Spec == Init /\ [][Next]_vars

\* The scheduler runs the threads, and gRPC completes what was started: a client
\* that stays reads what it is sent. Neither an object is passed over for ever nor those
\* who call proceed by hand. A thread that waits is woken by what notifies it.
FairSpec ==
    /\ Spec
    /\ \A o \in Objects : WF_vars(events # "aborted" /\ (Proceed(o) \/ Leave(o) \/ OperationCompletes(o)))
    /\ WF_vars(events # "aborted" /\ \E o \in Objects : Hand(o))
    /\ WF_vars(events # "aborted" /\ (CqShutdown \/ GotShutdown \/ ProcessEventsReturns))

-----------------------------------------------------------------------------
(* Properties *)

\* The types of the variables.
TypeOK ==
    /\ rpc \in [Objects -> Rpcs \cup {"none"}]
    /\ status \in [Objects -> {"unborn", "kProcess", "kWrite", "kPostWrite", "kFinish", "gone"}]
    /\ op \in [Objects -> {"none", "request", "write", "finish"}]
    /\ at \in [Objects -> {"idle", "cancelled", "switch", "offer", "process", "write", "lock",
                        "block", "wait", "send"}]
    /\ parts \in [Objects -> 0..MaxParts] /\ current \in [Objects -> 1..MaxParts + 1]
    /\ sent \in [Objects -> Seq(1..MaxParts)]
    /\ reply \in [Objects -> {"none", "OK", "error"}]
    /\ trailing \subseteq Objects /\ leaving \subseteq Objects /\ cancelled \subseteq Objects
    /\ listening \subseteq Objects /\ stopped \subseteq Objects
    /\ hasUpdate \subseteq Objects /\ missed \subseteq Objects
    /\ hand \in [Objects -> {"none", "look", "proceed"}]
    /\ deviceMutex \in Objects \cup {Nobody}
    /\ {serverDown, cqDown, dangling} \subseteq BOOLEAN
    /\ events \in {"loop", "drain", "returned", "aborted"}

\* Every object in the registry is driven by exactly one operation or one thread,
\* on every path through every proceed(): with none it would stay in the registry
\* for ever, with two the second would find it destroyed. A destroyed object has
\* neither. The one exception is Connect, which starts an operation, finds that the
\* client has gone, and calls proceed(false) by hand: such an object has a second
\* thread, and gRPC may have the operation when the object is gone.
DrivenByOne ==
    \A o \in Objects :
        /\ Alive(o) => (op[o] # "none") # (at[o] # "idle")
        /\ Alive(o) /\ hand[o] = "proceed" => rpc[o] = "Connect" /\ o \in cancelled
        /\ ~Alive(o) => at[o] = "idle" /\ (op[o] # "none" => rpc[o] = "Connect" /\ op[o] # "request")

\* As long as the server is up, each RPC has one object that waits for a client
\* or whose thread has yet to create the next one: a client is never left without
\* an object, whatever the calls before it came to.
Waiting(o) == status[o] = "kProcess" /\ (op[o] = "request" \/ at[o] \in {"switch", "offer"})
OneOfferPerRpc ==
    ~serverDown =>
        \A r \in {rpc[o] : o \in Objects} \ {"none"} :
            Cardinality({o \in Objects : rpc[o] = r /\ Waiting(o)}) = 1

\* The registry stays sound: types, and no object and no client is left alone on
\* any path through any proceed(), as DrivenByOne and OneOfferPerRpc say.
ObjectsDriven == TypeOK /\ DrivenByOne /\ OneOfferPerRpc

\* A stream that ended with OK has sent its responses in order and without gaps,
\* each once. Two exceptions: UpdateSubscriptions passes over what the client may
\* not read, and ParamInfoRequest, whose second thread may read status_ before the
\* first has updated it, may repeat the last response, once.
StreamsComplete ==
    \A o \in Objects : reply[o] = "OK" =>
        LET s == IF rpc[o] = "ParamInfoRequest" /\ Len(sent[o]) > parts[o]
                 THEN SubSeq(sent[o], 1, parts[o]) ELSE sent[o] IN
        /\ \A i \in 1..Len(s) - 1 : s[i] < s[i + 1]
        /\ rpc[o] # "UpdateSubscriptions" => Len(s) = parts[o] /\ Len(sent[o]) <= parts[o] + 1
        /\ \A i \in DOMAIN sent[o] : sent[o][i] <= parts[o]

\* Once the server is shut down, processEvents returns: the waiting Connect object
\* reaches every open Connect call, and every path of every proceed() ends in
\* deregisterItem. Two exceptions: the process may be aborted (FinishTwice, of a
\* ParamInfoRequest or of a Connect), and a Connect that has missed the notification
\* of its shutdown() waits for a further one (if none is missed for ever, all is well).
ServiceStops ==
    []<>(missed = {}) => (serverDown ~> (events \in {"returned", "aborted"}))

\* The client's view of a service, which this module implements: the next object
\* is offered, a call is accepted, sent to, answered and closed.
WasOffered(o) ==
    /\ Alive(o) /\ o \notin cancelled /\ reply[o] = "none"
    /\ op[o] = "request" \/ at[o] = "cancelled" \/ (status[o] = "kFinish" /\ at[o] # "send")
Phase(o) ==
    IF ~Alive(o) THEN status[o]
    ELSE IF WasOffered(o) THEN "offered"
    ELSE IF reply[o] # "none" THEN "answered" ELSE "open"
Phases == [o \in Objects |-> Phase(o)]
Abstract == INSTANCE RpcService
    WITH kind <- rpc, phase <- Phases, messages <- sent,
         Positions <- 1..MaxParts, abandoned <- cancelled, closed <- serverDown, returned <- (events = "returned")
ImplementsRpcService == Abstract!Spec

\* "Waiting until all events are processed to exit."
ReturnsAfterLastThread == events = "returned" => leaving \cup trailing = {}

\* A call is finished once.
FinishedOnce == events # "aborted"

\* "Check if we have more responses to write": on an object that is still there.
ObjectOutlivesItsThreads == ~dangling
=============================================================================
