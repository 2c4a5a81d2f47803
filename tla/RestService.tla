----------------------------- MODULE RestService -----------------------------
(***************************************************************************)
(* The C++ REST service: run() accepts connections and handles each in a   *)
(* detached thread of its own, which reads one request, routes it to a     *)
(* controller and counts itself out; Shutdown() makes run() leave its      *)
(* loop, stop the open Connect calls and wait for the threads.             *)
(*                                                                         *)
(* A controller is all of its proceed(). What it sends goes through one of *)
(* three writers: "plain" and "buffered" (SocketWriter) and "sse"          *)
(* (SSEWriter). A status line is "OK", "NO_CONTENT", "ALREADY_REPORTED" or *)
(* "error", which is 300 and above. Writes are synchronous and have no     *)
(* timeout. The files of the assets are one file. Connect is reduced to    *)
(* its part in the service; the device's mutex plays no role in this       *)
(* module.                                                                 *)
(***************************************************************************)
EXTENDS Integers, Sequences, FiniteSets

CONSTANTS Clients,   \* connections that clients make, one request each
          Dummy,     \* the connection that Shutdown() makes
          Mixes,     \* what the clients ask for: functions to Endpoints or "nothing"
          MaxParts,  \* bound on the messages of one response
          MaxWrites  \* bound on the writes of the asset

Endpoints == {"OPTIONS", "health", "unknown", "connect", "devices", "value", "setvalue", "values",
              "param", "languages", "language_pack", "param_info", "subscriptions", "device",
              "command", "GET_asset", "POST_asset", "PUT_asset", "DELETE_asset"}

ASSUME ClientsAssumption == Dummy \notin Clients /\ Mixes \subseteq [Clients -> Endpoints \cup {"nothing"}]
ASSUME BoundsAssumption == MaxParts \in Nat /\ MaxWrites \in Nat

Requests == Clients \cup {Dummy}

VARIABLES
    run,            \* where run() is
    shutdown,       \* shutdown_
    stopping,       \* where Shutdown() is
    activeRequests, \* activeRequests_
    pc,             \* where the thread of the connection is
    endpoint,       \* what the request asks for
    writer,         \* the writer of the controller
    rc,             \* the thread's rc
    heads,          \* the status lines written to the socket
    events,         \* the events written after the status line
    body,           \* the messages in the writer's jsonBody_
    left,           \* the messages the controller has yet to send
    outcome,        \* what the controller came to
    closed,         \* the sockets that are closed
    listening,      \* Connect calls connected to shutdownSignal_
    stopped,        \* Connect calls with shutdown_
    late,           \* history: Connect calls that connected after it was emitted
    asset,          \* the file: "absent", "empty" (just opened) or "written"
    created,        \* how many times it has been created
    deleted         \* how many DELETEs have reported success

serviceVars == <<run, shutdown, stopping, activeRequests>>
socketVars == <<heads, events, closed>>
callVars == <<endpoint, writer, body, left, outcome>>
connectVars == <<listening, stopped, late>>
assetVars == <<asset, created, deleted>>
vars == <<serviceVars, pc, rc, socketVars, callVars, connectVars, assetVars>>

\* activeRequestMutex_
Unlocked == \A o \in Requests : pc[o] # "unlock"

Goto(r, l) == pc' = [pc EXCEPT ![r] = l]
At(r, l, e) == pc[r] = l /\ endpoint[r] = e

SlotErrors == {"INVALID_ARGUMENT", "NOT_FOUND"}
TokenErrors == {"UNAUTHENTICATED"}
DeviceErrors == {"PERMISSION_DENIED", "INTERNAL", "UNKNOWN"}
AllErrors == SlotErrors \cup TokenErrors \cup DeviceErrors
\* What a request came to
Outcome(code) == IF code \in {"OK", "NO_CONTENT"} THEN code ELSE "error"
\* the status line of a code: codeMap_, where ALREADY_EXISTS is 208
Http(code) == IF code = "ALREADY_EXISTS" THEN "ALREADY_REPORTED" ELSE Outcome(code)

-----------------------------------------------------------------------------
(* The writers *)

\* boost::asio::write returns when the client has read, which it need not do (see
\* FairSpec), or has gone away, as it may at any time: what is written to it then
\* closes the socket, sooner or later, and to a closed socket nothing is written.
Put(r, lines, n) ==
    \/ /\ r \notin closed
       /\ heads' = [heads EXCEPT ![r] = @ \o lines]
       /\ events' = [events EXCEPT ![r] = @ + n]
       /\ UNCHANGED closed
    \/ /\ closed' = closed \cup {r}
       /\ UNCHANGED <<heads, events>>

\* SocketWriter::sendResponse: a message is added to the body; the response is
\* sent unless it is buffered and this call has a message for it.
SocketWriter(r, code, message, buffer) ==
    LET added == body[r] + (IF message /\ Http(code) # "error" THEN 1 ELSE 0) IN
    IF buffer /\ added > body[r]
    THEN body' = [body EXCEPT ![r] = added] /\ UNCHANGED socketVars
    ELSE /\ Put(r, <<Http(code)>>, 0)
         /\ body' = [body EXCEPT ![r] = IF Http(code) = "error" THEN 0 ELSE added]

\* Mutant of SSEWriter: headers_sent_ is not kept.
SSEWriterRepeating(r, code, message) ==
    /\ Put(r, <<Http(code)>>, IF message /\ Http(code) # "error" THEN 1 ELSE 0)
    /\ UNCHANGED body

\* SSEWriter::sendResponse: headers only once, an event only if all is well
SSEWriter(r, code, message) ==
    /\ Put(r, IF heads[r] = <<>> THEN <<Http(code)>> ELSE <<>>,
              IF message /\ Http(code) # "error" THEN 1 ELSE 0)
    /\ UNCHANGED body

SendResponse(r, code, message) ==
    IF writer[r] = "sse" THEN SSEWriter(r, code, message)
                         ELSE SocketWriter(r, code, message, writer[r] = "buffered")

-----------------------------------------------------------------------------
(* run() and Shutdown() *)

\* run() begins.
Start ==
    /\ run = "before"
    /\ shutdown' = FALSE
    /\ run' = "loop"
    /\ UNCHANGED <<stopping, activeRequests, pc, rc, socketVars, callVars, connectVars, assetVars>>

Loop ==
    /\ run = "loop"
    /\ run' = IF shutdown THEN "emit" ELSE "accept"
    /\ UNCHANGED <<shutdown, stopping, activeRequests, pc, rc, socketVars, callVars, connectVars,
                   assetVars>>

\* Mutant of Accept: the thread that is started counts itself.
AcceptUncounted(r) ==
    /\ run = "accept"
    /\ pc[r] = IF r = Dummy THEN "backlog" ELSE "none"
    /\ Unlocked
    /\ Goto(r, "start")
    /\ run' = "loop"
    /\ UNCHANGED <<shutdown, stopping, activeRequests, rc, socketVars, callVars, connectVars, assetVars>>

\* accept returns, because a client or Shutdown() has connected: the request is
\* counted and its thread is started.
Accept(r) ==
    /\ run = "accept"
    /\ pc[r] = IF r = Dummy THEN "backlog" ELSE "none"
    /\ Unlocked
    /\ activeRequests' = activeRequests + 1
    /\ Goto(r, "start")
    /\ run' = "loop"
    /\ UNCHANGED <<shutdown, stopping, rc, socketVars, callVars, connectVars, assetVars>>

\* The loop is over: shutdownSignal_.emit()
EmitShutdown ==
    /\ run = "emit"
    /\ stopped' = stopped \cup listening
    /\ run' = "wait"
    /\ UNCHANGED <<shutdown, stopping, activeRequests, pc, rc, socketVars, callVars, listening,
                   late, assetVars>>

RunReturns ==
    /\ run = "wait"
    /\ activeRequests = 0
    /\ run' = "returned"
    /\ UNCHANGED <<shutdown, stopping, activeRequests, pc, rc, socketVars, callVars, connectVars,
                   assetVars>>

\* Shutdown() sets the flag,
ShutdownFlag ==
    /\ stopping = "no"
    /\ shutdown' = TRUE
    /\ stopping' = "connect"
    /\ UNCHANGED <<run, activeRequests, pc, rc, socketVars, callVars, connectVars, assetVars>>

\* and makes a connection, so that accept returns.
ShutdownConnects ==
    /\ stopping = "connect"
    /\ Goto(Dummy, "backlog")
    /\ stopping' = "done"
    /\ UNCHANGED <<run, shutdown, activeRequests, rc, socketVars, callVars, connectVars, assetVars>>

-----------------------------------------------------------------------------
(* The thread of a request *)

\* What client r may ask for, given what the others have asked for
Asks(r) ==
    {mix[r] : mix \in {m \in Mixes : \A o \in Clients : endpoint[o] \in {m[o], "unread"}}} \ {"nothing"}

Fail(r, code) ==
    /\ rc' = [rc EXCEPT ![r] = Http(code)]
    /\ Goto(r, "final")

Begin(r) ==
    /\ pc[r] = "start"
    /\ IF shutdown THEN Fail(r, "UNAVAILABLE") ELSE Goto(r, "read") /\ UNCHANGED rc
    /\ UNCHANGED <<serviceVars, socketVars, callVars, connectVars, assetVars>>

\* read_with_timeout and read_until_with_timeout: the timer wins, or the socket fails.
ReadFailures == {"DEADLINE_EXCEEDED", "UNKNOWN"}

\* announced is the Content-Length, received what came with the headers; the rest
\* of it may not come in time, or not at all.
ReadBody(r) ==
    \E announced, received \in 0..2, typed \in BOOLEAN :
        \/ /\ received > announced \/ (announced > 0 /\ ~typed)
           /\ Fail(r, IF announced > 0 /\ ~typed THEN "INVALID_ARGUMENT" ELSE "DATA_LOSS")
        \/ /\ received <= announced /\ (announced > 0 => typed)
           /\ Goto(r, "route") /\ UNCHANGED rc
        \/ /\ received < announced /\ typed
           /\ \E code \in ReadFailures : Fail(r, code)

\* SocketReader::read. The request line and the headers tell what a client asks
\* for, unless they do not come in time, break off or make no sense; the connection
\* that Shutdown() makes sends nothing.
Read(r) ==
    /\ pc[r] = "read"
    /\ \/ /\ r \in Clients
          /\ \E e \in Asks(r) : endpoint' = [endpoint EXCEPT ![r] = e]
          /\ ReadBody(r)
       \/ /\ \E code \in ReadFailures \cup {"INVALID_ARGUMENT"} : Fail(r, code)
          /\ UNCHANGED endpoint
    /\ UNCHANGED <<serviceVars, socketVars, writer, body, left, outcome, connectVars, assetVars>>

\* The writer that the constructor of the controller chooses; stream says that
\* the url ends in "/stream".
WriterOf(e, stream) ==
    CASE e = "connect"                                              -> "sse"
      [] stream /\ e \in {"device", "command", "subscriptions", "param_info"} -> "sse"
      [] ~stream /\ e \in {"device", "command", "subscriptions"}     -> "buffered"
      [] OTHER                                                      -> "plain"

\* The controller, if there is one, is made and its proceed() runs.
Route(r) ==
    /\ pc[r] = "route"
    /\ \/ /\ endpoint[r] = "OPTIONS"
          /\ Put(r, <<"NO_CONTENT">>, 0)
          /\ Fail(r, "NO_CONTENT") /\ UNCHANGED writer
       \/ /\ endpoint[r] = "health"
          /\ Put(r, <<"OK">>, 0)
          /\ Goto(r, "final") /\ UNCHANGED <<rc, writer>>
       \/ /\ endpoint[r] = "unknown"
          /\ Fail(r, "UNIMPLEMENTED") /\ UNCHANGED <<socketVars, writer>>
       \/ /\ endpoint[r] \notin {"OPTIONS", "health", "unknown"}
          /\ \E stream \in BOOLEAN : writer' = [writer EXCEPT ![r] = WriterOf(endpoint[r], stream)]
          /\ Goto(r, "proceed") /\ UNCHANGED <<rc, socketVars>>
    /\ UNCHANGED <<serviceVars, endpoint, body, left, outcome, connectVars, assetVars>>

\* The controller is gone; the thread writes its rc if that is not OK, and counts
\* itself out.
Final(r) ==
    /\ pc[r] = "final" /\ Unlocked
    /\ IF rc[r] = "OK" THEN UNCHANGED socketVars ELSE Put(r, <<rc[r]>>, 0)
    /\ Goto(r, "unlock")
    /\ activeRequests' = activeRequests - 1
    /\ writer' = [writer EXCEPT ![r] = "plain"] /\ body' = [body EXCEPT ![r] = 0]
    /\ UNCHANGED <<run, shutdown, stopping, rc, endpoint, left, outcome, connectVars, assetVars>>

\* It logs the new count, unlocks the mutex and drops the socket.
Leave(r) ==
    /\ pc[r] = "unlock"
    /\ Goto(r, "done")
    /\ UNCHANGED <<serviceVars, rc, socketVars, callVars, connectVars, assetVars>>

-----------------------------------------------------------------------------
(* Controllers with one response *)

\* One call of sendResponse, with a message if the outcome is OK.
Respond(r, codes) ==
    /\ \E code \in codes :
          /\ SendResponse(r, code, code = "OK")
          /\ outcome' = [outcome EXCEPT ![r] = Outcome(code)]
    /\ Goto(r, "final")
    /\ UNCHANGED <<serviceVars, rc, endpoint, writer, left, connectVars, assetVars>>

Unary(r, e, codes) == At(r, "proceed", e) /\ Respond(r, codes)

GetPopulatedSlots(r) == Unary(r, "devices", {"OK"})
GetValue(r) == Unary(r, "value", {"OK"} \cup AllErrors)
MultiSetValue(r) == Unary(r, "values", {"OK"} \cup AllErrors)
SetValue(r) == Unary(r, "setvalue", {"OK"} \cup AllErrors)
GetParam(r) == Unary(r, "param", {"OK"} \cup AllErrors)
Languages(r) == Unary(r, "languages", {"OK"} \cup SlotErrors \cup DeviceErrors)
LanguagePack(r) == Unary(r, "language_pack", {"OK"} \cup AllErrors)

-----------------------------------------------------------------------------
(* Controllers with several responses *)

\* The first lines of proceed() find out how many messages there are.
BeginMessages(r) ==
    /\ \E n \in 0..MaxParts : left' = [left EXCEPT ![r] = n]
    /\ Goto(r, "send")
    /\ UNCHANGED <<serviceVars, rc, socketVars, endpoint, writer, body, outcome, connectVars,
                   assetVars>>

SendMessage(r) ==
    /\ pc[r] = "send" /\ left[r] > 0
    /\ SendResponse(r, "OK", TRUE)
    /\ left' = [left EXCEPT ![r] = @ - 1]
    /\ UNCHANGED <<serviceVars, pc, rc, endpoint, writer, outcome, connectVars, assetVars>>

\* "empty msg signals unary to send response"
EndMessages(r, codes) ==
    /\ \E code \in codes :
          /\ code = "OK" => left[r] = 0
          /\ SendResponse(r, code, FALSE)
          /\ outcome' = [outcome EXCEPT ![r] = Outcome(code)]
    /\ left' = [left EXCEPT ![r] = 0]
    /\ Goto(r, "final")
    /\ UNCHANGED <<serviceVars, rc, endpoint, writer, connectVars, assetVars>>

\* An error may end the messages at any point: getNext() throws.
DeviceRequest(r) ==
    \/ At(r, "proceed", "device") /\ BeginMessages(r)
    \/ endpoint[r] = "device" /\ SendMessage(r)
    \/ At(r, "send", "device") /\ EndMessages(r, {"OK"} \cup AllErrors)

\* The token is tested before every message; without "respond" there is none.
ExecuteCommand(r) ==
    \/ At(r, "proceed", "command") /\ BeginMessages(r)
    \/ endpoint[r] = "command" /\ SendMessage(r)
    \/ At(r, "send", "command") /\ EndMessages(r, {"OK"} \cup AllErrors)

\* GET passes over the oids that cannot be read, PUT sends no message.
Subscriptions(r) ==
    \/ At(r, "proceed", "subscriptions") /\ BeginMessages(r)
    \/ endpoint[r] = "subscriptions" /\ SendMessage(r)
    \/ At(r, "send", "subscriptions") /\ EndMessages(r, {"OK", "FAILED_PRECONDITION"} \cup AllErrors)

\* All messages are collected before the first is sent, so an error comes alone.
\* Without a stream there is one message at most, and it is the response.
ParamInfoRequest(r) ==
    \/ /\ At(r, "proceed", "param_info") /\ writer[r] = "sse"
       /\ BeginMessages(r) \/ Respond(r, AllErrors)
    \/ endpoint[r] = "param_info" /\ SendMessage(r)
    \/ At(r, "send", "param_info") /\ EndMessages(r, {"OK"})
    \/ At(r, "proceed", "param_info") /\ writer[r] = "plain" /\ Respond(r, {"OK"} \cup AllErrors)

-----------------------------------------------------------------------------
(* AssetRequest *)

AssetCall(r, from) == pc[r] = from /\ endpoint[r] \in {"GET_asset", "POST_asset", "PUT_asset", "DELETE_asset"}

\* Slot, token, device, scope: proceed() up to the test of the file
RefuseAsset(r) ==
    /\ AssetCall(r, "proceed")
    /\ Respond(r, AllErrors)

\* std::filesystem::exists
TestAsset(r) ==
    /\ AssetCall(r, "proceed")
    /\ IF (asset = "absent") = (endpoint[r] = "POST_asset")
       THEN /\ Goto(r, "use")
            /\ UNCHANGED <<serviceVars, rc, socketVars, callVars, connectVars, assetVars>>
       ELSE Respond(r, IF endpoint[r] = "POST_asset" THEN {"ALREADY_EXISTS"} ELSE {"NOT_FOUND"})

\* GET: the file is opened, which fails if it has gone, and read.
ReadAsset(r) ==
    /\ At(r, "use", "GET_asset")
    /\ \/ asset # "absent" /\ Respond(r, {"OK"})
       \/ Respond(r, {"INTERNAL"})

\* POST and PUT: extractPayload may fail to decompress or to open the file;
OpenAsset(r) ==
    /\ pc[r] = "use" /\ endpoint[r] \in {"POST_asset", "PUT_asset"}
    /\ \/ Respond(r, {"INTERNAL"})
       \/ /\ created < MaxWrites
          /\ asset' = "empty"
          /\ created' = IF asset = "absent" THEN created + 1 ELSE created
          /\ Goto(r, "write")
          /\ UNCHANGED <<serviceVars, rc, socketVars, callVars, connectVars, deleted>>

\* an open file is written to even if it has been deleted meanwhile.
WriteAsset(r) ==
    /\ pc[r] = "write"
    /\ SendResponse(r, "NO_CONTENT", FALSE)
    /\ outcome' = [outcome EXCEPT ![r] = "NO_CONTENT"]
    /\ asset' = IF asset = "absent" THEN "absent" ELSE "written"
    /\ Goto(r, "final")
    /\ UNCHANGED <<serviceVars, rc, endpoint, writer, left, connectVars, created, deleted>>

\* Mutant of DeleteAsset: the result of remove is ignored.
DeleteAssetBlindly(r) ==
    /\ At(r, "use", "DELETE_asset")
    /\ SendResponse(r, "NO_CONTENT", FALSE)
    /\ outcome' = [outcome EXCEPT ![r] = "NO_CONTENT"]
    /\ asset' = "absent" /\ deleted' = deleted + 1
    /\ Goto(r, "final")
    /\ UNCHANGED <<serviceVars, rc, endpoint, writer, left, connectVars, created>>

\* DELETE: remove says whether there was a file to remove.
DeleteAsset(r) ==
    /\ At(r, "use", "DELETE_asset")
    /\ \/ asset = "absent" /\ Respond(r, {"INTERNAL"})
       \/ /\ asset # "absent"
          /\ SendResponse(r, "NO_CONTENT", FALSE)
          /\ outcome' = [outcome EXCEPT ![r] = "NO_CONTENT"]
          /\ asset' = "absent" /\ deleted' = deleted + 1
          /\ Goto(r, "final")
          /\ UNCHANGED <<serviceVars, rc, endpoint, writer, left, connectVars, created>>

AssetRequest(r) == RefuseAsset(r) \/ TestAsset(r) \/ ReadAsset(r) \/ OpenAsset(r) \/ WriteAsset(r) \/ DeleteAsset(r)

-----------------------------------------------------------------------------
(* Connect *)

\* proceed() connects to shutdownSignal_ first,
ConnectSignal(r) ==
    /\ At(r, "proceed", "connect")
    /\ listening' = listening \cup {r}
    /\ late' = IF run \in {"wait", "returned"} THEN late \cup {r} ELSE late
    /\ Goto(r, "register")
    /\ UNCHANGED <<serviceVars, rc, socketVars, callVars, stopped, assetVars>>

\* registers with the connection queue, and sends the slots, or the error;
ConnectRegisters(r) ==
    /\ At(r, "register", "connect")
    /\ \E code \in {"OK", "RESOURCE_EXHAUSTED", "UNAUTHENTICATED"} :
          /\ SendResponse(r, code, code = "OK")
          /\ stopped' = IF code = "OK" THEN stopped ELSE stopped \cup {r}
          /\ outcome' = [outcome EXCEPT ![r] = Outcome(code)]
    /\ Goto(r, "connected")
    /\ UNCHANGED <<serviceVars, rc, endpoint, writer, left, listening, late, assetVars>>

\* every update wakes it up
ConnectWakes(r) ==
    /\ At(r, "connected", "connect")
    /\ r \notin closed \cup stopped
    /\ Goto(r, "push")
    /\ UNCHANGED <<serviceVars, rc, socketVars, callVars, connectVars, assetVars>>

\* and is sent, or, when its token has expired, the end is. The number of events is not
\* counted: what SSEWriter makes of the end is nothing.
ConnectPush(r) ==
    /\ At(r, "push", "connect")
    /\ Put(r, <<>>, 0)
    /\ stopped' \in {stopped, stopped \cup {r}}
    /\ Goto(r, "connected")
    /\ UNCHANGED <<serviceVars, rc, callVars, listening, late, assetVars>>

\* Mutant of ConnectEnds: only the socket is tested.
ConnectEndsWhenClosed(r) ==
    /\ At(r, "connected", "connect")
    /\ r \in closed
    /\ listening' = listening \ {r}
    /\ stopped' = stopped \ {r}
    /\ Goto(r, "final")
    /\ UNCHANGED <<serviceVars, rc, socketVars, callVars, late, assetVars>>

\* The loop ends, when a stopped call has been woken up and has sent nothing, and the
\* destructor disconnects.
ConnectEnds(r) ==
    /\ At(r, "connected", "connect")
    /\ r \in closed \cup stopped
    /\ listening' = listening \ {r}
    /\ stopped' = stopped \ {r}
    /\ Goto(r, "final")
    /\ UNCHANGED <<serviceVars, rc, socketVars, callVars, late, assetVars>>

Connect(r) == ConnectSignal(r) \/ ConnectRegisters(r) \/ ConnectPush(r) \/ ConnectEnds(r)

-----------------------------------------------------------------------------
Init ==
    /\ run = "before" /\ shutdown = FALSE /\ stopping = "no" /\ activeRequests = 0
    /\ pc = [r \in Requests |-> "none"]
    /\ endpoint = [r \in Requests |-> "unread"]
    /\ writer = [r \in Requests |-> "plain"]
    /\ rc = [r \in Requests |-> "OK"]
    /\ heads = [r \in Requests |-> <<>>]
    /\ events = [r \in Requests |-> 0]
    /\ body = [r \in Requests |-> 0]
    /\ left = [r \in Requests |-> 0]
    /\ outcome = [r \in Requests |-> "none"]
    /\ closed = {} /\ listening = {} /\ stopped = {} /\ late = {}
    /\ asset \in {"absent", "written"} /\ deleted = 0
    /\ created = IF asset = "absent" THEN 0 ELSE 1

Proceed(r) ==
    \/ Begin(r) \/ Read(r) \/ Route(r) \/ Final(r) \/ Leave(r)
    \/ GetPopulatedSlots(r) \/ GetValue(r) \/ MultiSetValue(r) \/ SetValue(r) \/ GetParam(r)
    \/ Languages(r) \/ LanguagePack(r)
    \/ DeviceRequest(r) \/ ExecuteCommand(r) \/ Subscriptions(r) \/ ParamInfoRequest(r)
    \/ AssetRequest(r) \/ Connect(r)

RunStep == Loop \/ Accept(Dummy) \/ EmitShutdown \/ RunReturns

Next ==
    \/ Start \/ RunStep \/ ShutdownFlag \/ ShutdownConnects
    \/ \E r \in Clients : Accept(r) \/ ConnectWakes(r)
    \/ \E r \in Requests : Proceed(r)

Spec == Init /\ [][Next]_vars

\* The thread is between its request and the end of a write.
Writing(r) ==
    \/ pc[r] \in {"route", "proceed", "send", "use", "write", "register", "push"}
    \/ pc[r] = "final" /\ rc[r] # "OK"

\* The scheduler runs every thread. Reads have a timeout, so they end by
\* themselves. Writes have none, and a client that stays need not read: nothing is
\* assumed of a thread that is writing. A Connect call that was stopped wakes up:
\* without a heartbeat it may not, see PushConnect. Nobody has to make a request, and
\* no device has to have an update.
FairSpec ==
    /\ Spec
    /\ WF_vars(RunStep) /\ WF_vars(ShutdownConnects)
    /\ \A r \in Requests : WF_vars(~Writing(r) /\ Proceed(r))

-----------------------------------------------------------------------------
(* Properties *)

Lines == {"OK", "NO_CONTENT", "ALREADY_REPORTED", "error"}

\* The types of the state
TypeOK ==
    /\ run \in {"before", "loop", "accept", "emit", "wait", "returned"}
    /\ shutdown \in BOOLEAN /\ stopping \in {"no", "connect", "done"}
    /\ activeRequests \in Nat
    /\ pc \in [Requests -> {"none", "backlog", "start", "read", "route", "proceed", "send", "use",
                             "write", "register", "connected", "push", "final", "unlock", "done"}]
    /\ endpoint \in [Requests -> Endpoints \cup {"unread"}]
    /\ writer \in [Requests -> {"plain", "buffered", "sse"}]
    /\ rc \in [Requests -> Lines] /\ outcome \in [Requests -> Lines \cup {"none"}]
    /\ heads \in [Requests -> Seq(Lines)] /\ events \in [Requests -> Nat]
    /\ body \in [Requests -> Nat] /\ left \in [Requests -> Nat]
    /\ closed \subseteq Requests /\ listening \subseteq Requests
    /\ stopped \subseteq Requests /\ late \subseteq Requests
    /\ asset \in {"absent", "empty", "written"} /\ created \in Nat /\ deleted \in Nat

\* The threads between accept and the end of their work
Live == {r \in Requests : pc[r] \notin {"none", "backlog", "unlock", "done"}}

\* run() never returns under a thread that still reads, routes or answers a request:
\* not even under one whose client has gone away or does not read, or whose last
\* write fails. All that such a thread may still have to do is to log the count and
\* to unlock activeRequestMutex_.
ReturnsAfterRequests ==
    run = "returned" => Live = {}

\* activeRequests_ is exact, on every way out of a thread, so that run() can wait for it.
RequestsCounted == TypeOK /\ activeRequests = Cardinality(Live) /\ ReturnsAfterRequests

\* On every path - a bad request, a controller that fails before, between or after
\* its messages, a shutdown - a client that stays gets one response. One exception:
\* OPTIONS is answered by the router, and again because its rc is not OK.
OneResponse ==
    \A r \in Requests : pc[r] = "done" /\ r \notin closed
        => Len(heads[r]) = IF endpoint[r] = "OPTIONS" /\ rc[r] = "NO_CONTENT" THEN 2 ELSE 1

\* The status line tells a client what its request came to, even when the error
\* occurred after the first messages of the response, which SocketWriter therefore
\* holds back. It does not for a stream of which an event has been sent, nor for a
\* POST that failed because the asset exists: that is answered by a 208.
StatusTellsOutcome ==
    \A r \in Requests :
        pc[r] = "done" /\ r \notin closed /\ outcome[r] # "none" /\ events[r] = 0
            => \/ heads[r] = <<outcome[r]>>
               \/ /\ heads[r] = <<"ALREADY_REPORTED">>
                  /\ endpoint[r] = "POST_asset" /\ outcome[r] = "error"

\* Every request is answered once, by an answer that says what became of it, with
\* the three exceptions above.
AnsweredOnce == OneResponse /\ StatusTellsOutcome

\* However the requests for one asset overlap, every file that was created is
\* either there or was reported deleted, once.
DeletedOnce == created = deleted + (IF asset = "absent" THEN 0 ELSE 1)

\* Shutdown() makes run() return, provided that no client stays for ever without
\* reading what a thread is writing to it. That clients send nothing, stay or go away
\* does not matter. One exception: a Connect call that has passed the test of
\* shutdown_ and connects to shutdownSignal_ only after it was emitted. (A Shutdown()
\* before run() is undone by run().)
ShutdownReturns ==
    (\A r \in Requests : []<>~Writing(r))
        => ((shutdown /\ run # "before") ~> (run = "returned" \/ late # {}))

\* "Send shutdown signal and wait for active requests."
ShutdownStopsConnect == (run = "wait") ~> (run = "returned")
=============================================================================
