# Catena in TLA+

Catena is a set of SDKs (C++, Go, Java) for services that expose device models -
trees of parameters - to control clients, over gRPC and REST. A client reads and
sets parameters, runs commands, subscribes to some parameters, and keeps a
long-lived *Connect* call open over which the service pushes updates. This
directory models the C++ SDK (its device, its two services, what they share, and
the programs that run them) and the Go SDK (its server, transports and
parameters), and checks the models with TLC on small instances. TLAPS proves the
safety properties of eleven of them for every instance: any number of calls,
threads, clients, messages and updates.

    tlc -config ConnectionQueue.cfg MCConnectionQueue     # any run below
    tlapm ConnectProofs.tla                               # any module ...Proofs

## 1. The system

C++ paths are below `src/sdks/cpp`, Go paths below `src/sdks/go/pkg`.

| part | state it keeps | operations | talks to | module |
|---|---|---|---|---|
| connection queue (`common/src/ConnectionQueue.cpp`) | vector of raw `IConnect*` sorted by `operator<`, a limit, a mutex | `registerConnection`, `deregisterConnection` | `isCancelled()` and `shutdown()` of the Connect objects | `ConnectionQueue` |
| Connect (`common/include/rpc/Connect.h`, gRPC `Connect.cpp`) | `res_`, `hasUpdate_`, `shutdown_`, `status_`, a mutex, a condition variable | `proceed`, `updateResponse_` (two), `shutdown` | slot of the device's signals; connection queue; subscription manager | `PushConnect` |
| gRPC service (`connections/gRPC/src`) | registry of call objects, completion queue | `processEvents`, fourteen `proceed` methods, shutdown | one detached thread per event | `GrpcCalls`, `RpcService` |
| REST service (`connections/REST/src`) | acceptor, `activeRequests_`, `shutdown_`, sockets, asset files | `run`, `Shutdown`, reader, writers, thirteen controllers | one detached thread per request | `RestService` |
| device (`common/src/Device.cpp`) | parameter values, languages, a mutex its callers lock | `getValue`, `getParam`, `tryMultiSetValue`, `commitMultiSetValue`, `addLanguage`, `removeLanguage`, serializer | emits signals that Connect calls listen to | `Device`, `DeviceSerializer`, `MultiSetValue` |
| parameters (`Path`, `ParamDescriptor`, `ParamWithValue`, `StructInfo`, constraints, `Authorizer`) | none of their own: places in a value | `toProto`, `fromProto`, `validFromProto`, `getParam`, `addBack`, `apply`, `readAuthz`, `writeAuthz` | used by the device | `DeviceParams`, `DeviceScopes` |
| subscription manager (`common/src/SubscriptionManager.cpp`) | a set of oids per device, shared by all clients; a mutex | `addSubscription`, `removeSubscription`, `getAllSubscribedOids`, `isSubscribed` | locks the device; asked by Connect's slots | `Subscriptions` |
| signals (`common/src/vdk/signals.cpp`) | list of connections, two execution counters, removed connections | connect, disconnect, emit, free | every signal of the C++ SDK | `Signals` |
| heartbeat (`common/src/Heartbeat.cpp`) | a flag, a thread | `start`, `stop` | slots of the device's and the node's signal | `Heartbeat` |
| connection properties (`common/src/ConnectionProps.cpp`) | a flag, an acceptor, a thread | `start`, `stop` | clients; connects to itself to stop | `ConnectionProps` |
| NMOS node (`common/src/NmosNode.cpp`) | candidates, the chosen registry, the heartbeat | `init`, destructor | Avahi and HTTP | `NmosNode` |
| programs (`connections/*/examples`) | a global pointer to the server, threads and their flags, lists that commands use | `main`, `handle_signal`, business logic, commands | all of the above | `Programs` |
| Go server (`catena/server.go`, `connection_queue.go`, `heartbeat.go`, transports) | slots, transports, connections with bounded channels, heartbeat | register, broadcast, connect, `Shutdown`, `DeregisterTransport`, `StartHeartbeat`, `StopHeartbeat` | transports and application goroutines | `GoServer`, `GoHeartbeat` |
| Go requests (`catena/*.go`, `transports/*.go`) | params and values of the application | every endpoint of both transports; builders and factories | handlers of the application | `GoRequests` and the modules it is built of |

What is hard here. In C++ an object that serves a call is used at once by the
threads that run `proceed`, by every thread that sets a value, by the thread that
registers another connection and by the shutdown, and it deletes itself; flags are
written outside the mutex that guards them; the signals library walks its list
without a lock; two mutexes are taken in two orders; a multi-set validates first
and then writes without a way back; a coroutine keeps iterators into maps that
change while it is suspended; the programs shut down from a signal handler, through
a pointer into the frame of another thread. In Go, channels have a limit, shutdowns have
deadlines, and a heartbeat may be restarted by several goroutines, its own handler
among them. In both, a value passes several representations, and access rights are
inherited through nested types. `PROJECT.json` lists these hazards with their
lines and the properties about them.

## 2. The modules

A definition marked "Mutant of X" stands before X. It is X with a plausible
mistake and is used nowhere; with it in X's place TLC finds the property named
beside it in `PROJECT.json` violated, which shows that the property depends on
that piece of the code. Definitions keep the names of the source.

**ConnectionQueue.** A step is a critical section of the queue's mutex. `phase`
follows a Connect object from construction to destruction. `objectId_ =
objectCounter_++` is a load and a store, because REST objects are constructed in
concurrent threads; ids may be equal or out of order. `RegisterConnection` is all of
`registerConnection`: a full vector loses its cancelled connections (`Survivors`),
the place is found (`InsertionPoint`), and the call is refused or takes the place
of the front (`Admit`). The priority is the one `initAuthz_` has computed.

**PushConnect.** One gRPC Connect call with everybody who touches it. Every access
outside the mutex is a step: `cv_.wait` is `Test`, `Block` and a wake-up; the two
reads of `shutdown_` and `IsCancelled()` in kWrite are `Judge` and the `Send`
actions, so a `Finish` may start with `status_` still kWrite and a second one, which
aborts the process, may follow (`finishes`); after its write a thread may find the client
gone and call `proceed(false)` by hand, beside the operation it has started; `shutdown()` is a flag step and a notify step, by the queue (`Evict*`, under
the queue's mutex) or by the signal (`Stop*`, without). A value is stored in one
step under the mutex, a language pack in three without it. `toProto` may fail after `res_`
was cleared and got its oid (`EmitStoreFails`): `res_` then has an update without a value
and `hasUpdate_` stays as it was. An update is its number; 0 is the cleared message. `AsyncNotifyWhenDone`, called too late to have an effect,
starts no operation.

**GrpcCalls.** All call objects of the service. An object has a `status_`, at most
one operation in flight (`op`) and a thread at `at`. Each controller is one action
with its branches as disjuncts: `Offer` is the construction of the next object at
the start of kProcess, `Refuse` an error found before the device is asked,
`Answer` the end of a unary call under the device's mutex, `BeginStream`,
`WritePart` and `PostWrite` those of a stream. ParamInfoRequest reads `status_`
before it locks the device (`EnterWrite`) and starts its write before it updates its
position, so its thread may be overtaken (`StartWrite`, `AfterWrite`, `trailing`);
a second `Finish`, which this can lead to, ends the process (`FinishTwice`). Connect's
kWrite is a step for each access: it enters, tests, waits, is woken, judges, starts `Write`
or `Finish`, looks at `IsCancelled()` after the unlock and, if the client has gone, goes
through `proceed(false)` by hand (`Hand...`, `hand`) while gRPC has the operation. A
notification of `shutdown()` that falls between a Connect's test and its wait is lost
(`missed`).
`deregisterItem` destroys the object while its thread
still has to return (`leaving`). `ServerShutdown`, `CqShutdown`, `GotShutdown` and
`ProcessEventsReturns` are the shutdown. Clients come, and go away, at any time.

**RpcService** is the abstract specification: a service has one object offered
for each RPC; a call is accepted, sent messages in order, answered or
abandoned, and ends; a closed service returns when nothing is left. GrpcCalls maps
its statuses to phases (`Phase`) and implements it (`ImplementsRpcService`).

**RestService.** `run` is the loop of the acceptor, `pc[r]` the place of the
thread of request `r`. Reading has its outcomes (complete, timed out, broken off,
senseless); `Route` makes the controller; each controller is an action over
`SocketWriter` or `SSEWriter`, whose buffering and once-only headers are
translated. The asset requests test, open, write and remove the file in separate
steps. Every write may find the client gone. `boost::asio::write` has no timeout: a thread
that is writing need not go on (`Writing`, section 4). The status line of
ALREADY_EXISTS is the 208 of `codeMap_`. The request's thread counts itself out before it
logs and unlocks (`Final`, `Leave`). A REST Connect registers with a queue
that may refuse it and ends by the signal, its token or a closed socket.

**MultiSetValue.** A value is its length: a string is a sequence of one number, an
array the lengths of its elements. `TryMultiSetValue` is the validation of a whole
request under the device's mutex, each entry against the array as it is, because
`getParam` gives each a copy with trackers of its own. `CommitEntry` is one turn of
the loop of `commitMultiSetValue`, `CommitCrashes` the use of the null pointer that
`addBack` returned.

**DeviceScopes** has what every request to a device needs: descriptors as a tree, the
scope they inherit, the checks of the authorizer. **DeviceParams** has the parameters
as operators: `Path` as sequences of segments, constraints with the width of their
integers and NaN among the floats, the native values of every type, and `toProto`, `validFromProto`,
`fromProto` and `getParam` of each. **DeviceSerializer** has the language packs and the
DeviceRequest serializer, a coroutine that stands at a key of one of the device's maps
between two `getNext`; a request that removes the pack at which it stands leaves it with
an iterator into freed memory (`dangling`), and the next step crashes; what an iteration over a map with a new key still reaches is
left open. What a parameter looks like when it is sent is a constant operator there
(`ParamToProto`, `SubParamsFor`). **Device** joins the two: get, set, param info through the
visitor and commands as actions on the values, for clients with different scopes, beside
the steps of `SerializerNext`; the run gives the constants their values, `paramToProto`
and `subParamsFor`.

**Subscriptions.** `at[t]` is the place of a call, `managerMutex` and `deviceMutex` the
holders of the two mutexes. `addSubscription` takes the first, then the second; a SetValue
takes the second and, in the slot of its signal, the first if a client listens with
detail level SUBSCRIPTIONS. `Expansion` is what a name stands for when added,
`Matching` what is erased when removed (a prefix of strings).

**Heartbeat**, **ConnectionProps** and **NmosNode** have the small servers beside a
service: a thread that waits or emits until a flag is cleared, and is joined; a
thread that answers one connection at a time and is woken up by a connection that
`stop` makes; and `init` with every code it returns, from the discovery of
registries through the choice of one and the two registrations to the heartbeat.
**Programs** extends the three and has the eighteen shipped programs from `main` to its
return. Each is a record of what it has (transport, business logic, commands that
start and stop a thread, assets, where the map of its handlers lives, properties,
heartbeat, node). The port of the properties or of the service may be taken (`unbound`):
the constructor throws, or `BuildAndStart` returns null. `handle_signal` clears the
flags, tests the global pointer, calls `Shutdown` through it and clears it, each in a
step; the handlers of two signals run at once, step by step (`crossed`). A client of the
properties may connect and send nothing. Commands and asset handlers test
and act in separate steps, as no lock is held between them.

**Signals.** `sig_ctrl` at the grain of its atomic operations: emissions count
themselves in under the version they read, walk `next_` and count themselves out;
connects and disconnects work under the mutex, unlink, and delete or keep for later;
`cleanup` flips the version when the other counter has run out; the control block
goes with its last user. A connection may belong to a context that ends. A slot may
throw: its emission leaves through `exe_guard`, and counts itself out.

**GoServer** composes the server, the connection queue and the two transports with
**GoHeartbeat** (which it extends; a step of one leaves the other's variables alone,
but for `Shutdown`, which stops the heartbeat first). A behaviour follows a
*program*: which transports, slots, broadcasts, streams and calls there are. Every
critical section of `server.mu` and of the queue's mutex is a step; `select` takes
any case that is ready; the condition variable wakes every waiter, and the watchdog
of a deadline removes the connection.

**GoRequests** sends requests to both transports of one server: token, scopes, access
handler, slot, conversion, handler, conversion back, status. The oid is among a handler's
arguments: gRPC passes it on, REST cuts it out of the path with Trim, Split and Join
(`PathParts`), and the router of the standard library (external) redirects a path with two
slashes in a row. What cannot be marshalled is among the messages (`garbled`), and a
fallback handler may be registered. **GoStatus** has the codes
and what each transport makes of them, **GoAssets** the encodings of an asset,
**GoParams** the factories and builders of params with clones of sub-params. A second
kind of behaviour builds params only. How a value is converted and how params are listed
are constant operators of these modules (`NativeToProto`, `ProtoToNative`,
`InfosForRequest`), and so is what REST makes of a device (`DeviceToJSON`), so that what is proved of the requests holds whatever they yield.
The real ones follow nested values: **GoValues** converts between native values, protobuf
and JSON, cleaning included, and **GoParamInfos** flattens and finds params.
**GoConversions** joins all of them and states what conversions promise; the run gives
the constants their values, `ToProto`, `FromProto`, `paramInfosForRequest` and
`MarshalDeviceJSON`.

**...Proofs.** `ConnectProofs` extends `ConnectionQueue`, `PushConnect` and
`Subscriptions`, the three that a Connect call is made of; `GrpcCallsProofs`,
`RestServiceProofs`, `ProgramsProofs`, `SignalsProofs`, `GoServerProofs` and
`GoRequestsProofs` each extend the module they are named after; `DeviceProofs` extends
`MultiSetValue` and `DeviceSerializer` (section 5).

## 3. The runs

| run | bounds | states | shows |
|---|---|---|---|
| `ConnectionQueue` | 3 calls, 2 places, priorities 0-2, 4 ids; symmetric | 606 000 | `QueueSorted`, `QueueMatchesConnections`, `WithinLimit` hold in every state, `ForcesOutTheLowest` and `RefusedOnlyWhenOutranked` of every step |
| `PushConnect` | 2 threads, 1 emitter, 2 updates, eviction; with cancel, expiry, shutdown and a `toProto` that fails, or with languages and cancel | 232 000 | `CallSound`: updates leave in order, the call ends in the named ways, and eviction finds the object alive; `UpdatesGetOut`: the last update is not stuck; `CancelledCallsEnd`, with the heartbeat |
| `GrpcCalls` | streams of up to 2; a call of every RPC by itself, two of ParamInfoRequest and of Connect, GetValue together with SetValue | 410 000 | `ObjectsDriven`: one operation or thread per object, but for a cancelled Connect, and one offer per RPC; `StreamsComplete`; `ImplementsRpcService`; `ServiceStops` |
| `RestService` | 2 clients, 2 parts, 3 asset writes; any two requests that change the asset, a read beside a delete, two Connects, two requests with one response, one with several beside a client that sends nothing | 774 000 | `RequestsCounted`; `AnsweredOnce`: one status line, which tells the outcome; `DeletedOnce`; `ShutdownReturns` |
| `MultiSetValue` | an array of at most 3 strings, 4 in total, and a string of at most 1; requests of up to 2 entries | 4 900 | `LengthsRespected`, `DoesWhatItAccepts` |
| `Device` | a device with 12 params of every type, one with a range wider than half of the integers, 2 commands, 3 languages, six kinds of client, 4-bit integers, one serializer | 19 800 | `OnlyAuthorizedReads`, `OnlyAuthorizedWrites`, `ValuesKept`, `VisitorSound`, `SerializedComplete`: values as of one moment each, and the languages of the device alone |
| `Subscriptions` | `/foo`, `/foo/bar`, `/foobar`; 2 calls | 6 200 | `LocksSound`, `CallsReturn`, `RemovesWhatItNames` |
| `Programs` | 18 programs; 2 calls and a signal or a call and 2 signals (the NMOS node: one of each), 1 client of the properties, 3 registries | 672 000 | `LifetimesRespected`: nothing is used that is gone, every thread is joined; `FaultsNeedRaces`; `HeartbeatsOfRegistered`; `ProgramsStop` |
| `Signals` | 2 emissions, 1 worker, 2 connections, one with a context; slots that throw; symmetric | 6 340 000 | `DeletedWhenUnused`: counters exact, nobody on a deleted connection, nothing leaks; `StandingSlotsInvokedOnce` |
| `GoServer` | 7 programs with up to 2 transports, 2 streams, 2 slots, 2 broadcasts, channels of 2, 2 shutdown calls, 2 heartbeat starts | 183 000 | `EverySlotAnnounced`, `ValuesOfScopeInOrder`, `StoppedInPeace`, `BeatsUnderControl`, `CallsReturn` |
| `GoRequests` | 4 builder calls; every endpoint with all sorts of tokens, oids and messages; slots 0 and 65535 | 242 000 | `TransportsAgree`, `NoHandlerWithoutScope`, `ConversionsFaithful`, listings included |

One run ends in a counterexample. It checks a sentence of the repository that the
code does not keep; `PROJECT.json` quotes it.

| run | sentence | counterexample |
|---|---|---|
| `MultiSetValueAppends` | "ensure the request will go through if fromProto is called" | two appends to an array with one free place |

**Exceptions the passing properties name.** A property that holds but for a case
says so in its comment. The exception is the code's behaviour; the property says that
there is no other.

- `CallSound`: an update whose `toProto` failed is written, without a value, where it has
  overwritten one that waited for the writer, which is lost; a `shutdown_` that is set
  between the two tests of kWrite leads to a second `Finish`, which aborts the process;
  a thread that has started `Finish` under `mtx_`, or, if the client has cancelled, an
  operation or a thread beside a `proceed(false)` by hand, finds the object destroyed.
- `UpdatesGetOut`: what is stuck is never the update of `res_`, but a language pack fills
  `res_` without `mtx_`.
- `ObjectsDriven`: a Connect whose client has gone has a second thread, or an operation
  that outlives it.
- `StreamsComplete`: ParamInfoRequest may repeat its last response, as its second thread
  may read `status_` before the first has changed it.
- `ServiceStops`: the process may end at a second `Finish` (ParamInfoRequest or Connect);
  a Connect that missed the notification of its `shutdown()` waits for a further signal.
- `AnsweredOnce`: OPTIONS is answered twice; a POST of an asset that exists fails with a
  208; a status line that was sent with the first event of a stream cannot change.
- `ShutdownReturns`: a client that stays without reading; a Connect that passes the test
  of `shutdown_` and connects to the signal after it was emitted; and `run` forgets a
  `Shutdown` that came before it.
- `LengthsRespected`, `DoesWhatItAccepts`: two elements of one array in one request are
  validated alone, and two appends may crash.
- `ValuesKept`: a range wider than half of the integers wraps; NaN passes every range.
- `SerializedComplete`: a new language may disturb an iteration; removing the pack at
  which the coroutine stands crashes it, which takes a pack the device was not shipped with.
- `LifetimesRespected`: two handlers of signals cross; `status_update` declares the map
  of its handlers in the function of its business logic, which ends before the calls do.
- `FaultsNeedRaces`: the five reasons for which a program terminates itself: the port of
  the properties or of a gRPC service is taken, two handlers cross, `Shutdown` connects to
  a REST service that has returned, two calls replace or join a command's thread twice;
  and two calls list an asset twice.
- `ProgramsStop`: a `fib_start` that is under way sets `fibLoop` again after the handler
  cleared it, and `main` waits for that thread; a client of the properties that sends
  nothing, or one of a call that does not take its answer.
- `StandingSlotsInvokedOnce`: the slots after one that throws are not invoked.
- `BeatsUnderControl`: of two concurrent `StartHeartbeat` the first may be left beating
  with nobody to stop it. `CallsReturn` of GoServer: a heartbeat handler that stops the
  heartbeat waits for itself.
- `TransportsAgree`: the cases of `Differs` - an oid with an empty segment, a device
  without a proto, compression, a body of unknown length, `respond=false`, unary param
  info, entries of a stream without a response or that cannot be marshalled - and what the
  JSON of a device leaves out. `ConversionsFaithful` says what that is (null, "", {}, [],
  zero fields, `response:false`, and values that are set but empty), and that some
  protobuf values have no native value.

**Stated and refuted.** The modules keep these definitions, which TLC
refutes; they are the strong forms of properties above and not part of a run.

| definition | what happens instead |
|---|---|
| `PushConnect!EveryUpdateIsWritten` | a second update replaces the first in `res_` before the writer wakes up |
| `PushConnect!ShutdownEndsTheCall` (under `FairSpec`) | the notification of `shutdown()` falls between the writer's test and its wait; the next signal heals it |
| `PushConnect!UnlockedBeforeDestroyed` | the completion of `Finish` deletes the object while the mutex is held |
| `Subscriptions!SubscribedUpdatesAreSent` (under `FairSubscriptionsSpec`) | `addSubscription` and a SetValue whose signal has a listener wait for each other's mutex |
| `Subscriptions!RemovesOnlyWhatItNames` | removing `/foo/*` removes `/foobar` |
| `GrpcCalls!ReturnsAfterLastThread`, `ObjectOutlivesItsThreads` | `processEvents` returns while threads still leave `deregisterItem`; ParamInfoRequest updates an object that its own write's completion has finished |
| `GrpcCalls!FinishedOnce` | the completion of ParamInfoRequest's last write reads kWrite, writes again, and two completions find kPostWrite; a Connect reads `shutdown_` as false and then as true |
| `RestService!ShutdownStopsConnect` | the late Connect above |
| `GoServer!AllSignaled` | a stream registers after `shutdownOwner` took its snapshot; the deadline ends it |
| `Device!RangesApplied` | "the value will be constrained to be within the range" (`RangeConstraint.h`): the distance from the minimum of a range wider than half of the integers wraps, and the value that is stored is outside the range or off its steps |
| `GoConversions!SetValuesKept` | "these represent unset proto fields, not meaningful data" (`json_utils.go`): a param whose value is set and empty (a text, an array, a struct) has no value in the JSON of its device |
| `Device!ArrayLengthReported` | the elements of a string array have the array's descriptor, and get its length |

**Why the bounds are enough.** Three calls for two places let one connection be
refused, one evicted and one cleared next to one that stays, and four ids let a place
be used again; the theorems remove the bounds. In a Connect object threads overlap in
`proceed` when one has started the next operation and has not yet returned, or calls
`proceed` by hand: two threads are one in the writer and one that is late, and two updates one that waits
and one that replaces it, fails upon it or races it without the mutex; the theorem has
any number of threads, emitters and updates. The events around a call, the RPCs that are
served, the requests to the REST service and the calls and signals of a program come in
combinations (`Surroundings`, `ServedTogether`, `Mixes`, `Loads`), so that what does not
meet is not multiplied: languages and expiry, or two calls and two signals. The theorems
are about any combinations.
Call objects of the service meet only in the device's mutex, in the registry and in
the shutdown, where pairs suffice, and streams of two have a first, a last and
none. REST requests share the counter, the signal and the asset: pairs again. An
array of at most three can be empty, one below its limit and full; interactions of
entries are pairwise. In `Device` the programs group the params that interact; 4-bit
integers leave every case of the range arithmetic, and the range of `wide`, -8 to 4,
makes it wrap. In `Programs` two calls are one that tests and one
that acts (the second signal has no part in that), two signals a second one at every moment of the first's handler, and three registries
one that is best but of the wrong version, one that is right and one that is worse.
Two emissions and a
worker are enough for a version to flip under a running emission while another
begins; two connections for one to lead to the other, or to throw before it. A channel of two has room for
the slots and for one update, so that the next is dropped.

**Deadlock** is checked in `Device` only: everywhere else a call, a service, a server or a program may have
ended, the process of `MultiSetValue` may crash, and in `Subscriptions` being
stuck is what `LocksSound` is about.

## 4. Fairness

- `PushConnect!Fairness`: every thread that can take a step of `proceed` takes it, and
  one that waits for `mtx_` gets it if it is free again and again; operations that
  were started are delivered, a *request* may never come; slots and `shutdown()` run to
  their end. Nothing makes the client cancel, the token expire or the queue evict.
  Spurious wake-ups are possible and never assumed. `HeartbeatSpec` adds that signals
  keep being emitted, the case once `Device::startHeartbeat` has been called;
  `CancelledCallsEnd` needs it, `UpdatesGetOut` would not.
- `GrpcCalls!FairSpec`: every object's thread goes on, gRPC completes the operations that
  were started, and the shutdown takes its next step. No client has to call, and nothing
  notifies a Connect that waits except its `shutdown()` and the signals. A notification
  that was missed is not made up for: `ServiceStops` is about behaviours in which no
  Connect misses it for ever (`[]<>(missed = {})`), as when the heartbeat runs.
- `RestService!FairSpec`: `run` and every request's thread go on; reads have a timeout
  and end by themselves. A write ends only if the client reads or goes away, and no client
  has to: nothing is assumed of a thread between its request and the end of its write, and
  `ShutdownReturns` has the condition that no thread stays there (`[]<>~Writing(r)`). A
  Connect call that was stopped wakes up, as with a heartbeat. Nobody has to make a
  request or have an update.
- `GoServer!FairSpec`: the goroutines of the shutdown calls go on and contexts reach
  their deadline (`boundedShutdownContext` gives every one a deadline); heartbeat
  handlers return; `select` does not take the tick for ever while the stop is ready
  (strong fairness). Streams get none: a client that does not read may block its own.
- `Programs!Fairness`: every thread runs on, the handlers' and those of calls that have
  begun included. Signals, calls and clients need not come. No client need send the
  request it connected for, or take the answer of its call, as `read_until` and the writes
  have no timeout; `ProgramsStop` names these as its conditions (`[]<>(props # "read")`,
  and that every call is again and again without one that waits for its client).
- `Subscriptions!FairSubscriptionsSpec`: strong fairness of each call once it has begun.

## 5. What is proved

Each theorem holds for every value of the constants that satisfies the assumptions
declared in its module: sets may have any size (the Connect objects of
`ConnectionQueue` and the connections of `Signals` are finitely many, as memory is),
bounds are any natural numbers.
The assumptions say no more than that model values are distinct and that numbers are
numbers; `GoServer` asks for a channel with room for one update, `GrpcCalls` for the
RPCs that are served together (any number of them, all fourteen included) to be
distinct ones of the fourteen.

| module | theorem | says |
|---|---|---|
| `ConnectProofs` | `QueueTypeCorrect` | types, and no object twice in the vector |
| | `AlwaysSorted`, `NoDanglingConnection`, `LimitRespected` | `[]QueueSorted`, `[]QueueMatchesConnections`, `[]WithinLimit` |
| | `ForcingOutIsFair`, `RefusalIsFair` | the action properties `ForcesOutTheLowest`, `RefusedOnlyWhenOutranked` |
| | `CallIsSound` | `[]CallSound` |
| | `SubscriptionsTyped`, `SubscriptionsBlock` | the mutexes exclude; calls block for good in one way only |
| | `SubscriptionsRemoved` | the action property `RemovesWhatItNames` |
| `GrpcCallsProofs` | `GrpcObjectsDriven`, `GrpcStreamsComplete` | `[]ObjectsDriven`, `[]StreamsComplete` |
| | `GrpcImplements` | `Spec => ImplementsRpcService`: the refinement |
| `RestServiceProofs` | `RestRequestsCounted`, `RestAnsweredOnce`, `RestDeletedOnce` | `[]RequestsCounted`, `[]AnsweredOnce`, `[]DeletedOnce` |
| `DeviceProofs` | `SetLengthsRespected`, `SetDoesWhatItAccepts` | `[]LengthsRespected`, `[]DoesWhatItAccepts` |
| | `DeviceSerializedComplete` | `SerializerSpec => []SerializedComplete`, whatever params look like |
| `ProgramsProofs` | `ProgramsLifetimes`, `ProgramsFaults`, `ProgramsHeartbeats` | `[]LifetimesRespected`, `[]FaultsNeedRaces`, `[]HeartbeatsOfRegistered` |
| `SignalsProofs` | `SignalsDeletedWhenUnused`, `SignalsStandingInvokedOnce` | `[]DeletedWhenUnused`, `[]StandingSlotsInvokedOnce` |
| `GoServerProofs` | `GoEverySlotAnnounced`, `GoValuesInOrder` | `[]EverySlotAnnounced`, `[]ValuesOfScopeInOrder` |
| | `GoStoppedInPeace`, `GoBeatsUnderControl` | `[]StoppedInPeace`, `[]BeatsUnderControl` |
| `GoRequestsProofs` | `GoTransportsAgree`, `GoNoHandlerWithoutScope` | `[]TransportsAgree`, `[]NoHandlerWithoutScope`, for any requests and conversions |

**The arguments.** Each module has an inductive invariant, checked with TLC before
it was proved; what it adds to the properties is the reason why the code is right.

- *ConnectionQueue.* `QueueIInv` joins `QueueTypeOK`, `QueueSorted`, `QueueMatchesConnections` and
  `Len(connectionQueue) <= MaxConnections`; none is inductive alone. The vector stays
  free of duplicates only because a call that registers is in phase "created" and the
  queue holds only connected ones; it stays sorted only because no queued call changes
  its priority or its id. The lemmas follow the code: `erase_if` keeps order and
  members, inserting before the first connection that the new one precedes keeps the
  vector sorted (`operator<` is total and transitive on distinct objects even with
  equal ids, since it compares them by `>=`), and dropping the front drops the lowest.
- *PushConnect.* What `hasUpdate_` stands for (`UpdateIsFresh`): unless the call is over
  or a language pack was stored without `mtx_`, whoever sets it has put an update into
  `res_` that is newer than all that were written, and, if it has no value, newer than one
  that was not written; the writer that consumed the flag holds `mtx_` until it has sent
  it. For the end of a call, `Baton`: until it writes and the client cancels, one
  operation or one thread drives it; and `FinishIsLast`: a `Finish` that found kFinish is
  the last operation, one that found kWrite has been overtaken by a shutdown.
- *GrpcCalls.* `LifeOf` says what an object's status, operation and thread say of each
  other, the steps of Connect's kWrite and its `proceed(false)` by hand included: a `Finish`
  with `status_` kWrite belongs to a Connect that was stopped, and only an object whose
  client has gone is driven by hand. What was sent is described for the three ways of streaming: the iterator moves
  before the write (`Orderly`), some are passed over (`Selective`), the iterator moves
  after the write, by a thread that may be late (`Repeating`). `OfferUnique` and
  `OfferExists` make the one offer of each RPC. A step changes one object, or creates
  one besides, so the proof treats the object that moves (`Own`) and leaves the others
  alone (`SameFor`). In the refinement each action is a step of `RpcService` or a stutter
  under `Phase`; the invariant is needed to know the phase a step starts from.
- *RestService.* A request's thread touches its own answer only (`Answering`, by the place
  of the thread: what may be on the socket, and what is known of `rc` and the outcome; a
  208 that tells of an error comes from a POST of an asset, `Tells`).
  `activeRequests_` is the cardinality of the set of live threads, which is finite
  although the set of clients need not be.
- *MultiSetValue.* `Committing`: while a request is written its entries fit the values it
  was validated against and do not overlap, an array that is written once is as it was, and
  every value is what the entries so far have made of it. Total lengths are sums over
  sequences of any length; what appending or replacing one element does to them is
  proved by looking at the least counterexample, with the well-founded order of the
  naturals.
- *DeviceSerializer.* `SerializerSpec` says nothing of the parameters: between two steps the
  other requests of `Device` may do with the values what they like, and they leave the
  languages and the calls alone. `SerializerIInv` says of the language packs that what
  the device owns is never what it was shipped with (`LanguageInv`), and of every call
  whose iterator is valid and that no new language disturbed (`CallInv`): the device was
  sent first (`Begun`), it stands at a key that is to be sent and is not among those to
  come (`Standing`), nothing was sent twice (`SentOnce`) or is still to come
  (`NotSentYet`), and what was sent and what is to come, in the map the call is in or in a
  later one, are together what was asked for (`OnlyWanted`, `AllWanted`). Removing a
  language takes it out of what is asked for, of what is to come, and, if the call stands
  at it, leaves the call without a valid iterator; no other step does, and no request
  removes a shipped one. Each of the three ways a coroutine
  moves on, to a key of the same map, of a later one or to its end, preserves this
  because the places of the maps only grow.
- *Subscriptions.* The holders of the mutexes are where their critical sections are. From
  this, if every call in progress needs a mutex that another one holds, one of them is
  in "lookup" and the other in "emit". A name's expansion is matched by its prefix.
- *Programs.* One part for each thing that must be there when it is used: the server
  while the global pointer is set, as long as no two handlers of signals were at work at
  once (`ServerInv`), calls only while `main` serves, each thread joined
  before `main` goes on; and, as long as no two calls were between their test and
  what they do upon it, what a call found still holds. `FaultInv` carries the reason for
  which a program has terminated itself.
- *Signals.* The invariant names what the pointers only imply: there is a list, the
  connections that `next_` and `prev_` lead through, each once. A removed connection
  keeps its memory and leads back to the list, directly or through the one connection
  that is being removed (`Store`), so an emission that stands anywhere has a position
  in the list: of the connections it must invoke it has invoked those before the position
  and none after (`Position`). An emission whose slot throws has to invoke none from then
  on, and is counted out like the others. Memory is safe because an emission that stands on a
  connection removed under the version not in force is counted under that version
  (`Standing`). A thread deletes on counters it has read some steps before; an emission
  that came in since can have found only what is on the list (`Stale`). The counters are
  exact as the cardinalities of the sets of emissions counted in. A step that relinks the
  list is shown a new list as the witness.
- *GoRequests.* An answer is a function of the request and the server's state, and nothing
  of that state changes while an answer is on its way (`Waiting`), so the proof is about
  the endpoints. Each reaches its handler through `InvokeHandler` only, with the slot that
  `ValidateSlot` let pass unchanged, and `Invoke` yields OK only for a token that may
  (`InvokeChecks`); what an endpoint does to the result afterwards leaves what has run
  alone (`Sound`, for each of the endpoints of both transports). The transports agree
  because they write a result alike, a device up to its JSON (`AlikeDevices`), and up to the
  table of status codes (`WrittenAlike`), in which a code gRPC does not know becomes the 500 that it is over REST
  (`StatusTable`), and because under the hypotheses of the property each pair of
  endpoints gives the same handler the same arguments (`AnsweredAlike`, one step for
  each route); for an oid without empty segments, what REST joins again is the oid (`OidKept`).
- *GoServer.* Three invariants. `BeatInv`: a heartbeat is the server's or was taken out by
  exactly one call, which stops it. `ControlInv`: a transport is in the server's list or
  belongs to the one call that takes it down, and it is down, with no stream left unless
  time ran out, when that call goes on; `connectionQueue.shutdown` waits for all
  connections and lets in no other. `DataInv`: what a client was sent and what waits for
  it are in order, of its scopes and within the capacity, and name every slot that is not
  still to be announced - because a connection is registered together with the slots there
  are, and an announcement goes to every connection that exists.

Three things the proofs found about the models. An invariant for `ParamInfoRequest` was
not inductive until the read of `status_` was a step of its own, as it is in the code,
which takes the switch before it locks the device. With that step TLC reaches the second
`Finish` (section 3). That nothing is leaked by a signal rests on the cleanup flag being
set as long as removed connections are kept, and the model had cleared it once too often:
the code clears it only if there was something to erase. And
`TransportsAgree` had left to the choice of requests what it now says itself, which call
of the one API corresponds to which path of the other (`OfBothTransports`).

**Only model-checked.** Liveness (`UpdatesGetOut`, `CancelledCallsEnd`, `ServiceStops`,
`ShutdownReturns`, `CallsReturn` twice, `ProgramsStop`) is out of the prover's reach.
`LocksSound` speaks of ENABLED; `SubscriptionsBlock` proves the same with the waiting
conditions written out. `Device` and `DeviceParams` (`OnlyAuthorizedReads`,
`OnlyAuthorizedWrites`, `ValuesKept`, `VisitorSound`), and
`GoValues` and `GoParamInfos` (`ConversionsFaithful`), follow nested values of any depth
with recursive operators, which the prover cannot use; what they compute would need an
induction over values.

## 6. Plan

Done: every component of section 1, the refinement of `RpcService` checked and
proved, and proofs of the safety properties of eleven modules. What could follow:

1. The safety half of the abstract views of the other services, in the manner of
   `RpcService`: what a client of the Go server sees of a stream.
2. The other requests of `Device` over parameters as constant operators, in the manner of
   `DeviceSerializer`, so that what does not depend on nested values can be proved.

## 7. What is not modelled

- **Data races without an outcome**: REST GetValue and a part of REST ParamInfoRequest
  read values without the device's mutex. `Device` takes every request as atomic, as the
  mutex makes the others. Unsynchronised flags are read and written
  atomically; the race on `res_` is three steps.
- **A slot that outlives its object**: `disconnect` does not wait for a running slot. In
  `PushConnect` such a slot simply stops; `Signals` shows only that the library's own
  objects are safe.
- **Token decoding, sockets, gRPC, Boost.Asio, protobuf, JWT libraries**: external; a
  token is its scopes, its expiry and whether it is valid, a read or a write its outcomes.
- **Signals across threads** (`ctx_ctrl` queues) and blocked connections, which the SDK
  does not use.
- **Float rounding** (floats are on a grid), the text of messages, logging, headers.
- **Which thread runs the handler of a signal.** The steps of two handlers interleave in
  every order, as on two threads; that a handler interrupts the thread that `main` or a
  lock needs is not modelled.
- **Application code that blocks** in a handler of the Go server: `GracefulStop` and
  `Stop` wait for unary handlers (`grpc_transport.go`), and a deadline does not end those.
- **The lite variant of the signals** (`signals.h`), which no source file of the SDK builds with.
- More than one device per C++ service: each has its own mutex and subscriptions.
- **Menus, polyglot text, configuration** (C++ and Go), **connection properties** (Go):
  containers that are filled at start-up and copied out. The text of `connection-props.xml`
  and the JSON of the NMOS resources. **Java SDK**: an earlier, smaller SDK without
  admission control or a push-update writer of its own. **Code generator**: runs before
  what is modelled.
