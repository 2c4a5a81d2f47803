----------------------------- MODULE PushConnect -----------------------------
(***************************************************************************)
(* One gRPC Connect call of the C++ SDK: catena::gRPC::Connect::proceed on *)
(* top of catena::common::Connect. Every completion of an operation that   *)
(* was started with the object as its tag runs proceed() in a new detached *)
(* thread (ServiceImpl::processEvents). Meanwhile                          *)
(*   - threads that set a value, or the heartbeat, emit a device signal    *)
(*     whose slot is updateResponse_ on this object;                       *)
(*   - a thread that registers another connection may call shutdown(),     *)
(*     holding the connection queue's mutex;                               *)
(*   - the service's shutdownSignal_ calls shutdown() with no lock held;   *)
(*   - the client may cancel and its token may expire at any moment.       *)
(* mtx_ is the mutex of cv_ and protects res_, but shutdown() writes       *)
(* shutdown_ and hasUpdate_ without it, and the slot for language packs    *)
(* writes res_ and hasUpdate_ without it. Accesses outside the mutex are   *)
(* steps of their own.                                                     *)
(*                                                                         *)
(* Updates are numbered in the order in which they are stored in res_.     *)
(***************************************************************************)
EXTENDS Integers, Sequences, FiniteSets

CONSTANTS Threads,       \* threads that run proceed() on the object
          Emitters,      \* threads that emit a device signal
          MaxUpdates,    \* bound on the number of accepted updates
          Surroundings,  \* what may happen around the call: sets of Events
          NoThread       \* nobody holds the lock

ASSUME ThreadsAssumption ==
    /\ Threads \cap Emitters = {}
    /\ NoThread \notin Threads \cup Emitters
ASSUME BoundsAssumption == MaxUpdates \in Nat

\* The client may cancel and its token expire, the service may be shut down, language
\* packs may be added to the device, a param may have a part the client may not read.
Events == {"cancel", "expire", "stop", "languages", "denied"}
ASSUME SurroundingsAssumption == Surroundings \subseteq SUBSET Events

VARIABLES
    status,     \* status_
    inflight,   \* operations started and not yet delivered by the queue
    pc,         \* where each thread is in proceed()
    mtx,        \* the holder of mtx_
    hasUpdate,  \* hasUpdate_
    shutdown,   \* shutdown_
    res,        \* res_: the number of the update it holds, 0 if empty
    stored,     \* how many updates have been stored in res_
    unlocked,   \* res_ has been written without mtx_
    failed,     \* the updates whose value toProto did not give
    written,    \* the updates passed to writer_.Write, in order
    cancelled,  \* context_.IsCancelled()
    expired,    \* authz_->isExpired()
    may,        \* what may happen around this call
    finishes,   \* status_ after each call of writer_.Finish
    listening,  \* the signals the object's slots are connected to
    queued,     \* the object is in the connection queue
    alive,      \* the object has not been destroyed by deregisterItem
    emitting,   \* where each emitter is in updateResponse_
    evicting,   \* where the connection queue is in shutdown()
    stopping    \* where shutdownSignal_.emit() is in shutdown()

callVars == <<status, inflight, pc, mtx, written, listening, queued, alive>>
flagVars == <<hasUpdate, shutdown, res, stored, unlocked, failed>>
resVars == <<res, stored, unlocked, failed>>
clientVars == <<cancelled, expired, finishes, may>>
signalVars == <<emitting, evicting, stopping>>
vars == <<callVars, flagVars, clientVars, signalVars>>

\* isCancelled()
IsCancelled == cancelled \/ shutdown \/ expired

\* cv_.notify_one(): one waiting thread, if there is one, is woken.
WokenBy(pcs) == IF \E t \in Threads : pcs[t] = "waiting"
                THEN { [pcs EXCEPT ![t] = "lock"] : t \in {u \in Threads : pcs[u] = "waiting"} }
                ELSE { pcs }

\* hasUpdate_ = true; cv_.notify_one();
SetAndNotify ==
    /\ hasUpdate' = TRUE
    /\ pc' \in WokenBy(pc)

-----------------------------------------------------------------------------
(* proceed() *)

Goto(t, l) == pc' = [pc EXCEPT ![t] = l]

\* registerConnection calls shutdown() with the connection queue's mutex held.
QueueMutexFree == evicting = "no"

\* The completion queue delivers an operation: a new thread enters proceed().
Deliver(t) ==
    /\ alive
    /\ inflight > 0
    /\ pc[t] = "idle"
    /\ inflight' = inflight - 1
    /\ Goto(t, "enter")
    /\ UNCHANGED <<status, mtx, written, listening, queued, alive, flagVars,
                   clientVars, signalVars>>

\* kProcess with a request: the object listens to shutdownSignal_.
Process(t) ==
    /\ alive
    /\ pc[t] = "enter" /\ status = "kProcess"
    /\ listening' = {"shutdownSignal"}
    /\ Goto(t, "register")
    /\ UNCHANGED <<status, inflight, mtx, written, queued, alive, flagVars, clientVars,
                   signalVars>>

\* The client is not authorized, or the connection queue has no room for it.
Refuse(t) ==
    /\ alive
    /\ pc[t] = "register"
    /\ QueueMutexFree
    /\ status' = "kFinish"
    /\ finishes' = Append(finishes, status')
    /\ inflight' = inflight + 1
    /\ Goto(t, "idle")
    /\ UNCHANGED <<mtx, written, listening, queued, alive, flagVars, cancelled, expired,
                   may, signalVars>>

Register(t) ==
    /\ alive
    /\ pc[t] = "register"
    /\ QueueMutexFree
    /\ queued' = TRUE
    /\ Goto(t, "connect")
    /\ UNCHANGED <<status, inflight, mtx, written, listening, alive, flagVars,
                   clientVars, signalVars>>

\* The object listens to the devices and writes the populated slots.
ConnectDevices(t) ==
    /\ alive
    /\ pc[t] = "connect"
    /\ status' = "kWrite"
    /\ inflight' = inflight + 1
    /\ listening' = listening \cup {"deviceSignals"}
    /\ Goto(t, "idle")
    /\ UNCHANGED <<mtx, written, queued, alive, flagVars, clientVars, signalVars>>

\* kProcess without a request: the queue is being shut down. The signal is
\* for the other objects: this one is not yet listening.
ProcessNotOk(t) ==
    /\ alive
    /\ "stop" \in may
    /\ pc[t] = "enter" /\ status = "kProcess"
    /\ status' = "kFinish"
    /\ Goto(t, "finish")
    /\ UNCHANGED <<inflight, mtx, written, listening, queued, alive, flagVars,
                   clientVars, signalVars>>

Dispatch(t) ==
    /\ alive
    /\ pc[t] = "enter" /\ status \in {"kWrite", "kFinish"}
    /\ Goto(t, IF status = "kWrite" THEN "lock" ELSE "finish")
    /\ UNCHANGED <<status, inflight, mtx, written, listening, queued, alive,
                   flagVars, clientVars, signalVars>>

\* connect_lock.lock(), or the relocking of mtx_ by a woken cv_.wait
Lock(t) ==
    /\ alive
    /\ pc[t] = "lock" /\ mtx = NoThread
    /\ mtx' = t
    /\ Goto(t, "test")
    /\ UNCHANGED <<status, inflight, written, listening, queued, alive, flagVars,
                   clientVars, signalVars>>

\* Mutant of Test: hasUpdate_ is not reset.
TestWithoutReset(t) ==
    /\ alive
    /\ pc[t] = "test"
    /\ Goto(t, IF hasUpdate THEN "judge" ELSE "block")
    /\ UNCHANGED <<status, inflight, mtx, written, listening, queued, alive,
                   flagVars, clientVars, signalVars>>

\* cv_.wait evaluates its predicate.
Test(t) ==
    /\ alive
    /\ pc[t] = "test"
    /\ IF hasUpdate
       THEN hasUpdate' = FALSE /\ Goto(t, "judge")
       ELSE UNCHANGED hasUpdate /\ Goto(t, "block")
    /\ UNCHANGED <<status, inflight, mtx, written, listening, queued, alive,
                   shutdown, resVars, clientVars, signalVars>>

\* cv_.wait releases mtx_ and starts waiting.
Block(t) ==
    /\ alive
    /\ pc[t] = "block"
    /\ mtx' = NoThread
    /\ Goto(t, "waiting")
    /\ UNCHANGED <<status, inflight, written, listening, queued, alive, flagVars,
                   clientVars, signalVars>>

SpuriousWakeup(t) ==
    /\ alive
    /\ pc[t] = "waiting"
    /\ Goto(t, "lock")
    /\ UNCHANGED <<status, inflight, mtx, written, listening, queued, alive,
                   flagVars, clientVars, signalVars>>

\* Mutant of Judge: only shutdown_ is looked at.
JudgeShutdownOnly(t) ==
    /\ alive
    /\ pc[t] = "judge"
    /\ status' = IF shutdown THEN "kFinish" ELSE status
    /\ Goto(t, "send")
    /\ UNCHANGED <<inflight, mtx, written, listening, queued, alive, flagVars,
                   clientVars, signalVars>>

\* if (shutdown_ || context_.IsCancelled()) status_ = kFinish
Judge(t) ==
    /\ alive
    /\ pc[t] = "judge"
    /\ status' = IF shutdown \/ cancelled THEN "kFinish" ELSE status
    /\ Goto(t, "send")
    /\ UNCHANGED <<inflight, mtx, written, listening, queued, alive, flagVars,
                   clientVars, signalVars>>

\* The client is asked about again: nothing is sent when it is gone.
SendNothing(t) ==
    /\ alive
    /\ pc[t] = "send" /\ cancelled
    /\ Goto(t, "unlock")
    /\ UNCHANGED <<status, inflight, mtx, written, listening, queued, alive,
                   flagVars, clientVars, signalVars>>

\* writer_.Finish: CANCELLED after a shutdown, UNAUTHENTICATED once the token
\* has expired (only the latter sets status_ here: a shutdown that came after it was
\* judged leaves kWrite). A second one is a misuse of gRPC, which aborts the process.
SendFinish(t) ==
    /\ alive
    /\ pc[t] = "send" /\ ~cancelled
    /\ shutdown \/ expired
    /\ status' = IF shutdown THEN status ELSE "kFinish"
    /\ finishes' = Append(finishes, status')
    /\ inflight' = IF finishes = <<>> THEN inflight + 1 ELSE inflight
    /\ alive' = (finishes = <<>>)
    /\ Goto(t, "unlock")
    /\ UNCHANGED <<mtx, written, listening, queued, flagVars, cancelled, expired, may,
                   signalVars>>

\* writer_.Write(res_)
SendWrite(t) ==
    /\ alive
    /\ pc[t] = "send" /\ ~cancelled /\ ~shutdown /\ ~expired
    /\ inflight' = inflight + 1
    /\ written' = Append(written, res)
    /\ Goto(t, "unlock")
    /\ UNCHANGED <<status, mtx, listening, queued, alive, flagVars, clientVars,
                   signalVars>>

\* connect_lock.unlock()
Unlock(t) ==
    /\ alive
    /\ pc[t] = "unlock"
    /\ mtx' = NoThread
    /\ Goto(t, "recheck")
    /\ UNCHANGED <<status, inflight, written, listening, queued, alive, flagVars,
                   clientVars, signalVars>>

\* if (context_.IsCancelled()) proceed(false)
Recheck(t) ==
    /\ alive
    /\ pc[t] = "recheck"
    /\ Goto(t, IF cancelled THEN "enter" ELSE "idle")
    /\ UNCHANGED <<status, inflight, mtx, written, listening, queued, alive,
                   flagVars, clientVars, signalVars>>

\* kFinish: the slots are disconnected, without waiting for the ones that run.
Disconnect(t) ==
    /\ alive
    /\ pc[t] = "finish"
    /\ listening' = {}
    /\ Goto(t, "deregister")
    /\ UNCHANGED <<status, inflight, mtx, written, queued, alive, flagVars,
                   clientVars, signalVars>>

\* deregisterConnection, which needs the connection queue's mutex, and then
\* deregisterItem, which deletes the object.
Deregister(t) ==
    /\ alive
    /\ pc[t] = "deregister"
    /\ QueueMutexFree
    /\ queued' = FALSE
    /\ alive' = FALSE
    /\ Goto(t, "idle")
    /\ UNCHANGED <<status, inflight, mtx, written, listening, flagVars, clientVars,
                   signalVars>>

Proceed(t) ==
    \/ Process(t) \/ Refuse(t) \/ Register(t) \/ ConnectDevices(t)
    \/ ProcessNotOk(t) \/ Dispatch(t)
    \/ Lock(t) \/ Test(t) \/ Block(t)
    \/ Judge(t) \/ SendNothing(t) \/ SendFinish(t) \/ SendWrite(t) \/ Unlock(t) \/ Recheck(t)
    \/ Disconnect(t) \/ Deregister(t)

-----------------------------------------------------------------------------
(* updateResponse_, run by a thread that emits a signal *)

\* The call is over: wake the writer.
EmitAfterEnd(e) ==
    /\ alive
    /\ "deviceSignals" \in listening
    /\ emitting[e] = "idle" /\ IsCancelled
    /\ SetAndNotify
    /\ UNCHANGED <<status, inflight, mtx, written, listening, queued, alive, shutdown,
                   resVars, clientVars, signalVars>>

\* isCancelled() is read with no lock held. The update is a value (of kind
\* "store") or a language pack ("clear"). One that the detail level or the
\* client's scopes exclude ends here and changes nothing.
EmitBegin(e) ==
    /\ alive
    /\ "deviceSignals" \in listening
    /\ emitting[e] = "idle" /\ ~IsCancelled
    /\ stored + Cardinality({f \in Emitters : emitting[f] # "idle"}) < MaxUpdates
    /\ \E kind \in {"store"} \cup {k \in {"clear"} : "languages" \in may} :
          emitting' = [emitting EXCEPT ![e] = kind]
    /\ UNCHANGED <<callVars, flagVars, clientVars, evicting, stopping>>

\* A new update in res_
StoreUpdate ==
    /\ stored' = stored + 1
    /\ res' = stored'

\* Mutant of EmitStore: mtx_ is not locked, so that the notification may come
\* between the writer's test and its wait.
EmitStoreUnlocked(e) ==
    /\ alive
    /\ emitting[e] = "store"
    /\ StoreUpdate
    /\ SetAndNotify
    /\ emitting' = [emitting EXCEPT ![e] = "idle"]
    /\ UNCHANGED <<status, inflight, mtx, written, listening, queued, alive, shutdown,
                   unlocked, failed, clientVars, evicting, stopping>>

\* updateResponse_(oid, p, slot): the critical section of mtx_ that replaces
\* the content of res_.
EmitStore(e) ==
    /\ alive
    /\ emitting[e] = "store"
    /\ mtx = NoThread
    /\ StoreUpdate
    /\ SetAndNotify
    /\ emitting' = [emitting EXCEPT ![e] = "idle"]
    /\ UNCHANGED <<status, inflight, mtx, written, listening, queued, alive, shutdown,
                   unlocked, failed, clientVars, evicting, stopping>>

\* toProto refuses a value with a part that the client may not read, when res_ has been
\* cleared and given the oid: hasUpdate_ stays as it is.
EmitStoreFails(e) ==
    /\ alive /\ "denied" \in may
    /\ emitting[e] = "store"
    /\ mtx = NoThread
    /\ StoreUpdate
    /\ failed' = failed \cup {stored'}
    /\ emitting' = [emitting EXCEPT ![e] = "idle"]
    /\ UNCHANGED <<callVars, hasUpdate, shutdown, unlocked, clientVars, evicting, stopping>>

\* updateResponse_(l, slot) clears res_, fills it and sets hasUpdate_ with no
\* lock held. What a concurrent reader of res_ sees is undefined: here it is
\* the message before, between or after the two writes.
EmitClear(e) ==
    /\ alive
    /\ emitting[e] = "clear"
    /\ res' = 0
    /\ unlocked' = TRUE
    /\ emitting' = [emitting EXCEPT ![e] = "fill"]
    /\ UNCHANGED <<callVars, hasUpdate, shutdown, stored, failed, clientVars, evicting, stopping>>

EmitFill(e) ==
    /\ alive
    /\ emitting[e] = "fill"
    /\ StoreUpdate
    /\ emitting' = [emitting EXCEPT ![e] = "notify"]
    /\ UNCHANGED <<callVars, hasUpdate, shutdown, unlocked, failed, clientVars, evicting, stopping>>

EmitNotify(e) ==
    /\ alive
    /\ emitting[e] = "notify"
    /\ SetAndNotify
    /\ emitting' = [emitting EXCEPT ![e] = "idle"]
    /\ UNCHANGED <<status, inflight, mtx, written, listening, queued, alive, shutdown,
                   resVars, clientVars, evicting, stopping>>

Emit(e) == EmitStore(e) \/ EmitStoreFails(e) \/ EmitClear(e) \/ EmitFill(e) \/ EmitNotify(e)

-----------------------------------------------------------------------------
(* shutdown(), called by ConnectionQueue::registerConnection with the queue's *)
(* mutex held, and by the slot connected to shutdownSignal_ with none         *)

EvictFlag ==
    /\ alive /\ queued
    /\ evicting = "no"
    /\ shutdown' = TRUE
    /\ evicting' = "notify"
    /\ UNCHANGED <<callVars, hasUpdate, resVars, clientVars, emitting, stopping>>

\* The object leaves the queue when shutdown() has returned.
EvictNotify ==
    /\ alive
    /\ evicting = "notify"
    /\ SetAndNotify
    /\ queued' = FALSE
    /\ evicting' = "no"
    /\ UNCHANGED <<status, inflight, mtx, written, listening, alive, shutdown, resVars,
                   clientVars, emitting, stopping>>

StopFlag ==
    /\ alive
    /\ "stop" \in may
    /\ "shutdownSignal" \in listening
    /\ stopping = "no"
    /\ shutdown' = TRUE
    /\ stopping' = "notify"
    /\ UNCHANGED <<callVars, hasUpdate, resVars, clientVars, emitting, evicting>>

StopNotify ==
    /\ alive
    /\ stopping = "notify"
    /\ SetAndNotify
    /\ stopping' = "done"
    /\ UNCHANGED <<status, inflight, mtx, written, listening, queued, alive, shutdown,
                   resVars, clientVars, emitting, evicting>>

-----------------------------------------------------------------------------
(* The client *)

\* The client has made its request.
Requested == status # "kProcess" \/ \E t \in Threads : pc[t] # "idle"

ClientCancel ==
    /\ alive /\ "cancel" \in may
    /\ Requested
    /\ cancelled' = TRUE
    /\ UNCHANGED <<callVars, flagVars, expired, finishes, may, signalVars>>

TokenExpires ==
    /\ alive /\ "expire" \in may
    /\ Requested
    /\ expired' = TRUE
    /\ UNCHANGED <<callVars, flagVars, cancelled, finishes, may, signalVars>>

Init ==
    /\ may \in Surroundings
    /\ status = "kProcess"
    /\ inflight = 1
    /\ pc = [t \in Threads |-> "idle"]
    /\ mtx = NoThread
    /\ hasUpdate = FALSE /\ shutdown = FALSE
    /\ res = 0 /\ stored = 0 /\ unlocked = FALSE /\ failed = {}
    /\ written = <<>>
    /\ cancelled = FALSE /\ expired = FALSE /\ finishes = <<>>
    /\ listening = {} /\ queued = FALSE /\ alive = TRUE
    /\ emitting = [e \in Emitters |-> "idle"]
    /\ evicting = "no" /\ stopping = "no"

Next ==
    \/ \E t \in Threads : Deliver(t) \/ Proceed(t) \/ SpuriousWakeup(t)
    \/ \E e \in Emitters : EmitAfterEnd(e) \/ EmitBegin(e) \/ Emit(e)
    \/ EvictFlag \/ EvictNotify
    \/ StopFlag \/ StopNotify
    \/ ClientCancel \/ TokenExpires

Spec == Init /\ [][Next]_vars

\* The scheduler runs every thread that can run and grants a mutex that is
\* released again and again; gRPC delivers every operation that was started
\* (a request may never come); a slot and shutdown() run to their end.
Fairness ==
    /\ \A t \in Threads : SF_vars(Proceed(t))
    /\ WF_vars(status # "kProcess" /\ \E t \in Threads : Deliver(t))
    /\ \A e \in Emitters : SF_vars(Emit(e))
    /\ WF_vars(EvictNotify \/ StopNotify)

\* Nobody sets a value unless it wants to.
FairSpec == Spec /\ Fairness

\* With the device's heartbeat running (Device::startHeartbeat), signals are
\* emitted for ever.
HeartbeatSpec == FairSpec /\ \A e \in Emitters : WF_vars(EmitBegin(e) \/ EmitAfterEnd(e))

-----------------------------------------------------------------------------
(* Properties *)

Labels == {"idle", "enter", "register", "connect", "lock", "test", "block", "waiting", "judge", "send",
           "unlock", "recheck", "finish", "deregister"}

\* The types of the variables; mtx_ is held by a thread inside its critical
\* section.
TypeOK ==
    /\ status \in {"kProcess", "kWrite", "kFinish"}
    /\ inflight \in Nat
    /\ pc \in [Threads -> Labels]
    /\ mtx \in Threads \cup {NoThread}
    /\ \A t \in Threads : pc[t] \in {"test", "block", "judge", "send", "unlock"} <=> mtx = t
    /\ hasUpdate \in BOOLEAN /\ shutdown \in BOOLEAN
    /\ stored \in Nat /\ res \in 0..stored /\ unlocked \in BOOLEAN
    /\ failed \subseteq 1..stored
    /\ finishes \in Seq({"kProcess", "kWrite", "kFinish"})
    /\ written \in Seq(Nat)
    /\ cancelled \in BOOLEAN /\ expired \in BOOLEAN /\ may \in Surroundings
    /\ listening \subseteq {"shutdownSignal", "deviceSignals"}
    /\ queued \in BOOLEAN /\ alive \in BOOLEAN
    /\ emitting \in [Emitters -> {"idle", "store", "clear", "fill", "notify"}]
    /\ evicting \in {"no", "notify"}
    /\ stopping \in {"no", "notify", "done"}

\* No update is written after a newer one, and as long as every update of res_
\* is made under mtx_, none is empty and none is written twice: hasUpdate_,
\* whoever sets it, never makes the writer repeat res_. An update without a value (toProto
\* failed) is written only where it has overwritten the one before it, which was waiting
\* for the writer and is lost.
UpdatesInOrder ==
    \A i, j \in DOMAIN written :
        /\ i < j /\ written[j] # 0 => written[i] <= written[j]
        /\ i < j /\ ~unlocked => written[i] < written[j]
        /\ ~unlocked => written[i] # 0
        /\ ~unlocked /\ written[i] \in failed => written[i] > 1 /\ written[j] # written[i] - 1

\* The second writer_.Finish has aborted the process.
Aborted == Len(finishes) > 1

\* How a call ends: the process is aborted only if shutdown_ was set between the two tests
\* that kWrite makes of it; otherwise the object is destroyed, and who may still use it then
\* is a thread that started Finish before it released mtx_, or, if the client has cancelled,
\* an operation that was in flight or a thread when another called proceed by hand. (A slot
\* that runs is not waited for either.) It is never the queue, which works on raw pointers: its
\* mutex keeps the object until shutdown() returns.
EndsInNamedWays ==
    /\ Aborted => shutdown /\ finishes[1] = "kWrite"
    /\ ~alive /\ ~Aborted =>
         /\ evicting = "no"
         /\ \/ cancelled
            \/ inflight = 0 /\ \A t \in Threads : pc[t] \in {"idle", "unlock", "recheck"}

\* The writer, the emitters and those who shut the call down do not disturb each other:
\* mtx_ excludes, updates go out in order, and the call ends in one of the ways above.
CallSound == TypeOK /\ UpdatesInOrder /\ EndsInNamedWays

\* No update is stuck: what res_ holds is written, or replaced by an update
\* that is (UpdatesInOrder says when that one has no value), unless the call is over, or a
\* language was added meanwhile: its slot fills res_ without mtx_.
UpdatesGetOut ==
    LET Pending == res # 0 /\ res \notin failed /\ \A i \in DOMAIN written : written[i] < res
    IN  Pending ~> (~Pending \/ IsCancelled \/ ~alive \/ unlocked)

\* While signals keep being emitted, a call that was evicted, stopped or
\* cancelled, or whose token expired, ends: its object is destroyed, or the process is
\* aborted as EndsInNamedWays says.
CancelledCallsEnd == IsCancelled ~> ~alive

\* "writes updates whenever one of their [...] signals is emitted"
EveryUpdateIsWritten ==
    [][\A i \in DOMAIN written' \ DOMAIN written :
          written'[i] = 1 + (IF i = 1 THEN 0 ELSE written[i - 1])]_vars

\* "Forcefully shuts down the connection."
ShutdownEndsTheCall == shutdown ~> ~alive

\* "unlock before potentially finishing"
UnlockedBeforeDestroyed == ~alive => mtx = NoThread
=============================================================================
