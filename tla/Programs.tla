------------------------------- MODULE Programs -------------------------------
(***************************************************************************)
(* The programs that ship with the C++ SDK as the way to run a device, from *)
(* main() to its return: the server of connection properties, the NMOS     *)
(* node, the service, the heartbeat, the thread with the business logic,   *)
(* the commands that clients call, and the signal that ends it all.        *)
(*                                                                         *)
(* The programs are built alike and each is described by a record: its     *)
(* transport; loop, it runs a thread with business logic until a flag that *)
(* handle_signal clears; fib, it has the commands fib_start and fib_stop;  *)
(* assets, it keeps a list of uploaded assets; handlers, where the map     *)
(* that its slot for values set by clients uses is declared ("server": in  *)
(* the function that runs the server, "loop": in the thread's function);   *)
(* props, it starts the server of connection properties; beats, the device *)
(* has a heartbeat; node, it is an NMOS node. The calls themselves are     *)
(* modules GrpcCalls and RestService; here a call matters by what it does  *)
(* to the program.                                                         *)
(***************************************************************************)
EXTENDS Heartbeat, ConnectionProps, NmosNode

CONSTANTS Callers,     \* calls that may be under way at once
          Signals,     \* the signals that a program may get
          Loads        \* which programs get which calls and signals

Plain == [transport |-> "gRPC", loop |-> FALSE, fib |-> FALSE, assets |-> FALSE,
          handlers |-> "none", props |-> TRUE, beats |-> TRUE, node |-> FALSE]

external_object_request == Plain
use_commands == Plain
audiodeck == [Plain EXCEPT !.handlers = "server"]
audiodeck_yaml == [Plain EXCEPT !.handlers = "server"]
simple_dashboard_audiodeck == [Plain EXCEPT !.handlers = "server", !.loop = TRUE]
status_update == [Plain EXCEPT !.handlers = "loop", !.loop = TRUE]
use_menus == [Plain EXCEPT !.loop = TRUE, !.props = FALSE]
one_of_everything == [Plain EXCEPT !.loop = TRUE, !.fib = TRUE]
use_commands_REST == [Plain EXCEPT !.transport = "REST"]
audiodeck_REST == [Plain EXCEPT !.transport = "REST", !.handlers = "server"]
audiodeck_JSON_REST == [Plain EXCEPT !.transport = "REST", !.handlers = "server"]
simple_audiodeck_JSON_REST ==
    [Plain EXCEPT !.transport = "REST", !.handlers = "server", !.loop = TRUE]
status_update_REST == [Plain EXCEPT !.transport = "REST", !.handlers = "loop", !.loop = TRUE]
status_update_JSON_REST == [Plain EXCEPT !.transport = "REST", !.handlers = "loop", !.loop = TRUE]
use_menus_REST == [Plain EXCEPT !.transport = "REST", !.loop = TRUE]
one_of_everything_REST == [Plain EXCEPT !.transport = "REST", !.loop = TRUE, !.fib = TRUE]
asset_request_REST == [Plain EXCEPT !.transport = "REST", !.assets = TRUE]
discovery_REST == [Plain EXCEPT !.transport = "REST", !.beats = FALSE, !.node = TRUE]

AllPrograms ==
    {external_object_request, use_commands, audiodeck, audiodeck_yaml, simple_dashboard_audiodeck,
     status_update, use_menus, one_of_everything, use_commands_REST, audiodeck_REST,
     audiodeck_JSON_REST, simple_audiodeck_JSON_REST, status_update_REST, status_update_JSON_REST,
     use_menus_REST, one_of_everything_REST, asset_request_REST, discovery_REST}

ASSUME LoadsAssumption ==
    Loads \subseteq [programs : SUBSET AllPrograms, callers : SUBSET Callers, signals : SUBSET Signals]

VARIABLES
    prog,       \* the program
    load,       \* the calls and signals it may get
    main,       \* where main() and the function that runs the server are
    global,     \* globalServer or globalApi is not null
    shut,       \* the server is shut down, or shutdown_
    handler,    \* where the thread that handle_signal makes for each signal is
    crossed,    \* history: a signal came while the handler of another was at work
    loopOn,     \* globalLoop or counterLoop
    loop,       \* the thread with the business logic: "none", "work", "ended", "joined"
    fibLoop,    \* fibLoop
    fibThread,  \* fibThread: "null", "work", "ended", "joined"
    call,       \* where each call is
    assets,     \* how many times the asset is in the device's list
    overlapped, \* history: two calls were between their test and what they do upon it
    unbound,    \* the port that was taken: "none", "props" or "service"
    aborted     \* the process was terminated by its own doing

serverVars == <<main, global, shut>>
signalVars == <<handler, crossed, loopOn>>
callVars == <<call, assets, overlapped>>
threadVars == <<loop, fibThread>>
others == <<prog, load, unbound, aborted>>
vars == <<beatVars, propsVars, nodeVars, serverVars, signalVars, callVars, threadVars, fibLoop, others>>

\* between the test and what follows from it
Acting == {"launch", "join", "push", "erase"}
Busy(c) == call[c] # "none"
\* the service takes connections
Serving == unbound # "service" /\ main \in {"threads", "beat", "run", "serve"}
\* the server object exists
ServerAlive == Serving \/ (unbound # "service" /\ main \in {"unbeat", "unbeaten", "fib", "loop", "cq"})
\* the handler of the signal is at work
AtWork(s) == handler[s] \notin {"none", "done"}
\* the map of the slot exists
HandlersAlive ==
    CASE prog.handlers = "server" -> main \in {"beat", "run", "serve", "unbeat", "unbeaten", "fib",
                                               "loop", "cq"}
      [] prog.handlers = "loop" -> loop = "work"
      [] OTHER -> TRUE

\* The types of the program's own state
ProgramTypeOK ==
    /\ prog \in AllPrograms /\ load \in Loads
    /\ main \in {"begin", "node", "build", "threads", "beat", "run", "serve", "unbeat", "unbeaten",
                 "fib", "loop", "cq", "destroy", "destroyed", "props", "wake", "join", "ended"}
    /\ global \in BOOLEAN /\ shut \in BOOLEAN
    /\ handler \in [Signals -> {"none", "flags", "test", "shutdown", "connect", "clear", "done"}]
    /\ crossed \in BOOLEAN
    /\ unbound \in {"none", "props", "service"}
    /\ loopOn \in BOOLEAN /\ loop \in {"none", "work", "ended", "joined"}
    /\ fibLoop \in BOOLEAN /\ fibThread \in {"null", "work", "ended", "joined"}
    /\ call \in [Callers -> {"none", "command", "slot", "fib_start", "fib_stop", "upload", "delete"}
                            \cup Acting]
    /\ assets \in Nat
    /\ overlapped \in BOOLEAN /\ aborted \in BOOLEAN

\* The types of the program and of its parts
TypeOK == BeatTypeOK /\ PropsTypeOK /\ NodeTypeOK /\ ProgramTypeOK

Init ==
    /\ BeatInit /\ PropsInit /\ NodeInit
    /\ load \in Loads /\ prog \in load.programs
    /\ main = "begin"
    /\ global = FALSE /\ shut = FALSE
    /\ handler = [s \in Signals |-> "none"] /\ crossed = FALSE
    /\ loopOn = TRUE /\ loop = "none"
    /\ fibLoop = FALSE /\ fibThread = "null"
    /\ call = [c \in Callers |-> "none"]
    /\ assets = 0
    /\ overlapped = FALSE /\ unbound = "none" /\ aborted = FALSE

-----------------------------------------------------------------------------
(* main() and RunRPCServer or RunRESTServer *)

Goto(l) == main' = l
From(l) == ~aborted /\ main = l

\* The commands are defined, and the server of connection properties made and
\* started. If its port is taken the constructor throws, and main() does not catch.
Begin ==
    /\ From("begin")
    /\ \/ /\ IF prog.props THEN StartProps ELSE UNCHANGED propsVars
          /\ Goto(IF prog.node THEN "node" ELSE "build")
          /\ UNCHANGED <<unbound, aborted>>
       \/ prog.props /\ unbound' = "props" /\ aborted' = TRUE /\ UNCHANGED <<propsVars, main>>
    /\ UNCHANGED <<beatVars, nodeVars, global, shut, signalVars, callVars, threadVars, fibLoop, prog,
                   load>>

\* node.init(), whose code nobody looks at; with the last step its heartbeat starts.
InitNode ==
    /\ From("node")
    /\ \/ NodeNext /\ UNCHANGED <<beatVars, main>>
       \/ NodeBeats /\ StartBeat /\ UNCHANGED main
       \/ node \in Codes /\ Goto("build") /\ UNCHANGED <<nodeVars, beatVars>>
    /\ UNCHANGED <<propsVars, global, shut, signalVars, callVars, threadVars, fibLoop, others>>

\* The signal handlers are installed (signals come from here on), the service is
\* built and the global pointer set. If the port is taken a REST service throws,
\* which is caught, and main() goes on to its end; BuildAndStart() of gRPC returns
\* a null pointer, which nobody looks at.
Build ==
    /\ From("build")
    /\ \/ global' = TRUE /\ Goto("threads") /\ UNCHANGED unbound
       \/ /\ unbound' = "service"
          /\ Goto(IF prog.transport = "REST" THEN "destroy" ELSE "threads")
          /\ UNCHANGED global
    /\ UNCHANGED <<beatVars, propsVars, nodeVars, shut, signalVars, callVars, threadVars, fibLoop,
                   prog, load, aborted>>

\* service.init() asks the server for calls, the thread for events and the one
\* with the business logic are started, and the slot for values set by clients is
\* connected. The server that could not be built was destroyed: to ask it ends the
\* process or goes unnoticed.
Threads ==
    /\ From("threads")
    /\ \/ /\ loop' = IF prog.loop THEN "work" ELSE loop
          /\ Goto("beat")
          /\ UNCHANGED aborted
       \/ unbound = "service" /\ aborted' = TRUE /\ UNCHANGED <<loop, main>>
    /\ UNCHANGED <<beatVars, propsVars, nodeVars, global, shut, signalVars, callVars, fibThread,
                   fibLoop, prog, load, unbound>>

\* dm.startHeartbeat()
Beat ==
    /\ From("beat")
    /\ IF prog.beats THEN StartBeat ELSE UNCHANGED beatVars
    /\ Goto(IF prog.transport = "REST" THEN "run" ELSE "serve")
    /\ UNCHANGED <<propsVars, nodeVars, global, shut, signalVars, callVars, threadVars, fibLoop, others>>

\* api.run() begins by clearing shutdown_.
Run ==
    /\ From("run")
    /\ shut' = FALSE
    /\ Goto("serve")
    /\ UNCHANGED <<beatVars, propsVars, nodeVars, global, signalVars, callVars, threadVars, fibLoop,
                   others>>

\* server->Wait() or api.run() returns, when the calls are over; Wait() of no
\* server ends the process.
Served ==
    /\ From("serve")
    /\ \/ /\ Serving /\ shut
          /\ \A c \in Callers : ~Busy(c)
          /\ Goto("unbeat")
          /\ UNCHANGED aborted
       \/ ~Serving /\ aborted' = TRUE /\ UNCHANGED main
    /\ UNCHANGED <<beatVars, propsVars, nodeVars, global, shut, signalVars, callVars, threadVars,
                   fibLoop, prog, load, unbound>>

\* dm.stopHeartbeat(), if the device has one (the node's goes on)
Unbeat ==
    /\ main \in {"unbeat", "unbeaten"} /\ ~aborted
    /\ IF ~prog.beats THEN UNCHANGED beatVars /\ Goto("fib")
       ELSE IF main = "unbeat" THEN StopBeat /\ Goto("unbeaten")
       ELSE JoinBeat /\ Goto("fib")
    /\ UNCHANGED <<propsVars, nodeVars, global, shut, signalVars, callVars, threadVars, fibLoop, others>>

\* if (fibThread) fibThread->join()
JoinFib ==
    /\ From("fib")
    /\ fibThread \in {"null", "ended"}
    /\ fibThread' = IF fibThread = "ended" THEN "joined" ELSE fibThread
    /\ Goto("loop")
    /\ UNCHANGED <<beatVars, propsVars, nodeVars, global, shut, signalVars, callVars, loop, fibLoop,
                   others>>

\* loop.join()
JoinLoop ==
    /\ From("loop")
    /\ loop \in {"none", "ended"}
    /\ loop' = IF loop = "ended" THEN "joined" ELSE loop
    /\ Goto(IF prog.transport = "gRPC" THEN "cq" ELSE "destroy")
    /\ UNCHANGED <<beatVars, propsVars, nodeVars, global, shut, signalVars, callVars, fibThread,
                   fibLoop, others>>

\* cq->Shutdown() and cq_thread.join(), which waits for the call objects: none
\* is left
JoinQueue ==
    /\ From("cq")
    /\ Goto("destroy")
    /\ UNCHANGED <<beatVars, propsVars, nodeVars, global, shut, signalVars, callVars, threadVars,
                   fibLoop, others>>

\* ~NmosNode: its heartbeat is stopped and joined. ~Device does the same again.
Destroy ==
    /\ main \in {"destroy", "destroyed"} /\ ~aborted
    /\ IF main = "destroy" THEN StopBeat /\ Goto("destroyed")
       ELSE JoinBeat /\ Goto("props")
    /\ UNCHANGED <<propsVars, nodeVars, global, shut, signalVars, callVars, threadVars, fibLoop, others>>

\* connectionProps.stop(), called or by its destructor
EndProps ==
    /\ ~aborted
    /\ \/ main = "props" /\ propsOn /\ StopProps /\ Goto("wake")
       \/ main = "props" /\ ~propsOn /\ Goto("ended") /\ UNCHANGED propsVars
       \/ main = "wake" /\ WakeProps /\ Goto("join")
       \/ main = "join" /\ JoinProps /\ Goto("ended")
    /\ UNCHANGED <<beatVars, nodeVars, global, shut, signalVars, callVars, threadVars, fibLoop, others>>

-----------------------------------------------------------------------------
(* handle_signal, in the thread it makes. A signal may come while the handler of *)
(* another one is at work: SIGTERM interrupts the one of SIGINT, and a second    *)
(* SIGINT is taken by another thread of the process.                             *)

Step(s, l) == handler' = [handler EXCEPT ![s] = l]

\* not before the handler is installed, which ends the process, nor after main()
Signal(s) ==
    /\ ~aborted
    /\ handler[s] = "none" /\ s \in load.signals
    /\ main \notin {"begin", "node", "ended"}
    /\ Step(s, "flags")
    /\ crossed' = (crossed \/ \E o \in Signals : AtWork(o))
    /\ UNCHANGED <<beatVars, propsVars, nodeVars, serverVars, loopOn, callVars, threadVars, fibLoop,
                   others>>

\* Mutant of ClearFlags: the business logic is not told.
ClearFib(s) ==
    /\ ~aborted /\ handler[s] = "flags"
    /\ fibLoop' = FALSE
    /\ Step(s, "test")
    /\ UNCHANGED <<beatVars, propsVars, nodeVars, serverVars, crossed, loopOn, callVars, threadVars,
                   others>>

\* The flags of the loops are cleared,
ClearFlags(s) ==
    /\ ~aborted /\ handler[s] = "flags"
    /\ fibLoop' = FALSE
    /\ loopOn' = FALSE
    /\ Step(s, "test")
    /\ UNCHANGED <<beatVars, propsVars, nodeVars, serverVars, crossed, callVars, threadVars, others>>

\* the pointer is tested,
TestGlobal(s) ==
    /\ ~aborted /\ handler[s] = "test"
    /\ Step(s, IF global THEN "shutdown" ELSE "done")
    /\ UNCHANGED <<beatVars, propsVars, nodeVars, serverVars, crossed, loopOn, callVars, threadVars,
                   fibLoop, others>>

\* Shutdown() is called through it: the pointer is read again or the one that was
\* tested is used, as the compiler pleases. A null pointer, or one to a server
\* that was destroyed, ends the process.
Shutdown(s) ==
    /\ ~aborted /\ handler[s] = "shutdown"
    /\ \/ /\ ServerAlive
          /\ shut' = TRUE
          /\ Step(s, IF prog.transport = "REST" THEN "connect" ELSE "clear")
          /\ UNCHANGED aborted
       \/ ~(global /\ ServerAlive) /\ aborted' = TRUE /\ UNCHANGED <<shut, handler>>
    /\ UNCHANGED <<beatVars, propsVars, nodeVars, main, global, crossed, loopOn, callVars, threadVars,
                   fibLoop, prog, load, unbound>>

\* REST: and connects to the service, which is an exception that nobody catches
\* if run() has closed the acceptor already.
Connect(s) ==
    /\ ~aborted /\ handler[s] = "connect"
    /\ IF Serving
       THEN Step(s, "clear") /\ UNCHANGED aborted
       ELSE aborted' = TRUE /\ UNCHANGED handler
    /\ UNCHANGED <<beatVars, propsVars, nodeVars, serverVars, crossed, loopOn, callVars, threadVars,
                   fibLoop, prog, load, unbound>>

\* Mutant of ClearGlobal: the pointer is kept.
KeepGlobal(s) ==
    /\ ~aborted /\ handler[s] = "clear"
    /\ Step(s, "done")
    /\ UNCHANGED <<beatVars, propsVars, nodeVars, serverVars, crossed, loopOn, callVars, threadVars,
                   fibLoop, others>>

\* and the pointer set to null. gRPC: Shutdown() has waited for the calls.
ClearGlobal(s) ==
    /\ ~aborted /\ handler[s] = "clear"
    /\ prog.transport = "gRPC" => \A c \in Callers : ~Busy(c)
    /\ global' = FALSE
    /\ Step(s, "done")
    /\ UNCHANGED <<beatVars, propsVars, nodeVars, main, shut, crossed, loopOn, callVars, threadVars,
                   fibLoop, others>>

-----------------------------------------------------------------------------
(* The business logic *)

\* The loop of startCounter, statusUpdateExample and inputMeters sets and emits
\* values until it finds its flag cleared.
Loop ==
    /\ ~aborted
    /\ loop = "work" /\ ~loopOn
    /\ loop' = "ended"
    /\ UNCHANGED <<beatVars, propsVars, nodeVars, serverVars, signalVars, callVars, fibThread, fibLoop,
                   others>>

\* The loop of the thread that fib_start makes
Fib ==
    /\ ~aborted
    /\ fibThread = "work" /\ ~fibLoop
    /\ fibThread' = "ended"
    /\ UNCHANGED <<beatVars, propsVars, nodeVars, serverVars, signalVars, callVars, loop, fibLoop,
                   others>>

Set(c, l) == call' = [call EXCEPT ![c] = l]
Act(c, l) ==
    /\ Set(c, l)
    /\ overlapped' = (overlapped \/ \E o \in Callers \ {c} : call[o] \in Acting)

\* A client calls a command, sets a value or changes an asset: the service takes
\* calls until it is shut down.
CallBegins(c) ==
    /\ ~aborted /\ ~Busy(c) /\ c \in load.callers
    /\ main = "serve" \/ (main = "beat" /\ prog.transport = "gRPC")
    /\ Serving /\ ~shut
    /\ \E l \in {IF prog.handlers = "none" THEN "command" ELSE "slot"} \cup (IF prog.fib THEN {"fib_start", "fib_stop"} ELSE {})
                \cup (IF prog.assets THEN {"upload", "delete"} ELSE {}) : Set(c, l)
    /\ UNCHANGED <<beatVars, propsVars, nodeVars, serverVars, signalVars, assets, overlapped,
                   threadVars, fibLoop, others>>

\* A command that only reads and writes values of the device, or the slot, and the
\* answer of every call, which its client reads when it likes
CallEnds(c) ==
    /\ ~aborted /\ call[c] \in {"command", "slot"}
    /\ Set(c, "none")
    /\ UNCHANGED <<beatVars, propsVars, nodeVars, serverVars, signalVars, assets, overlapped,
                   threadVars, fibLoop, others>>

\* fib_start: an exception if there is a thread, otherwise fibLoop is set
FibStart(c) ==
    /\ ~aborted /\ call[c] = "fib_start"
    /\ IF fibThread # "null"
       THEN Set(c, "command") /\ UNCHANGED <<fibLoop, overlapped>>
       ELSE Act(c, "launch") /\ fibLoop' = TRUE
    /\ UNCHANGED <<beatVars, propsVars, nodeVars, serverVars, signalVars, assets, threadVars, others>>

\* and the thread made; to put it in place of one that was not joined terminates
\* the process.
FibLaunch(c) ==
    /\ ~aborted /\ call[c] = "launch"
    /\ IF fibThread = "null"
       THEN fibThread' = "work" /\ Set(c, "command") /\ UNCHANGED aborted
       ELSE aborted' = TRUE /\ UNCHANGED <<fibThread, call>>
    /\ UNCHANGED <<beatVars, propsVars, nodeVars, serverVars, signalVars, assets, overlapped, loop,
                   fibLoop, prog, load, unbound>>

\* fib_stop: an exception if there is no thread, otherwise fibLoop is cleared
FibStop(c) ==
    /\ ~aborted /\ call[c] = "fib_stop"
    /\ IF fibThread = "null"
       THEN Set(c, "command") /\ UNCHANGED <<fibLoop, overlapped>>
       ELSE Act(c, "join") /\ fibLoop' = FALSE
    /\ UNCHANGED <<beatVars, propsVars, nodeVars, serverVars, signalVars, assets, threadVars, others>>

\* Mutant of FibJoin: the thread is dropped without waiting for it.
FibDrop(c) ==
    /\ ~aborted /\ call[c] = "join"
    /\ IF fibThread = "ended"
       THEN fibThread' = "null" /\ Set(c, "command") /\ UNCHANGED aborted
       ELSE aborted' = TRUE /\ UNCHANGED <<fibThread, call>>
    /\ UNCHANGED <<beatVars, propsVars, nodeVars, serverVars, signalVars, assets, overlapped, loop,
                   fibLoop, prog, load, unbound>>

\* and the thread joined and dropped; one that another call has dropped is a null
\* pointer.
FibJoin(c) ==
    /\ ~aborted /\ call[c] = "join"
    /\ \/ fibThread = "ended" /\ fibThread' = "null" /\ Set(c, "command") /\ UNCHANGED aborted
       \/ fibThread = "null" /\ aborted' = TRUE /\ UNCHANGED <<fibThread, call>>
    /\ UNCHANGED <<beatVars, propsVars, nodeVars, serverVars, signalVars, assets, overlapped, loop,
                   fibLoop, prog, load, unbound>>

\* catenaAssetUploadHandler and catenaAssetDeleteHandler look for the asset,
AssetFind(c) ==
    /\ ~aborted /\ call[c] \in {"upload", "delete"}
    /\ IF (call[c] = "upload") = (assets = 0)
       THEN Act(c, IF call[c] = "upload" THEN "push" ELSE "erase")
       ELSE Set(c, "command") /\ UNCHANGED overlapped
    /\ UNCHANGED <<beatVars, propsVars, nodeVars, serverVars, signalVars, assets, threadVars, fibLoop,
                   others>>

\* and add it, or remove it wherever it is.
AssetChange(c) ==
    /\ ~aborted /\ call[c] \in {"push", "erase"}
    /\ assets' = IF call[c] = "push" THEN assets + 1 ELSE 0
    /\ Set(c, "command")
    /\ UNCHANGED <<beatVars, propsVars, nodeVars, serverVars, signalVars, overlapped, threadVars,
                   fibLoop, others>>

Call(c) ==
    \/ FibStart(c) \/ FibLaunch(c) \/ FibStop(c) \/ FibJoin(c) \/ AssetFind(c) \/ AssetChange(c)

\* The threads of the heartbeat and of the server of connection properties, whose
\* read ends when the client likes
Beats ==
    /\ ~aborted
    /\ BeatNext
    /\ UNCHANGED <<propsVars, nodeVars, serverVars, signalVars, callVars, threadVars, fibLoop, others>>

Props ==
    /\ ~aborted
    /\ PropsNext
    /\ UNCHANGED <<beatVars, nodeVars, serverVars, signalVars, callVars, threadVars, fibLoop, others>>

PropsClient ==
    /\ ~aborted /\ main # "ended" /\ props # "joined"
    /\ ClientConnects \/ PropsReads
    /\ UNCHANGED <<beatVars, nodeVars, serverVars, signalVars, callVars, threadVars, fibLoop, others>>

Main ==
    \/ Begin \/ InitNode \/ Build \/ Threads \/ Beat \/ Run \/ Served \/ Unbeat \/ JoinFib
    \/ JoinLoop \/ JoinQueue \/ Destroy \/ EndProps

Handler(s) == ClearFlags(s) \/ TestGlobal(s) \/ Shutdown(s) \/ Connect(s) \/ ClearGlobal(s)

Next ==
    \/ Main \/ Loop \/ Fib \/ Beats \/ Props \/ PropsClient
    \/ \E s \in Signals : Signal(s) \/ Handler(s)
    \/ \E c \in Callers : CallBegins(c) \/ Call(c) \/ CallEnds(c)

\* Every thread runs on. Signals and calls need not come, and no client need send
\* the request it connected for or read the answer of its call: these reads and
\* writes have no timeout.
Fairness ==
    /\ WF_vars(Main) /\ WF_vars(Loop) /\ WF_vars(Fib) /\ WF_vars(Beats) /\ WF_vars(Props)
    /\ \A s \in Signals : WF_vars(Handler(s))
    /\ \A c \in Callers : WF_vars(Call(c))

Spec == Init /\ [][Next]_vars
FairSpec == Spec /\ Fairness

-----------------------------------------------------------------------------
(* Properties *)

\* Nothing is used that is gone, and no thread is left behind: handle_signal calls
\* Shutdown() on a server that is running, unless a signal came while the handler
\* of another was at work (globalServer is not protected: the other may have shut
\* the server down, and main() destroyed it, between test and use); the slot for
\* values set by clients finds the map it refers to as long as that belongs to the
\* server's function; the heartbeat does not run slots once stopHeartbeat() or the
\* destructor of the node has returned; and when main() returns every thread it
\* made has been joined.
LifetimesRespected ==
    /\ \A s \in Signals : handler[s] = "shutdown" => Serving \/ crossed
    /\ (prog.handlers # "loop" /\ \E c \in Callers : call[c] = "slot") => HandlersAlive
    /\ (beat = "emit" /\ main \in {"fib", "loop", "cq", "destroy"}) => prog.node
    /\ beat = "emit" => main \notin {"props", "wake", "join", "ended"}
    /\ main = "ended" => /\ beat \in {"none", "joined"} /\ props \in {"none", "joined"}
                         /\ loop \in {"none", "joined"} /\ fibThread \in {"null", "joined"}

\* A program terminates itself for one of five reasons, and no other: the port of
\* the connection properties is taken (their constructor throws through main()); the
\* port of a gRPC service is taken (BuildAndStart() returns null, and Wait() is
\* called upon it); two signals' handlers cross, and the one that is late calls
\* Shutdown() through a pointer that is null or dangling; Shutdown() of a REST
\* service connects after run() has returned because of another connection; or
\* calls of two clients both act upon what they found in fibThread, which no lock
\* protects. Likewise an asset is listed twice only when two calls both act upon
\* what they found in the list.
FaultsNeedRaces ==
    /\ aborted => \/ unbound = "props" /\ main = "begin"
                  \/ unbound = "service" /\ prog.transport # "REST" /\ main \in {"threads", "serve"}
                  \/ crossed /\ \E s \in Signals : handler[s] = "shutdown"
                  \/ \E s \in Signals : handler[s] = "connect" /\ ~Serving
                  \/ overlapped /\ \E c \in Callers : call[c] \in {"launch", "join"}
    /\ assets > 1 => overlapped

\* A heartbeat goes to a registry only from a node whose init() returned OK, after
\* the registry had accepted the node and then its device, and that registry has
\* the version asked for and the best priority of those found that have it.
HeartbeatsOfRegistered ==
    (prog.node /\ beat # "none") =>
        /\ node = "OK"
        /\ posted = <<"node", "device">>
        /\ registry.current
        /\ \A i \in DOMAIN candidates : candidates[i].current => registry.pri <= candidates[i].pri

\* A program whose server was shut down while it was serving returns from main(),
\* unless it is terminated or a fib_start that was under way has set fibLoop again
\* after handle_signal cleared it, provided that the clients do their part: one that
\* has connected for the connection properties sends its request or goes away
\* (read_until has no timeout, and stop() joins the thread that is in it), and one
\* that made a call takes its answer.
ProgramsStop ==
    ([]<>(props # "read") /\ \A c \in Callers : []<>(call[c] \notin {"command", "slot"}))
        => ((main = "serve" /\ shut) ~> (main = "ended" \/ aborted \/ (shut /\ fibLoop)))
================================================================================
