---------------------------- MODULE ProgramsProofs ----------------------------
(***************************************************************************)
(* Proofs of the safety properties of the programs that run a device, for  *)
(* any number of concurrent calls, signals, clients of the connection      *)
(* properties and registries.                                              *)
(*                                                                         *)
(* The inductive invariant has a part for each thing that must be there    *)
(* when it is used. The server: as long as no two handlers of signals have *)
(* been at work at once, the global pointer is set only while the server   *)
(* runs or the one handler is about to clear it, which is why the next     *)
(* signal cannot call Shutdown() on a server that is gone. The calls: they *)
(* are under way only while main() serves. The threads: main()             *)
(* joins each before it goes on. The races: as long as no two calls were   *)
(* between their test and what they do upon it, what a call has found      *)
(* still holds. The node: what the registry has accepted follows from      *)
(* where init() is.                                                        *)
(***************************************************************************)
EXTENDS Programs, SequenceTheorems, TLAPS

\* main() before the server's threads, and after the destructors
Early == {"begin", "node", "build", "threads"}
Late == {"props", "wake", "join", "ended"}

\* handle_signal's pointer is set only while the server exists, or is about to be cleared.
ServerInv ==
    /\ global => main \notin {"begin", "node", "build"} /\ unbound = "none"
    /\ shut => main \notin {"begin", "node", "build"}
    /\ ~crossed =>
          /\ \A s, o \in Signals : AtWork(s) /\ AtWork(o) => s = o
          /\ shut => ~global \/ \E s \in Signals : handler[s] \in {"connect", "clear"}
          /\ \A s \in Signals : handler[s] \in {"shutdown", "connect", "clear"} => global
          /\ global /\ ~shut => Serving
    /\ ~aborted /\ main \in {"begin", "node", "build"} => unbound = "none"

\* Calls are under way only while main() serves.
CallInv == \A c \in Callers : Busy(c) => main \in {"beat", "run", "serve"} /\ unbound # "service"

\* The heartbeat is joined before what it uses goes away.
BeatInv ==
    /\ main = "node" => prog.node
    /\ beat # "none" => prog.node \/ prog.beats
    /\ ~prog.node /\ main \in Early \cup {"beat"} => beat = "none"
    /\ ~prog.node /\ main \in {"fib", "loop", "cq", "destroy"} => beat \in {"none", "joined"}
    /\ main \in Late => beat \in {"none", "joined"}

\* So is the server of the connection properties.
PropsInv ==
    /\ main = "begin" => ~propsOn
    /\ ~propsOn /\ main \notin {"wake", "join", "ended"} => props = "none"
    /\ main = "ended" => props \in {"none", "joined"}

\* So are the device's loop and the thread of fib_start.
ThreadInv ==
    /\ main \in Early => loop = "none" /\ fibThread = "null"
    /\ main \in {"cq", "destroy", "destroyed"} \cup Late => loop \in {"none", "joined"}
    /\ main \in {"loop", "cq", "destroy", "destroyed"} \cup Late => fibThread \in {"null", "joined"}

\* A REST program whose port was taken goes to its end, and a program that has
\* terminated itself did so for a reason that FaultsNeedRaces names.
FaultInv ==
    /\ unbound = "service" /\ prog.transport = "REST" => main \in {"destroy", "destroyed"} \cup Late
    /\ aborted => \/ unbound = "props" /\ main = "begin"
                  \/ unbound = "service" /\ prog.transport # "REST" /\ main \in {"threads", "serve"}
                  \/ crossed /\ \E s \in Signals : handler[s] = "shutdown"
                  \/ \E s \in Signals : handler[s] = "connect" /\ ~Serving
                  \/ overlapped /\ \E c \in Callers : call[c] \in {"launch", "join"}

\* As long as no two calls have overlapped, what a call found is still so.
RaceInv ==
    /\ ~overlapped =>
          /\ \A c, d \in Callers : call[c] \in Acting /\ call[d] \in Acting => c = d
          /\ \A c \in Callers : /\ call[c] = "launch" => fibThread = "null"
                                /\ call[c] = "join" => fibThread # "null"
                                /\ call[c] = "push" => assets = 0
          /\ assets <= 1

\* Where init() is tells what the registry has accepted, and which one was chosen.
NodeOwnInv ==
    /\ polling => node = "discovery"
    /\ node \in {"poll", "client", "browser", "discovery", "choose", "iface", "node"} =>
          posted = <<>>
    /\ node = "device" => posted = <<"node">>
    /\ node \in {"beat", "OK"} => posted = <<"node", "device">>
    /\ node \in {"iface", "node", "device", "beat", "OK"} =>
          /\ registry.current
          /\ \A i \in DOMAIN candidates : candidates[i].current =>
                registry.pri <= candidates[i].pri

\* A node beats once it is registered.
NodeBeatInv == prog.node /\ beat # "none" => node = "OK"

\* The inductive invariant
IInv ==
    /\ TypeOK /\ ServerInv /\ CallInv /\ BeatInv /\ PropsInv /\ ThreadInv /\ RaceInv
    /\ FaultInv
    /\ NodeOwnInv /\ NodeBeatInv

\* What a step of the program may be for each of the parts it is composed of
BeatStep == StartBeat \/ StopBeat \/ JoinBeat \/ BeatNext \/ UNCHANGED beatVars
PropsStep ==
    \/ StartProps \/ StopProps \/ WakeProps \/ JoinProps \/ PropsNext \/ PropsReads \/ ClientConnects
    \/ UNCHANGED propsVars
NodeStep == NodeNext \/ NodeBeats \/ UNCHANGED nodeVars

-----------------------------------------------------------------------------
\* The parts only make the steps of their own modules.
LEMMA PartsSteps == [Next]_vars => BeatStep /\ PropsStep /\ NodeStep
  BY DEF BeatStep, PropsStep, NodeStep, Next, vars, Main, Handler, Call, Begin, InitNode, Build,
      Threads, Beat, Run, Served, Unbeat, JoinFib, JoinLoop, JoinQueue, Destroy, EndProps,
      Signal, ClearFlags, TestGlobal, Shutdown, Connect, ClearGlobal, Loop, Fib, Beats, Props,
      PropsClient, CallBegins, CallEnds, FibStart, FibLaunch, FibStop, FibJoin, AssetFind,
      AssetChange

\* No program has both a heartbeat of its device and the one of an NMOS node.
LEMMA OneHeartbeat == \A p \in AllPrograms : p.node => ~p.beats
  <1>1. ~external_object_request.node
    BY DEF Plain, external_object_request
  <1>2. ~use_commands.node
    BY DEF Plain, use_commands
  <1>3. ~audiodeck.node
    BY DEF Plain, audiodeck
  <1>4. ~audiodeck_yaml.node
    BY DEF Plain, audiodeck_yaml
  <1>5. ~simple_dashboard_audiodeck.node
    BY DEF Plain, simple_dashboard_audiodeck
  <1>6. ~status_update.node
    BY DEF Plain, status_update
  <1>7. ~use_menus.node
    BY DEF Plain, use_menus
  <1>8. ~one_of_everything.node
    BY DEF Plain, one_of_everything
  <1>9. ~use_commands_REST.node
    BY DEF Plain, use_commands_REST
  <1>10. ~audiodeck_REST.node
    BY DEF Plain, audiodeck_REST
  <1>11. ~audiodeck_JSON_REST.node
    BY DEF Plain, audiodeck_JSON_REST
  <1>12. ~simple_audiodeck_JSON_REST.node
    BY DEF Plain, simple_audiodeck_JSON_REST
  <1>13. ~status_update_REST.node
    BY DEF Plain, status_update_REST
  <1>14. ~status_update_JSON_REST.node
    BY DEF Plain, status_update_JSON_REST
  <1>15. ~use_menus_REST.node
    BY DEF Plain, use_menus_REST
  <1>16. ~one_of_everything_REST.node
    BY DEF Plain, one_of_everything_REST
  <1>17. ~asset_request_REST.node
    BY DEF Plain, asset_request_REST
  <1>18. ~discovery_REST.beats
    BY DEF Plain, discovery_REST
  <1> QED
    BY <1>1, <1>2, <1>3, <1>4, <1>5, <1>6, <1>7, <1>8, <1>9, <1>10, <1>11, <1>12, <1>13, <1>14,
        <1>15, <1>16, <1>17, <1>18 DEF AllPrograms

\* Appending to a sequence of one makes a sequence of two.
LEMMA AppendToOne ==
    ASSUME NEW S, NEW x \in S, NEW y \in S
    PROVE  Append(<<x>>, y) = <<x, y>>
  <1>1. Append(<<x>>, y) \in Seq(S) /\ <<x, y>> \in Seq(S)
    OBVIOUS
  <1>2. Len(Append(<<x>>, y)) = 2 /\ Len(<<x, y>>) = 2
    OBVIOUS
  <1>3. \A i \in 1..2 : Append(<<x>>, y)[i] = <<x, y>>[i]
    OBVIOUS
  <1> QED
    BY <1>1, <1>2, <1>3, SeqEqual

\* The heartbeat's steps keep its types.
LEMMA BeatTypeStep == BeatTypeOK /\ BeatStep => BeatTypeOK'
  BY DEF BeatStep, StartBeat, StopBeat, JoinBeat, BeatNext, BeatWakes, BeatEmitted, beatVars,
      BeatTypeOK

\* The steps of the connection properties' server keep its types: its backlog holds
\* clients and at most the connection that wakes it up to stop.
LEMMA PropsTypeStep == PropsTypeOK /\ PropsStep => PropsTypeOK'
  <1> SUFFICES ASSUME PropsTypeOK, PropsStep PROVE PropsTypeOK'
    OBVIOUS
  <1> USE PropsRequestsAssumption DEF PropsTypeOK, Responses
  <1>1. CASE StartProps \/ StopProps \/ UNCHANGED propsVars
    BY <1>1 DEF StartProps, StopProps, propsVars
  <1>2. CASE WakeProps
    <2>1. backlog' \in Seq({"client", "stop"})
      BY <1>2 DEF WakeProps
    <2> QED
      BY <1>2, <2>1 DEF WakeProps
  <1>6. CASE JoinProps
    BY <1>6 DEF JoinProps
  <1>3. CASE ClientConnects
    BY <1>3 DEF ClientConnects
  <1>4. CASE PropsAccepts
    BY <1>4 DEF PropsAccepts, Again
  <1>5. CASE PropsReads \/ PropsAnswers
    BY <1>5 DEF PropsReads, PropsAnswers, Again, Response
  <1> QED
    BY <1>1, <1>2, <1>3, <1>4, <1>5, <1>6 DEF PropsStep, PropsNext

\* The node's steps keep its types.
LEMMA NodeTypeStep == NodeTypeOK /\ NodeStep => NodeTypeOK'
  <1> SUFFICES ASSUME NodeTypeOK, NodeStep PROVE NodeTypeOK'
    OBVIOUS
  <1> USE DEF NodeTypeOK, Codes
  <1>1. CASE NewPoll
    BY <1>1 DEF NewPoll
  <1>2. CASE NewClient
    BY <1>2 DEF NewClient
  <1>3. CASE NewBrowser
    BY <1>3 DEF NewBrowser
  <1>4. CASE Resolved
    BY <1>4 DEF Resolved
  <1>5. CASE PollFails
    BY <1>5 DEF PollFails
  <1>6. CASE DiscoveryEnds
    BY <1>6 DEF DiscoveryEnds
  <1>7. CASE Choose
    BY <1>7 DEF Sorts, Choose
  <1>8. CASE FindIface
    BY <1>8 DEF FindIface
  <1>9. CASE PostNode
    <2>1. posted' \in Seq({"node", "device"})
      BY <1>9 DEF PostNode
    <2> QED
      BY <1>9, <2>1 DEF PostNode
  <1>10. CASE PostDevice
    <2>1. posted' \in Seq({"node", "device"})
      <3>1. CASE posted' = Append(posted, "device")
        BY <3>1
      <3>2. CASE UNCHANGED posted
        BY <3>2
      <3> QED
        BY <1>10, <3>1, <3>2 DEF PostDevice
    <2> QED
      BY <1>10, <2>1 DEF PostDevice
  <1>11. CASE NodeBeats
    BY <1>11 DEF NodeBeats
  <1>12. CASE UNCHANGED nodeVars
    BY <1>12 DEF nodeVars
  <1> QED
    BY <1>1, <1>2, <1>3, <1>4, <1>5, <1>6, <1>7, <1>8, <1>9, <1>10, <1>11, <1>12 DEF NodeStep,
        NodeNext

\* The types of the program's own variables are kept by every step.
LEMMA ProgramTypeStep == ProgramTypeOK /\ [Next]_vars => ProgramTypeOK'
  <1> SUFFICES ASSUME ProgramTypeOK, [Next]_vars PROVE ProgramTypeOK'
    OBVIOUS
  <1> USE DEF ProgramTypeOK, Acting, beatVars, propsVars, nodeVars,
      serverVars, signalVars, callVars, threadVars, others, Goto, From, Set
  <1>1. CASE Begin
    <2>1. aborted' \in BOOLEAN /\ unbound' \in {"none", "props", "service"}
      BY <1>1, Zenon DEF Begin
    <2> QED
      BY <1>1, <2>1 DEF Begin, StartProps
  <1>2. CASE InitNode
    BY <1>2 DEF InitNode
  <1>3. CASE Build
    <2>1. /\ global' \in BOOLEAN /\ main' \in {"threads", "destroy"}
          /\ unbound' \in {"none", "props", "service"}
      BY <1>3, Zenon DEF Build
    <2> QED
      BY <1>3, <2>1 DEF Build
  <1>4. CASE Threads
    <2>1. aborted' \in BOOLEAN
      BY <1>4, Zenon DEF Threads
    <2> QED
      BY <1>4, <2>1 DEF Threads
  <1>5. CASE Beat
    BY <1>5 DEF Beat, StartBeat
  <1>6. CASE Run
    BY <1>6 DEF Run
  <1>7. CASE Served
    <2>1. aborted' \in BOOLEAN
      BY <1>7, Zenon DEF Served
    <2> QED
      BY <1>7, <2>1 DEF Served
  <1>8. CASE Unbeat
    BY <1>8 DEF Unbeat, StopBeat, JoinBeat
  <1>9. CASE JoinFib \/ JoinLoop
    BY <1>9 DEF JoinFib, JoinLoop
  <1>10. CASE JoinQueue \/ Destroy
    BY <1>10 DEF JoinQueue, Destroy, StopBeat, JoinBeat
  <1>11. CASE EndProps
    BY <1>11 DEF EndProps, StopProps, WakeProps, JoinProps
  <1>12. ASSUME NEW s \in Signals, Signal(s) PROVE ProgramTypeOK'
    <2>1. crossed' \in BOOLEAN
      BY <1>12, Zenon DEF Signal
    <2> QED
      BY <1>12, <2>1 DEF Signal, Step
  <1>13. ASSUME NEW s \in Signals, ClearFlags(s) PROVE ProgramTypeOK'
    <2>1. loopOn' \in BOOLEAN /\ fibLoop' \in BOOLEAN
      BY <1>13, Zenon DEF ClearFlags
    <2> QED
      BY <1>13, <2>1 DEF ClearFlags, Step
  <1>14. ASSUME NEW s \in Signals, TestGlobal(s) PROVE ProgramTypeOK'
    BY <1>14 DEF TestGlobal, Step
  <1>15. ASSUME NEW s \in Signals, Shutdown(s) PROVE ProgramTypeOK'
    <2>1. aborted' \in BOOLEAN /\ shut' \in BOOLEAN
      BY <1>15, Zenon DEF Shutdown
    <2> QED
      BY <1>15, <2>1 DEF Shutdown, Step
  <1>16. ASSUME NEW s \in Signals, Connect(s) PROVE ProgramTypeOK'
    <2>1. aborted' \in BOOLEAN
      BY <1>16, Zenon DEF Connect
    <2> QED
      BY <1>16, <2>1 DEF Connect, Step
  <1>17. ASSUME NEW s \in Signals, ClearGlobal(s) PROVE ProgramTypeOK'
    <2>1. global' \in BOOLEAN
      BY <1>17, Zenon DEF ClearGlobal
    <2> QED
      BY <1>17, <2>1 DEF ClearGlobal, Step
  <1>18. CASE Loop \/ Fib
    BY <1>18 DEF Loop, Fib
  <1>19. CASE Beats \/ Props
    BY <1>19 DEF Beats, BeatNext, BeatWakes, BeatEmitted, Props, PropsNext, PropsAccepts,
        PropsReads, PropsAnswers, Again, Response
  <1>20. CASE PropsClient
    BY <1>20 DEF PropsClient, ClientConnects
  <1>21. ASSUME NEW c \in Callers, CallBegins(c) PROVE ProgramTypeOK'
    BY <1>21 DEF CallBegins, Busy
  <1>22. ASSUME NEW c \in Callers, CallEnds(c) PROVE ProgramTypeOK'
    BY <1>22 DEF CallEnds
  <1>23. ASSUME NEW c \in Callers, FibStart(c) PROVE ProgramTypeOK'
    <2>1. call' \in [Callers -> {"none", "command", "slot", "fib_start", "fib_stop", "upload",
        "delete"} \cup Acting]
      BY <1>23 DEF FibStart, Act
    <2>2. overlapped' \in BOOLEAN /\ fibLoop' \in BOOLEAN
      BY <1>23, Zenon DEF FibStart, Act
    <2> QED
      BY <1>23, <2>1, <2>2 DEF FibStart
  <1>24. ASSUME NEW c \in Callers, FibLaunch(c) PROVE ProgramTypeOK'
    <2>1. aborted' \in BOOLEAN
      BY <1>24, Zenon DEF FibLaunch
    <2> QED
      BY <1>24, <2>1 DEF FibLaunch
  <1>25. ASSUME NEW c \in Callers, FibStop(c) PROVE ProgramTypeOK'
    <2>1. call' \in [Callers -> {"none", "command", "slot", "fib_start", "fib_stop", "upload",
        "delete"} \cup Acting]
      BY <1>25 DEF FibStop, Act
    <2>2. overlapped' \in BOOLEAN /\ fibLoop' \in BOOLEAN
      BY <1>25, Zenon DEF FibStop, Act
    <2> QED
      BY <1>25, <2>1, <2>2 DEF FibStop
  <1>26. ASSUME NEW c \in Callers, FibJoin(c) PROVE ProgramTypeOK'
    <2>1. aborted' \in BOOLEAN
      BY <1>26, Zenon DEF FibJoin
    <2> QED
      BY <1>26, <2>1 DEF FibJoin
  <1>27. ASSUME NEW c \in Callers, AssetFind(c) PROVE ProgramTypeOK'
    <2>1. call' \in [Callers -> {"none", "command", "slot", "fib_start", "fib_stop", "upload",
        "delete"} \cup Acting]
      BY <1>27 DEF AssetFind, Act
    <2>2. overlapped' \in BOOLEAN
      BY <1>27, Zenon DEF AssetFind, Act
    <2> QED
      BY <1>27, <2>1, <2>2 DEF AssetFind
  <1>28. ASSUME NEW c \in Callers, AssetChange(c) PROVE ProgramTypeOK'
    BY <1>28 DEF AssetChange
  <1>29. CASE UNCHANGED vars
    BY <1>29 DEF vars
  <1> QED
    BY <1>1, <1>2, <1>3, <1>4, <1>5, <1>6, <1>7, <1>8, <1>9, <1>10, <1>11, <1>12, <1>13, <1>14,
        <1>15, <1>16, <1>17, <1>18, <1>19, <1>20, <1>21, <1>22, <1>23, <1>24, <1>25, <1>26,
        <1>27, <1>28, <1>29 DEF Next, Main, Handler, Call

\* Every step keeps the types.
LEMMA TypeStep == TypeOK /\ [Next]_vars => TypeOK'
  BY PartsSteps, BeatTypeStep, PropsTypeStep, NodeTypeStep, ProgramTypeStep DEF TypeOK

\* A signal that finds the pointer set finds the server: its Shutdown() is the first.
LEMMA ServerStep == ProgramTypeOK /\ ServerInv /\ [Next]_vars => ServerInv'
  <1> SUFFICES ASSUME ProgramTypeOK, ServerInv, [Next]_vars PROVE ServerInv'
    OBVIOUS
  <1> USE DEF ServerInv, Serving, ServerAlive, AtWork, ProgramTypeOK, beatVars, propsVars, nodeVars, serverVars,
      signalVars, callVars, threadVars, others, Goto, From, Set
  <1>1. CASE Begin
    BY <1>1 DEF Begin, StartProps
  <1>2. CASE InitNode
    BY <1>2 DEF InitNode
  <1>3. CASE Build
    BY <1>3 DEF Build
  <1>4. CASE Threads
    BY <1>4 DEF Threads
  <1>5. CASE Beat
    BY <1>5 DEF Beat, StartBeat
  <1>6. CASE Run \/ Served
    BY <1>6 DEF Run, Served, Busy
  <1>7. CASE Unbeat
    BY <1>7 DEF Unbeat, StopBeat, JoinBeat
  <1>8. CASE JoinFib \/ JoinLoop \/ JoinQueue
    BY <1>8 DEF JoinFib, JoinLoop, JoinQueue
  <1>9. CASE Destroy
    BY <1>9 DEF Destroy, StopBeat, JoinBeat
  <1>10. CASE EndProps
    BY <1>10 DEF EndProps, StopProps, WakeProps, JoinProps
  <1>11. ASSUME NEW s \in Signals, Signal(s) \/ Handler(s) PROVE ServerInv'
    <2>1. CASE Signal(s)
      BY <2>1 DEF Signal, Step
    <2>2. CASE ClearFlags(s) \/ TestGlobal(s)
      BY <2>2 DEF ClearFlags, TestGlobal, Step
    <2>3. CASE Shutdown(s)
      BY <2>3 DEF Shutdown, Step
    <2>4. CASE Connect(s)
      BY <2>4 DEF Connect, Step
    <2>5. CASE ClearGlobal(s)
      BY <2>5 DEF ClearGlobal, Step
    <2> QED
      BY <1>11, <2>1, <2>2, <2>3, <2>4, <2>5 DEF Handler
  <1>12. CASE Loop \/ Fib
    BY <1>12 DEF Loop, Fib
  <1>13. CASE Beats
    BY <1>13 DEF Beats, BeatNext, BeatWakes, BeatEmitted
  <1>14. CASE Props \/ PropsClient
    BY <1>14 DEF Props, PropsNext, PropsAccepts, PropsReads, PropsAnswers, Again, Response,
        PropsClient, ClientConnects
  <1>15. ASSUME NEW c \in Callers, CallBegins(c) PROVE ServerInv'
    BY <1>15 DEF CallBegins, Busy
  <1>16. ASSUME NEW c \in Callers, Call(c) \/ CallEnds(c) PROVE ServerInv'
    BY <1>16 DEF Call, Act, Busy, CallEnds, FibStart, FibLaunch, FibStop, FibJoin, AssetFind,
        AssetChange
  <1>17. CASE UNCHANGED vars
    BY <1>17 DEF vars
  <1> QED
    BY <1>1, <1>2, <1>3, <1>4, <1>5, <1>6, <1>7, <1>8, <1>9, <1>10, <1>11, <1>12, <1>13, <1>14,
        <1>15, <1>16, <1>17 DEF Next, Main

\* Calls are under way only while the program serves.
LEMMA CallStep == ProgramTypeOK /\ ServerInv /\ CallInv /\ [Next]_vars => CallInv'
  <1> SUFFICES ASSUME ProgramTypeOK, ServerInv, CallInv, [Next]_vars PROVE CallInv'
    OBVIOUS
  <1> USE DEF CallInv, Busy, ProgramTypeOK, Acting, beatVars, propsVars, nodeVars, serverVars,
      signalVars, callVars, threadVars, others, Goto, From, Set
  <1>1. CASE Begin
    BY <1>1 DEF Begin, StartProps
  <1>2. CASE InitNode
    BY <1>2 DEF InitNode
  <1>3. CASE Build
    BY <1>3 DEF Build
  <1>4. CASE Threads
    BY <1>4 DEF Threads
  <1>5. CASE Beat
    BY <1>5 DEF Beat, StartBeat
  <1>6. CASE Run \/ Served
    BY <1>6 DEF Run, Served
  <1>7. CASE Unbeat
    BY <1>7 DEF Unbeat, StopBeat, JoinBeat
  <1>8. CASE JoinFib \/ JoinLoop \/ JoinQueue
    BY <1>8 DEF JoinFib, JoinLoop, JoinQueue
  <1>9. CASE Destroy
    BY <1>9 DEF Destroy, StopBeat, JoinBeat
  <1>10. CASE EndProps
    BY <1>10 DEF EndProps, StopProps, WakeProps, JoinProps
  <1>11. ASSUME NEW s \in Signals, Signal(s) \/ Handler(s) PROVE CallInv'
    BY <1>11 DEF Signal, Handler, ClearFlags, TestGlobal, Shutdown, Connect, ClearGlobal, Step
  <1>12. CASE Loop \/ Fib
    BY <1>12 DEF Loop, Fib
  <1>13. CASE Beats
    BY <1>13 DEF Beats, BeatNext, BeatWakes, BeatEmitted
  <1>14. CASE Props \/ PropsClient
    BY <1>14 DEF Props, PropsNext, PropsAccepts, PropsReads, PropsAnswers, Again, Response,
        PropsClient, ClientConnects
  <1>15. ASSUME NEW c \in Callers, CallBegins(c) PROVE CallInv'
    BY <1>15 DEF CallBegins, Serving
  <1>16. ASSUME NEW c \in Callers, Call(c) \/ CallEnds(c) PROVE CallInv'
    BY <1>16 DEF Call, Act, CallEnds, FibStart, FibLaunch, FibStop, FibJoin, AssetFind,
        AssetChange
  <1>17. CASE UNCHANGED vars
    BY <1>17 DEF vars
  <1> QED
    BY <1>1, <1>2, <1>3, <1>4, <1>5, <1>6, <1>7, <1>8, <1>9, <1>10, <1>11, <1>12, <1>13, <1>14,
        <1>15, <1>16, <1>17 DEF Next, Main

\* A heartbeat that was stopped has ended before main() goes on.
LEMMA BeatInvStep == ProgramTypeOK /\ BeatTypeOK /\ BeatInv /\ [Next]_vars => BeatInv'
  <1> SUFFICES ASSUME ProgramTypeOK, BeatTypeOK, BeatInv, [Next]_vars PROVE BeatInv'
    OBVIOUS
  <1> USE DEF BeatInv, Early, Late, ProgramTypeOK, BeatTypeOK, beatVars, propsVars, nodeVars,
      serverVars, signalVars, callVars, threadVars, others, Goto, From, Set
  <1>1. CASE Begin
    BY <1>1 DEF Begin, StartProps
  <1>2. CASE InitNode
    BY <1>2 DEF InitNode
  <1>3. CASE Build
    BY <1>3 DEF Build
  <1>4. CASE Threads
    BY <1>4 DEF Threads
  <1>5. CASE Beat
    BY <1>5 DEF Beat, StartBeat
  <1>6. CASE Run \/ Served
    BY <1>6 DEF Run, Served, Busy
  <1>7. CASE Unbeat
    BY <1>7 DEF Unbeat, StopBeat, JoinBeat
  <1>8. CASE JoinFib \/ JoinLoop \/ JoinQueue
    BY <1>8 DEF JoinFib, JoinLoop, JoinQueue
  <1>9. CASE Destroy
    BY <1>9 DEF Destroy, StopBeat, JoinBeat
  <1>10. CASE EndProps
    BY <1>10 DEF EndProps, StopProps, WakeProps, JoinProps
  <1>11. ASSUME NEW s \in Signals, Signal(s) \/ Handler(s) PROVE BeatInv'
    BY <1>11 DEF Signal, Handler, ClearFlags, TestGlobal, Shutdown, Connect, ClearGlobal, Step
  <1>12. CASE Loop \/ Fib
    BY <1>12 DEF Loop, Fib
  <1>13. CASE Beats
    BY <1>13 DEF Beats, BeatNext, BeatWakes, BeatEmitted
  <1>14. CASE Props \/ PropsClient
    BY <1>14 DEF Props, PropsNext, PropsAccepts, PropsReads, PropsAnswers, Again, Response,
        PropsClient, ClientConnects
  <1>15. ASSUME NEW c \in Callers, CallBegins(c) PROVE BeatInv'
    BY <1>15 DEF CallBegins, Busy
  <1>16. ASSUME NEW c \in Callers, Call(c) \/ CallEnds(c) PROVE BeatInv'
    BY <1>16 DEF Call, Act, Busy, CallEnds, FibStart, FibLaunch, FibStop, FibJoin, AssetFind,
        AssetChange
  <1>17. CASE UNCHANGED vars
    BY <1>17 DEF vars
  <1> QED
    BY <1>1, <1>2, <1>3, <1>4, <1>5, <1>6, <1>7, <1>8, <1>9, <1>10, <1>11, <1>12, <1>13, <1>14,
        <1>15, <1>16, <1>17 DEF Next, Main

\* The server of connection properties is started once and joined once.
LEMMA PropsInvStep == ProgramTypeOK /\ PropsTypeOK /\ PropsInv /\ [Next]_vars => PropsInv'
  <1> SUFFICES ASSUME ProgramTypeOK, PropsTypeOK, PropsInv, [Next]_vars PROVE PropsInv'
    OBVIOUS
  <1> USE DEF PropsInv, ProgramTypeOK, PropsTypeOK, Responses, beatVars, propsVars, nodeVars,
      serverVars, signalVars, callVars, threadVars, others, Goto, From, Set
  <1>1. CASE Begin
    BY <1>1 DEF Begin, StartProps
  <1>2. CASE InitNode
    BY <1>2 DEF InitNode
  <1>3. CASE Build
    BY <1>3 DEF Build
  <1>4. CASE Threads
    BY <1>4 DEF Threads
  <1>5. CASE Beat
    BY <1>5 DEF Beat, StartBeat
  <1>6. CASE Run \/ Served
    BY <1>6 DEF Run, Served, Busy
  <1>7. CASE Unbeat
    BY <1>7 DEF Unbeat, StopBeat, JoinBeat
  <1>8. CASE JoinFib \/ JoinLoop \/ JoinQueue
    BY <1>8 DEF JoinFib, JoinLoop, JoinQueue
  <1>9. CASE Destroy
    BY <1>9 DEF Destroy, StopBeat, JoinBeat
  <1>10. CASE EndProps
    BY <1>10 DEF EndProps, StopProps, WakeProps, JoinProps
  <1>11. ASSUME NEW s \in Signals, Signal(s) \/ Handler(s) PROVE PropsInv'
    BY <1>11 DEF Signal, Handler, ClearFlags, TestGlobal, Shutdown, Connect, ClearGlobal, Step
  <1>12. CASE Loop \/ Fib
    BY <1>12 DEF Loop, Fib
  <1>13. CASE Beats
    BY <1>13 DEF Beats, BeatNext, BeatWakes, BeatEmitted
  <1>14. CASE Props \/ PropsClient
    BY <1>14 DEF Props, PropsNext, PropsAccepts, PropsReads, PropsAnswers, Again, Response,
        PropsClient, ClientConnects
  <1>15. ASSUME NEW c \in Callers, CallBegins(c) PROVE PropsInv'
    BY <1>15 DEF CallBegins, Busy
  <1>16. ASSUME NEW c \in Callers, Call(c) \/ CallEnds(c) PROVE PropsInv'
    BY <1>16 DEF Call, Act, Busy, CallEnds, FibStart, FibLaunch, FibStop, FibJoin, AssetFind,
        AssetChange
  <1>17. CASE UNCHANGED vars
    BY <1>17 DEF vars
  <1> QED
    BY <1>1, <1>2, <1>3, <1>4, <1>5, <1>6, <1>7, <1>8, <1>9, <1>10, <1>11, <1>12, <1>13, <1>14,
        <1>15, <1>16, <1>17 DEF Next, Main

\* The thread of the business logic and the one of fib_start are joined on main()'s way.
LEMMA ThreadStep == ProgramTypeOK /\ CallInv /\ ThreadInv /\ [Next]_vars => ThreadInv'
  <1> SUFFICES ASSUME ProgramTypeOK, CallInv, ThreadInv, [Next]_vars PROVE ThreadInv'
    OBVIOUS
  <1> USE DEF ThreadInv, CallInv, Busy, Early, Late, ProgramTypeOK, Acting, beatVars, propsVars,
      nodeVars, serverVars, signalVars, callVars, threadVars, others, Goto, From, Set
  <1>1. CASE Begin
    BY <1>1 DEF Begin, StartProps
  <1>2. CASE InitNode
    BY <1>2 DEF InitNode
  <1>3. CASE Build
    BY <1>3 DEF Build
  <1>4. CASE Threads
    BY <1>4 DEF Threads
  <1>5. CASE Beat
    BY <1>5 DEF Beat, StartBeat
  <1>6. CASE Run \/ Served
    BY <1>6 DEF Run, Served
  <1>7. CASE Unbeat
    BY <1>7 DEF Unbeat, StopBeat, JoinBeat
  <1>8. CASE JoinFib \/ JoinLoop \/ JoinQueue
    BY <1>8 DEF JoinFib, JoinLoop, JoinQueue
  <1>9. CASE Destroy
    BY <1>9 DEF Destroy, StopBeat, JoinBeat
  <1>10. CASE EndProps
    BY <1>10 DEF EndProps, StopProps, WakeProps, JoinProps
  <1>11. ASSUME NEW s \in Signals, Signal(s) \/ Handler(s) PROVE ThreadInv'
    BY <1>11 DEF Signal, Handler, ClearFlags, TestGlobal, Shutdown, Connect, ClearGlobal, Step
  <1>12. CASE Loop \/ Fib
    BY <1>12 DEF Loop, Fib
  <1>13. CASE Beats
    BY <1>13 DEF Beats, BeatNext, BeatWakes, BeatEmitted
  <1>14. CASE Props \/ PropsClient
    BY <1>14 DEF Props, PropsNext, PropsAccepts, PropsReads, PropsAnswers, Again, Response,
        PropsClient, ClientConnects
  <1>15. ASSUME NEW c \in Callers, CallBegins(c) PROVE ThreadInv'
    BY <1>15 DEF CallBegins
  <1>16. ASSUME NEW c \in Callers, Call(c) \/ CallEnds(c) PROVE ThreadInv'
    BY <1>16 DEF Call, Act, CallEnds, FibStart, FibLaunch, FibStop, FibJoin, AssetFind,
        AssetChange
  <1>17. CASE UNCHANGED vars
    BY <1>17 DEF vars
  <1> QED
    BY <1>1, <1>2, <1>3, <1>4, <1>5, <1>6, <1>7, <1>8, <1>9, <1>10, <1>11, <1>12, <1>13, <1>14,
        <1>15, <1>16, <1>17 DEF Next, Main

\* Between its test and what it does upon it, a call is alone, unless two have overlapped.
LEMMA RaceStep == ProgramTypeOK /\ CallInv /\ RaceInv /\ [Next]_vars => RaceInv'
  <1> SUFFICES ASSUME ProgramTypeOK, CallInv, RaceInv, [Next]_vars PROVE RaceInv'
    OBVIOUS
  <1> USE DEF RaceInv, CallInv, Busy, ProgramTypeOK, Acting, beatVars, propsVars,
      nodeVars, serverVars, signalVars, callVars, threadVars, others, Goto, From, Set
  <1>1. CASE Begin
    BY <1>1 DEF Begin, StartProps
  <1>2. CASE InitNode
    BY <1>2 DEF InitNode
  <1>3. CASE Build
    BY <1>3 DEF Build
  <1>4. CASE Threads
    BY <1>4 DEF Threads
  <1>5. CASE Beat
    BY <1>5 DEF Beat, StartBeat
  <1>6. CASE Run \/ Served
    BY <1>6 DEF Run, Served
  <1>7. CASE Unbeat
    BY <1>7 DEF Unbeat, StopBeat, JoinBeat
  <1>8. CASE JoinFib \/ JoinLoop \/ JoinQueue
    BY <1>8 DEF JoinFib, JoinLoop, JoinQueue
  <1>9. CASE Destroy
    BY <1>9 DEF Destroy, StopBeat, JoinBeat
  <1>10. CASE EndProps
    BY <1>10 DEF EndProps, StopProps, WakeProps, JoinProps
  <1>11. ASSUME NEW s \in Signals, Signal(s) \/ Handler(s) PROVE RaceInv'
    BY <1>11 DEF Signal, Handler, ClearFlags, TestGlobal, Shutdown, Connect, ClearGlobal, Step
  <1>12. CASE Loop \/ Fib
    BY <1>12 DEF Loop, Fib
  <1>13. CASE Beats
    BY <1>13 DEF Beats, BeatNext, BeatWakes, BeatEmitted
  <1>14. CASE Props \/ PropsClient
    BY <1>14 DEF Props, PropsNext, PropsAccepts, PropsReads, PropsAnswers, Again, Response,
        PropsClient, ClientConnects
  <1>15. ASSUME NEW c \in Callers, CallBegins(c) PROVE RaceInv'
    BY <1>15 DEF CallBegins
  <1>16. ASSUME NEW c \in Callers, CallEnds(c) PROVE RaceInv'
    BY <1>16 DEF CallEnds
  <1>17. ASSUME NEW c \in Callers, FibStart(c) PROVE RaceInv'
    <2>1. UNCHANGED <<assets, fibThread>>
      BY <1>17 DEF FibStart
    <2>2. CASE Set(c, "command") /\ UNCHANGED overlapped
      BY <2>1, <2>2
    <2>3. CASE Act(c, "launch") /\ fibThread = "null"
      BY <2>1, <2>3 DEF Act
    <2> QED
      BY <1>17, <2>2, <2>3 DEF FibStart
  <1>18. ASSUME NEW c \in Callers, FibLaunch(c) PROVE RaceInv'
    BY <1>18 DEF FibLaunch
  <1>19. ASSUME NEW c \in Callers, FibStop(c) PROVE RaceInv'
    <2>1. UNCHANGED <<assets, fibThread>>
      BY <1>19 DEF FibStop
    <2>2. CASE Set(c, "command") /\ UNCHANGED overlapped
      BY <2>1, <2>2
    <2>3. CASE Act(c, "join") /\ fibThread # "null"
      BY <2>1, <2>3 DEF Act
    <2> QED
      BY <1>19, <2>2, <2>3 DEF FibStop
  <1>20. ASSUME NEW c \in Callers, FibJoin(c) PROVE RaceInv'
    BY <1>20 DEF FibJoin
  <1>21. ASSUME NEW c \in Callers, AssetFind(c) PROVE RaceInv'
    <2> PICK l \in Acting \cup {"command"} :
             /\ call' = [call EXCEPT ![c] = l]
             /\ l = "push" => assets = 0
             /\ l \notin {"launch", "join"}
             /\ l = "command" => UNCHANGED overlapped
             /\ l # "command" => overlapped' = (overlapped \/ \E o \in Callers \ {c} : call[o] \in
                 Acting)
      BY <1>21 DEF AssetFind, Act
    <2>1. UNCHANGED <<assets, fibThread>>
      BY <1>21 DEF AssetFind
    <2>2. CASE l = "command"
      BY <2>1, <2>2
    <2>3. CASE l # "command"
      BY <2>1, <2>3
    <2> QED
      BY <2>2, <2>3
  <1>22. ASSUME NEW c \in Callers, AssetChange(c) PROVE RaceInv'
    BY <1>22 DEF AssetChange
  <1>23. CASE UNCHANGED vars
    BY <1>23 DEF vars
  <1> QED
    BY <1>1, <1>2, <1>3, <1>4, <1>5, <1>6, <1>7, <1>8, <1>9, <1>10, <1>11, <1>12, <1>13, <1>14,
        <1>15, <1>16, <1>17, <1>18, <1>19, <1>20, <1>21, <1>22, <1>23 DEF Next, Main, Call

\* Without crossed handlers, Shutdown() is called upon a server that runs.
LEMMA ShutdownAlive ==
    ASSUME ServerInv, NEW s \in Signals, handler[s] = "shutdown", ~crossed
    PROVE  global /\ Serving
  BY DEF ServerInv, AtWork

\* No step terminates the process for a reason that is not named.
LEMMA FaultStep == ProgramTypeOK /\ ServerInv /\ RaceInv /\ FaultInv /\ [Next]_vars => FaultInv'
  <1> SUFFICES ASSUME ProgramTypeOK, ServerInv, RaceInv, FaultInv, [Next]_vars PROVE FaultInv'
    OBVIOUS
  <1> USE DEF From, Goto
  <1>1. (unbound = "service" /\ prog.transport = "REST" => main \in {"destroy", "destroyed"} \cup Late)'
    <2> USE DEF FaultInv, Late, beatVars, propsVars, nodeVars, serverVars, signalVars, callVars,
        threadVars, others
    <2>1. CASE Main
      BY <2>1 DEF Main, Begin, InitNode, Build, Threads, Beat, Run, Served, Unbeat, JoinFib,
          JoinLoop, JoinQueue, Destroy, EndProps
    <2>2. CASE ~Main
      <3>1. UNCHANGED <<unbound, prog, main>>
        BY <2>2 DEF Next, vars, Handler, Call, Signal, ClearFlags, TestGlobal, Shutdown, Connect,
            ClearGlobal, Loop, Fib, Beats, Props, PropsClient, CallBegins, CallEnds, FibStart,
            FibLaunch, FibStop, FibJoin, AssetFind, AssetChange
      <3> QED
        BY <3>1
    <2> QED
      BY <2>1, <2>2
  <1>2. CASE UNCHANGED vars
    BY <1>2 DEF vars, FaultInv, Late, Serving, serverVars, signalVars, callVars, others
  <1>3. CASE aborted \/ ~aborted'
    <2>1. aborted => UNCHANGED vars
      BY DEF Next, Main, Begin, InitNode, Build, Threads, Beat, Run, Served, Unbeat, JoinFib,
          JoinLoop, JoinQueue, Destroy, EndProps, Handler, Call, Signal, ClearFlags, TestGlobal,
          Shutdown, Connect, ClearGlobal, Loop, Fib, Beats, Props, PropsClient, CallBegins,
          CallEnds, FibStart, FibLaunch, FibStop, FibJoin, AssetFind, AssetChange
    <2> QED
      BY <1>1, <1>2, <1>3, <2>1 DEF FaultInv
  <1>4. CASE ~aborted /\ aborted'
    <2>1. CASE Main
      <3>1. Begin \/ Threads \/ Served
        BY <1>4, <2>1 DEF Main, InitNode, Build, Beat, Run, Unbeat, JoinFib, JoinLoop, JoinQueue,
            Destroy, EndProps, others
      <3>2. CASE Begin
        BY <1>1, <1>4, <3>2 DEF Begin, FaultInv
      <3>3. CASE Threads
        BY <1>1, <1>4, <3>3 DEF Threads, FaultInv, Late
      <3>4. CASE Served
        BY <1>1, <1>4, <3>4 DEF Served, Serving, FaultInv, Late
      <3> QED
        BY <3>1, <3>2, <3>3, <3>4
    <2>2. ASSUME NEW s \in Signals, Handler(s) PROVE FaultInv'
      <3>1. Shutdown(s) \/ Connect(s)
        BY <1>4, <2>2 DEF Handler, ClearFlags, TestGlobal, ClearGlobal, others
      <3>2. CASE Shutdown(s)
        <4>1. handler[s] = "shutdown" /\ ~(global /\ Serving) /\ UNCHANGED <<handler, crossed>>
          BY <1>4, <3>2 DEF Shutdown, ServerAlive
        <4> QED
          BY <1>1, <4>1, ShutdownAlive DEF FaultInv
      <3>3. CASE Connect(s)
        <4>1. handler[s] = "connect" /\ ~Serving /\ UNCHANGED <<handler, main, unbound>>
          BY <1>4, <3>3 DEF Connect, serverVars
        <4> QED
          BY <1>1, <4>1 DEF FaultInv, Serving
      <3> QED
        BY <3>1, <3>2, <3>3
    <2>3. ASSUME NEW c \in Callers, Call(c) PROVE FaultInv'
      <3>1. FibLaunch(c) \/ FibJoin(c)
        BY <1>4, <2>3 DEF Call, FibStart, FibStop, AssetFind, AssetChange, others
      <3>2. call[c] \in {"launch", "join"} /\ UNCHANGED <<call, overlapped>>
        BY <1>4, <3>1 DEF FibLaunch, FibJoin
      <3>3. overlapped
        BY <1>4, <3>1 DEF FibLaunch, FibJoin, RaceInv
      <3> QED
        BY <1>1, <3>2, <3>3 DEF FaultInv
    <2>4. Main \/ (\E s \in Signals : Handler(s)) \/ (\E c \in Callers : Call(c))
      BY <1>2, <1>4 DEF Next, Signal, Loop, Fib, Beats, Props, PropsClient, CallBegins, CallEnds, others,
          vars
    <2> QED
      BY <2>1, <2>2, <2>3, <2>4
  <1> QED
    BY <1>3, <1>4 DEF ProgramTypeOK

\* What the registry has accepted follows from where init() is, and the registry
\* chosen is the first of the sorted candidates that has the version.
LEMMA NodeOwnStep == NodeTypeOK /\ NodeOwnInv /\ NodeStep => NodeOwnInv'
  <1> SUFFICES ASSUME NodeTypeOK, NodeOwnInv, NodeStep PROVE NodeOwnInv'
    OBVIOUS
  <1> USE DEF NodeTypeOK, NodeOwnInv, Codes
  <1>1. CASE NewPoll
    BY <1>1 DEF NewPoll
  <1>2. CASE NewClient
    BY <1>2 DEF NewClient
  <1>3. CASE NewBrowser
    BY <1>3 DEF NewBrowser
  <1>4. CASE Resolved
    BY <1>4 DEF Resolved
  <1>5. CASE PollFails
    BY <1>5 DEF PollFails
  <1>6. CASE DiscoveryEnds
    BY <1>6 DEF DiscoveryEnds
  <1>7. CASE Choose
    <2> PICK t \in Sorts(candidates) :
             LET current == {i \in DOMAIN t : t[i].current}
             IN  /\ candidates' = t
                 /\ \/ current = {} /\ node' = "REGISTRY_NOT_FOUND"
                    \/ \E i \in current : /\ \A j \in current : i <= j
                                          /\ node' = "iface"
                                          /\ registry' = t[i]
      BY <1>7 DEF Choose
    <2>1. DOMAIN t = DOMAIN candidates /\ DOMAIN t \subseteq Nat
      BY DEF Sorts
    <2>2. \A i, j \in DOMAIN t : i <= j => t[i].pri <= t[j].pri
      <3> SUFFICES ASSUME NEW i \in DOMAIN t, NEW j \in DOMAIN t, i <= j PROVE t[i].pri <=
          t[j].pri
        OBVIOUS
      <3>1. t[i] \in Registries
        BY <2>1 DEF Sorts
      <3>2. t[i].pri \in Nat
        BY <3>1, RegistriesAssumption
      <3>3. CASE i = j
        BY <3>2, <3>3
      <3>4. CASE i < j
        BY <2>1, <3>4 DEF Sorts
      <3> QED
        BY <2>1, <3>3, <3>4
    <2>3. UNCHANGED <<polling, posted>> /\ node = "choose"
      BY <1>7 DEF Choose
    <2>4. CASE node' = "REGISTRY_NOT_FOUND"
      BY <2>3, <2>4
    <2>5. CASE node' = "iface"
      BY <2>2, <2>3, <2>5
    <2> QED
      BY <2>4, <2>5
  <1>8. CASE FindIface
    BY <1>8 DEF FindIface
  <1>9. CASE PostNode
    BY <1>9 DEF PostNode
  <1>10. CASE PostDevice
    <2>1. CASE node' = "beat" /\ posted' = Append(posted, "device")
      <3>1. posted = <<"node">>
        BY <1>10 DEF PostDevice
      <3> QED
        BY <1>10, <2>1, <3>1, AppendToOne DEF PostDevice
    <2>2. CASE node' = "REGISTRATION_FAILED"
      BY <1>10, <2>2 DEF PostDevice
    <2> QED
      BY <1>10, <2>1, <2>2 DEF PostDevice
  <1>11. CASE NodeBeats
    BY <1>11 DEF NodeBeats
  <1>12. CASE UNCHANGED nodeVars
    BY <1>12 DEF nodeVars
  <1> QED
    BY <1>1, <1>2, <1>3, <1>4, <1>5, <1>6, <1>7, <1>8, <1>9, <1>10, <1>11, <1>12 DEF NodeStep,
        NodeNext

\* Only a node whose init() returned OK has a heartbeat.
LEMMA NodeBeatStep == TypeOK /\ NodeOwnInv /\ NodeBeatInv /\ [Next]_vars => NodeBeatInv'
  <1> SUFFICES ASSUME TypeOK, NodeOwnInv, NodeBeatInv, [Next]_vars PROVE NodeBeatInv'
    OBVIOUS
  <1> USE OneHeartbeat DEF NodeBeatInv, NodeOwnInv, BeatTypeOK, TypeOK, ProgramTypeOK, beatVars,
      propsVars, nodeVars, serverVars, signalVars, callVars, threadVars, others, Goto, From, Set
  <1>1. CASE Begin
    BY <1>1 DEF Begin, StartProps
  <1>2. CASE InitNode
    <2>1. CASE NodeNext /\ UNCHANGED <<beatVars, main>>
      <3>1. node # "OK"
        BY <2>1 DEF NodeNext, NewPoll, NewClient, NewBrowser, Resolved, PollFails,
            DiscoveryEnds, Choose, FindIface, PostNode, PostDevice
      <3> QED
        BY <1>2, <2>1, <3>1 DEF InitNode
    <2>2. CASE NodeBeats
      BY <2>2 DEF NodeBeats
    <2>3. CASE UNCHANGED <<nodeVars, beatVars>>
      BY <1>2, <2>3 DEF InitNode
    <2> QED
      BY <1>2, <2>1, <2>2, <2>3 DEF InitNode
  <1>3. CASE Build
    BY <1>3 DEF Build
  <1>4. CASE Threads
    BY <1>4 DEF Threads
  <1>5. CASE Beat
    BY <1>5 DEF Beat, StartBeat
  <1>6. CASE Run \/ Served
    BY <1>6 DEF Run, Served, Busy
  <1>7. CASE Unbeat
    BY <1>7 DEF Unbeat, StopBeat, JoinBeat
  <1>8. CASE JoinFib \/ JoinLoop \/ JoinQueue
    BY <1>8 DEF JoinFib, JoinLoop, JoinQueue
  <1>9. CASE Destroy
    BY <1>9 DEF Destroy, StopBeat, JoinBeat
  <1>10. CASE EndProps
    BY <1>10 DEF EndProps, StopProps, WakeProps, JoinProps
  <1>11. ASSUME NEW s \in Signals, Signal(s) \/ Handler(s) PROVE NodeBeatInv'
    BY <1>11 DEF Signal, Handler, ClearFlags, TestGlobal, Shutdown, Connect, ClearGlobal, Step
  <1>12. CASE Loop \/ Fib
    BY <1>12 DEF Loop, Fib
  <1>13. CASE Beats
    BY <1>13 DEF Beats, BeatNext, BeatWakes, BeatEmitted
  <1>14. CASE Props \/ PropsClient
    BY <1>14 DEF Props, PropsNext, PropsAccepts, PropsReads, PropsAnswers, Again, Response,
        PropsClient, ClientConnects
  <1>15. ASSUME NEW c \in Callers, CallBegins(c) PROVE NodeBeatInv'
    BY <1>15 DEF CallBegins, Busy
  <1>16. ASSUME NEW c \in Callers, Call(c) \/ CallEnds(c) PROVE NodeBeatInv'
    BY <1>16 DEF Call, Act, Busy, CallEnds, FibStart, FibLaunch, FibStop, FibJoin, AssetFind,
        AssetChange
  <1>17. CASE UNCHANGED vars
    BY <1>17 DEF vars
  <1> QED
    BY <1>1, <1>2, <1>3, <1>4, <1>5, <1>6, <1>7, <1>8, <1>9, <1>10, <1>11, <1>12, <1>13, <1>14,
        <1>15, <1>16, <1>17 DEF Next, Main

-----------------------------------------------------------------------------
\* The inductive invariant holds when main() begins.
LEMMA InvInit == Init => IInv
  <1> SUFFICES ASSUME Init PROVE IInv
    OBVIOUS
  <1> USE DEF Init
  <1>1. BeatTypeOK /\ PropsTypeOK
    <2>1. backlog \in Seq({"client", "stop"}) /\ asked \in 0 .. PropsRequests
      BY PropsRequestsAssumption DEF PropsInit
    <2> QED
      BY <2>1 DEF BeatInit, BeatTypeOK, PropsInit, PropsTypeOK
  <1>2. NodeTypeOK
    <2>1. candidates \in Seq(Registries) /\ posted \in Seq({"node", "device"})
      BY DEF NodeInit
    <2> QED
      BY <2>1 DEF NodeInit, NodeTypeOK
  <1>3. ProgramTypeOK
    <2>1. call \in [Callers -> {"none", "command", "slot", "fib_start", "fib_stop", "upload",
        "delete"} \cup Acting]
      OBVIOUS
    <2>2. load \in Loads /\ prog \in AllPrograms
      BY LoadsAssumption
    <2> QED
      BY <2>1, <2>2 DEF ProgramTypeOK
  <1>4. ServerInv /\ CallInv /\ ThreadInv
    BY DEF ServerInv, AtWork, CallInv, Busy, ThreadInv, Early, Late
  <1>5. BeatInv /\ PropsInv
    BY DEF BeatInv, PropsInv, BeatInit, PropsInit, Early, Late
  <1>6. RaceInv /\ FaultInv
    BY DEF RaceInv, FaultInv, Acting
  <1>7. NodeOwnInv /\ NodeBeatInv
    BY DEF NodeOwnInv, NodeBeatInv, NodeInit, BeatInit
  <1> QED
    BY <1>1, <1>2, <1>3, <1>4, <1>5, <1>6, <1>7 DEF IInv, TypeOK

\* Every step of every thread, handler and call keeps the inductive invariant.
LEMMA InvStep == IInv /\ [Next]_vars => IInv'
  BY TypeStep, ServerStep, CallStep, BeatInvStep, PropsInvStep, ThreadStep, RaceStep, FaultStep,
      PartsSteps, NodeOwnStep, NodeBeatStep DEF IInv, TypeOK

\* So it always holds.
LEMMA Inductive == Spec => []IInv
  BY InvInit, InvStep, PTL DEF Spec

\* In every state of every program, for any number of signals: unless two handlers
\* were at work at once, handle_signal calls Shutdown() on a server that runs; slots
\* find the map of the server's function, the heartbeat is silent once it has been
\* stopped, and main() returns with every thread joined.
THEOREM ProgramsLifetimes == Spec => []LifetimesRespected
  <1>1. IInv => LifetimesRespected
    <2> SUFFICES ASSUME IInv PROVE LifetimesRespected
      OBVIOUS
    <2>1. \A s \in Signals : handler[s] = "shutdown" => Serving \/ crossed
      BY ShutdownAlive DEF IInv
    <2>2. (prog.handlers # "loop" /\ \E c \in Callers : call[c] = "slot") => HandlersAlive
      BY DEF IInv, CallInv, Busy, HandlersAlive
    <2>3. /\ (beat = "emit" /\ main \in {"fib", "loop", "cq", "destroy"}) => prog.node
          /\ beat = "emit" => main \notin Late
          /\ main = "ended" => beat \in {"none", "joined"} /\ props \in {"none", "joined"}
      BY DEF IInv, BeatInv, PropsInv, Late
    <2>4. main = "ended" => loop \in {"none", "joined"} /\ fibThread \in {"null", "joined"}
      BY DEF IInv, ThreadInv, Late
    <2> QED
      BY <2>1, <2>2, <2>3, <2>4 DEF LifetimesRespected, Late
  <1> QED
    BY <1>1, Inductive, PTL

\* A program terminates itself only because a port is taken, two handlers of signals
\* crossed, Shutdown() of the REST service came late or two calls overlapped, and
\* lists an asset twice only in the last case.
THEOREM ProgramsFaults == Spec => []FaultsNeedRaces
  <1>1. IInv => FaultsNeedRaces
    BY DEF IInv, TypeOK, ProgramTypeOK, FaultsNeedRaces, RaceInv, FaultInv
  <1> QED
    BY <1>1, Inductive, PTL

\* Whatever registries are announced, and however avahi and curl fail, a heartbeat
\* goes only to a registry that has accepted the node and its device, has the version
\* and has the best priority of those that have it.
THEOREM ProgramsHeartbeats == Spec => []HeartbeatsOfRegistered
  <1>1. IInv => HeartbeatsOfRegistered
    BY DEF IInv, HeartbeatsOfRegistered, NodeOwnInv, NodeBeatInv
  <1> QED
    BY <1>1, Inductive, PTL
=============================================================================
