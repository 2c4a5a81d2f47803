------------------------------ MODULE GoHeartbeat ------------------------------
(***************************************************************************)
(* The heartbeat of the Go server: StartHeartbeat makes a Heartbeat, puts  *)
(* it in place of the one there is and starts its goroutine; StopHeartbeat *)
(* takes it out and waits for the goroutine. Any goroutine may call them,  *)
(* a heartbeat handler too. A Heartbeat is named after the call that makes *)
(* it.                                                                     *)
(***************************************************************************)
CONSTANTS Starts,  \* calls of StartHeartbeat
          Stops,   \* calls of StopHeartbeat
          Nil

Callers == Starts \cup Stops

VARIABLES
    heartbeat, \* server.heartbeat
    beat,      \* the goroutine of each Heartbeat
    running,   \* those with Heartbeat.running
    at,        \* where each call is
    taken,     \* the Heartbeat that the call took out of server.heartbeat
    within,    \* the Heartbeat whose handler makes the call
    replaced   \* history: those replaced by another one without being taken out

At(c, l) == at' = [at EXCEPT ![c] = l]

\* A call, from a handler that is running or from elsewhere
Call(c, h) ==
    /\ at[c] = "none"
    /\ h # Nil => beat[h] = "handler"
    /\ At(c, "take")
    /\ within' = [within EXCEPT ![c] = h]
    /\ UNCHANGED <<heartbeat, beat, running, taken, replaced>>

\* server.heartbeat is taken out, under server.mu.
Take(c) ==
    /\ at[c] = "take"
    /\ taken' = [taken EXCEPT ![c] = heartbeat]
    /\ heartbeat' = Nil
    /\ At(c, IF heartbeat = Nil THEN "store" ELSE "stop")
    /\ UNCHANGED <<beat, running, within, replaced>>

\* Heartbeat.Stop: the goroutine is told to end,
StopBeat(c) ==
    /\ at[c] = "stop"
    /\ running' = running \ {taken[c]}
    /\ At(c, IF taken[c] \in running THEN "wait" ELSE "store")
    /\ UNCHANGED <<heartbeat, beat, taken, within, replaced>>

\* and waited for.
WaitBeat(c) ==
    /\ at[c] = "wait"
    /\ beat[taken[c]] = "exited"
    /\ At(c, "store")
    /\ UNCHANGED <<heartbeat, beat, running, taken, within, replaced>>

\* Mutant of Store: the new Heartbeat is started but not stored.
StoreNothing(c) ==
    /\ at[c] = "store"
    /\ At(c, "returned")
    /\ running' = running \cup (Starts \cap {c})
    /\ beat' = [h \in Starts |-> IF h = c THEN "idle" ELSE beat[h]]
    /\ UNCHANGED <<heartbeat, taken, within, replaced>>

\* StartHeartbeat stores and starts the new one, under server.mu; StopHeartbeat is
\* done.
Store(c) ==
    /\ at[c] = "store"
    /\ At(c, "returned")
    /\ IF c \in Starts
       THEN /\ heartbeat' = c
            /\ running' = running \cup {c}
            /\ beat' = [beat EXCEPT ![c] = "idle"]
            /\ replaced' = replaced \cup ({heartbeat} \ {Nil})
       ELSE UNCHANGED <<heartbeat, running, beat, replaced>>
    /\ UNCHANGED <<taken, within>>

\* Heartbeat.run: select takes the tick or the stop if both are ready.
Tick(h) ==
    /\ beat[h] = "idle"
    /\ beat' = [beat EXCEPT ![h] = "handler"]
    /\ UNCHANGED <<heartbeat, running, at, taken, within, replaced>>

\* The handlers return, or panic: all the same.
HandlersReturn(h) ==
    /\ beat[h] = "handler"
    /\ \A c \in Callers : within[c] = h => at[c] = "returned"
    /\ beat' = [beat EXCEPT ![h] = "idle"]
    /\ UNCHANGED <<heartbeat, running, at, taken, within, replaced>>

Exit(h) ==
    /\ beat[h] = "idle"
    /\ h \notin running
    /\ beat' = [beat EXCEPT ![h] = "exited"]
    /\ UNCHANGED <<heartbeat, running, at, taken, within, replaced>>

HeartbeatInit ==
    /\ heartbeat = Nil
    /\ beat = [h \in Starts |-> "none"]
    /\ running = {} /\ replaced = {}
    /\ at = [c \in Callers |-> "none"]
    /\ taken = [c \in Callers |-> Nil]
    /\ within = [c \in Callers |-> Nil]

CallStepOf(c) == Take(c) \/ StopBeat(c) \/ WaitBeat(c) \/ Store(c)
Run(h) == Tick(h) \/ HandlersReturn(h) \/ Exit(h)

-----------------------------------------------------------------------------
(* Properties *)

\* The types of the heartbeat's state
HeartbeatTypeOK ==
    /\ heartbeat \in Starts \cup {Nil}
    /\ beat \in [Starts -> {"none", "idle", "handler", "exited"}]
    /\ running \subseteq Starts /\ replaced \subseteq Starts
    /\ at \in [Callers -> {"none", "take", "stop", "wait", "store", "returned"}]
    /\ taken \in [Callers -> Starts \cup {Nil}] /\ within \in [Callers -> Starts \cup {Nil}]

\* A heartbeat that beats is the server's, or somebody is about to stop it. The
\* exception is one that a second StartHeartbeat has replaced while the first was
\* between taking the old one out and storing its own: nobody can stop it any more.
EveryBeatCanBeStopped ==
    \A h \in running : h = heartbeat \/ h \in replaced \/ \E c \in Callers : at[c] = "stop" /\ taken[c] = h

\* When the call that took a heartbeat out goes on, to start the next one or to
\* shut the transports down, its goroutine has ended and no handler of it runs.
StoppedBeforeNext ==
    \A c \in Callers : at[c] \in {"store", "returned"} /\ taken[c] # Nil => beat[taken[c]] = "exited"

\* However StartHeartbeat, StopHeartbeat and Shutdown overlap, a beating heartbeat can be
\* stopped (but for the replaced ones), and one that was stopped is over before the next.
BeatsUnderControl == EveryBeatCanBeStopped /\ StoppedBeforeNext

\* The call that waits for the handler that makes it
WaitsForItself(c) == at[c] = "wait" /\ within[c] = taken[c]
=============================================================================
