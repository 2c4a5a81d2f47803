------------------------------- MODULE Heartbeat -------------------------------
(***************************************************************************)
(* A heartbeat of the C++ SDK: start() makes a thread that emits a signal  *)
(* at an interval, stop() tells it to end and joins it. The mutex is held  *)
(* except while the thread waits or emits, so every step between these is  *)
(* one action. One thread calls start() and stop(), as Device and NmosNode *)
(* are used.                                                               *)
(***************************************************************************)
VARIABLES
    beatOn, \* running_
    beat    \* the thread: "none", "wait", "emit", "ended", "joined"

beatVars == <<beatOn, beat>>

\* The types of the heartbeat's state
BeatTypeOK == beatOn \in BOOLEAN /\ beat \in {"none", "wait", "emit", "ended", "joined"}

BeatInit == beatOn = FALSE /\ beat = "none"

\* start(): nothing if it is running
StartBeat ==
    /\ beatOn' = TRUE
    /\ beat' = IF beatOn THEN beat ELSE "wait"

\* stop(): running_ is cleared and the thread notified,
StopBeat ==
    /\ beatOn' = FALSE
    /\ UNCHANGED beat

\* and joined, if there is one, outside the lock.
JoinBeat ==
    /\ beat \in {"none", "ended", "joined"}
    /\ beat' = IF beat = "none" THEN beat ELSE "joined"
    /\ UNCHANGED beatOn

\* wait_for ends, with the time or by the notification; nothing is emitted and the
\* loop is left if running_ is cleared.
BeatWakes ==
    /\ beat = "wait"
    /\ beat' = IF beatOn THEN "emit" ELSE "ended"
    /\ UNCHANGED beatOn

\* The slots have run, without the lock; what they throw is logged.
BeatEmitted ==
    /\ beat = "emit"
    /\ beat' = IF beatOn THEN "wait" ELSE "ended"
    /\ UNCHANGED beatOn

BeatNext == BeatWakes \/ BeatEmitted
================================================================================
