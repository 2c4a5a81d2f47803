----------------------------- MODULE MCSignals -----------------------------
(* Two threads that emit and one that connects and disconnects, on a       *)
(* signal with memory for two connections, one of them with a context.     *)
EXTENDS Signals, TLC

CONSTANTS n1, n2, e1, e2, w
MCNodes == {n1, n2}
MCWithContext == {n2}
MCEmitters == {e1, e2}
MCWorkers == {w}
MCSymmetry == Permutations(MCEmitters)
=============================================================================
