-------------------------- MODULE MCConnectionQueue --------------------------
(* Model-checking instance of ConnectionQueue. Connect objects are            *)
(* interchangeable: no definition orders or names one.                        *)
EXTENDS ConnectionQueue, TLC

ConnectionSymmetry == Permutations(Connections)
=============================================================================
