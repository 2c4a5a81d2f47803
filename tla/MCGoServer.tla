------------------------------ MODULE MCGoServer ------------------------------
(* Model-checking instance of GoServer: updates while clients come and go; two  *)
(* streams of a transport that is shut down; two transports shut down from two  *)
(* sides; updates during a shutdown; heartbeats.                                *)
EXTENDS GoServer, TLC

CONSTANTS s1, s2

op == "st2138:op"
mon == "st2138:mon"

MCStreams == {s1, s2}
MCScopes == {op, mon}
MCReadScopes == s1 :> {op} @@ s2 :> {op, mon}
MCPrograms == {
    [transports |-> {Grpc}, slots |-> {1, 2}, scopes |-> {"", mon}, calls |-> {}, streams |-> {s1}, heartbeats |-> {}],
    [transports |-> {Rest}, slots |-> {1}, scopes |-> {op, mon}, calls |-> {}, streams |-> {s2}, heartbeats |-> {}],
    [transports |-> {Rest}, slots |-> {}, scopes |-> {}, calls |-> {Rest}, streams |-> {s1, s2},
     heartbeats |-> {}],
    [transports |-> {Grpc}, slots |-> {}, scopes |-> {}, calls |-> {Grpc, Stop}, streams |-> {s1}, heartbeats |-> {}],
    [transports |-> {Rest, Grpc}, slots |-> {}, scopes |-> {}, calls |-> {Rest, Stop}, streams |-> {s1}, heartbeats |-> {}],
    [transports |-> {Grpc}, slots |-> {1}, scopes |-> {mon}, calls |-> {Stop}, streams |-> {s2}, heartbeats |-> {}],
    [transports |-> {}, slots |-> {}, scopes |-> {}, calls |-> {Stop}, streams |-> {}, heartbeats |-> HeartbeatCalls]}
=============================================================================
