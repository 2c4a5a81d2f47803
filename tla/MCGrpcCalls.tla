----------------------------- MODULE MCGrpcCalls -----------------------------
(* Model-checking instance of GrpcCalls: a call of every RPC by itself, and   *)
(* two where calls meet: of ParamInfoRequest in the device's mutex, of        *)
(* Connect in the shutdown that has to reach both, of two RPCs in the service.*)
EXTENDS GrpcCalls

MCServedTogether ==
    {[rpcs |-> <<r>>, calls |-> 1] : r \in Rpcs}
    \cup {[rpcs |-> s, calls |-> 2] : s \in {<<"ParamInfoRequest">>, <<"Connect">>, <<"GetValue", "SetValue">>}}
=============================================================================
