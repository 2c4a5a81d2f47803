---------------------------- MODULE MCRestService ----------------------------
(* Model-checking instance of RestService: any two requests that change the    *)
(* asset, one that reads it while it is deleted, two Connect calls, two with    *)
(* one response, or one with several next to a client that sends nothing.       *)
EXTENDS RestService, TLC

CONSTANTS c1, c2

MCClients == {c1, c2}
Changes == <<"POST_asset", "PUT_asset", "DELETE_asset">>
Both(e, f) == c1 :> e @@ c2 :> f
MCMixes ==
    {Both(Changes[p[1]], Changes[p[2]]) : p \in {q \in (1..3) \X (1..3) : q[1] <= q[2]}}
    \cup {Both("GET_asset", "DELETE_asset")}
    \cup {Both("connect", "connect"), Both("value", "setvalue"), Both("values", "param"),
          Both("languages", "language_pack"), Both("OPTIONS", "unknown"), Both("devices", "health")}
    \cup {Both(e, "nothing") : e \in {"device", "command", "subscriptions", "param_info"}}
=============================================================================
