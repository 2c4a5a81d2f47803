----------------------------- MODULE RpcService -----------------------------
(***************************************************************************)
(* What a service promises to the clients of its RPCs, without threads,    *)
(* operations or a registry. The service offers one object per RPC; a call *)
(* takes the object that is offered, receives messages whose positions     *)
(* never decrease, and then one answer, after which it receives nothing.   *)
(* Once the service is closed it accepts no call; it returns when no       *)
(* object is left, offered or in use.                                      *)
(***************************************************************************)
EXTENDS Integers, Sequences

CONSTANT Positions \* of the messages of a call

VARIABLES
    kind,      \* kind[o]: the RPC of the object
    phase,     \* phase[o]: where the object is in its life
    messages,  \* messages[o]: the positions of the messages sent to the client
    abandoned, \* the objects whose client has gone away
    closed,    \* the service is closed
    returned   \* the service has returned

vars == <<kind, phase, messages, abandoned, closed, returned>>

Move(o, from, to) == phase[o] = from /\ phase' = [phase EXCEPT ![o] = to]

Offered(k) == {o \in DOMAIN phase : phase[o] = "offered" /\ kind[o] = k}

\* A call of the RPC k has been accepted, and the next object is offered for it.
Offer(o, k) ==
    /\ Offered(k) = {}
    /\ \E p \in DOMAIN phase : kind[p] = k /\ phase[p] = "open"
    /\ Move(o, "unborn", "offered")
    /\ kind' = [kind EXCEPT ![o] = k]
    /\ UNCHANGED <<messages, abandoned, closed, returned>>

Accept(o) ==
    /\ ~closed
    /\ Move(o, "offered", "open")
    /\ UNCHANGED <<kind, messages, abandoned, closed, returned>>

Send(o) ==
    /\ phase[o] = "open"
    /\ \E n \in Positions :
          /\ \A i \in DOMAIN messages[o] : messages[o][i] <= n
          /\ messages' = [messages EXCEPT ![o] = Append(@, n)]
    /\ UNCHANGED <<kind, phase, abandoned, closed, returned>>

Answer(o) ==
    /\ Move(o, "open", "answered")
    /\ UNCHANGED <<kind, messages, abandoned, closed, returned>>

\* An object ends with its answer, without one if its client has gone away, and
\* unused if the service is closed.
End(o) ==
    /\ \/ Move(o, "answered", "gone")
       \/ o \in abandoned /\ Move(o, "open", "gone")
       \/ closed /\ Move(o, "offered", "gone")
    /\ messages' = [messages EXCEPT ![o] = <<>>]
    /\ abandoned' = abandoned \ {o}
    /\ UNCHANGED <<kind, closed, returned>>

\* A client goes away, perhaps while its answer is on the way.
Abandon(o) ==
    /\ phase[o] \in {"open", "answered"}
    /\ abandoned' = abandoned \cup {o}
    /\ UNCHANGED <<kind, phase, messages, closed, returned>>

Close ==
    /\ closed' = TRUE
    /\ UNCHANGED <<kind, phase, messages, abandoned, returned>>

Return ==
    /\ closed
    /\ \A o \in DOMAIN phase : phase[o] \in {"unborn", "gone"}
    /\ returned' = TRUE
    /\ UNCHANGED <<kind, phase, messages, abandoned, closed>>

Init ==
    /\ \A o, p \in DOMAIN phase : phase[o] = "offered" /\ kind[o] = kind[p] => o = p
    /\ \A o \in DOMAIN phase : phase[o] \in {"offered", "unborn", "gone"} /\ messages[o] = <<>>
    /\ abandoned = {} /\ closed = FALSE /\ returned = FALSE

Next ==
    \/ \E o \in DOMAIN phase : \/ \E p \in DOMAIN phase : Offer(o, kind[p])
                               \/ Accept(o) \/ Send(o) \/ Answer(o) \/ End(o) \/ Abandon(o)
    \/ Close \/ Return

Spec == Init /\ [][Next]_vars
=============================================================================
