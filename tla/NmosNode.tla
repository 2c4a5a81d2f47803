------------------------------- MODULE NmosNode -------------------------------
(***************************************************************************)
(* The NMOS node of the C++ SDK. init() looks for registries over mDNS for *)
(* a fixed time, chooses one, registers the node and then its device with  *)
(* it by HTTP, and starts the heartbeat that keeps the registration alive. *)
(* Avahi, curl and the interfaces of the host are external: each call of   *)
(* them succeeds or fails. A registry is what its announcement says: pri   *)
(* (100 unless it has a number), current (v1.3 is among its versions) and  *)
(* net (the /24 of its address, "ipv6" for none).                          *)
(***************************************************************************)
EXTENDS Naturals, Sequences, FiniteSets

CONSTANTS Registries,    \* the registries that may be announced
          Nets,          \* the /24s of the host's interfaces
          MaxCandidates  \* bound on the candidates found in the time

ASSUME RegistriesAssumption ==
    /\ Registries \subseteq [pri : Nat, current : BOOLEAN, net : STRING]
    /\ MaxCandidates \in Nat

Codes == {"OK", "POLL_FAILED", "CLIENT_FAILED", "NO_SERVICE_BROWSER", "REGISTRY_NOT_FOUND",
          "NO_IFACE", "REGISTRATION_FAILED"}
None == [pri |-> 0, current |-> FALSE, net |-> "none"]

VARIABLES
    node,          \* where init() is, or the code it has returned
    polling,       \* the thread in avahi_simple_poll_loop
    clientFailure, \* CLIENT_FAILURE
    candidates,    \* candidates_
    registry,      \* the registry that was chosen
    posted         \* the resources that the registry has accepted, in order

nodeVars == <<node, polling, clientFailure, candidates, registry, posted>>

\* The types of the node's state
NodeTypeOK ==
    /\ node \in {"poll", "client", "browser", "discovery", "choose", "iface", "node", "device",
                 "beat"} \cup Codes
    /\ polling \in BOOLEAN
    /\ clientFailure \in BOOLEAN
    /\ candidates \in Seq(Registries)
    /\ registry \in Registries \cup {None}
    /\ posted \in Seq({"node", "device"})

NodeInit ==
    /\ node = "poll"
    /\ polling = FALSE
    /\ clientFailure = FALSE
    /\ candidates = <<>>
    /\ registry = None
    /\ posted = <<>>

\* avahi_simple_poll_new
NewPoll ==
    /\ node = "poll"
    /\ node' \in {"client", "POLL_FAILED"}
    /\ UNCHANGED <<polling, clientFailure, candidates, registry, posted>>

\* avahi_client_new, which calls client_cb: the client may have failed already.
NewClient ==
    /\ node = "client"
    /\ clientFailure' \in BOOLEAN
    /\ node' \in IF clientFailure' THEN {"CLIENT_FAILED"} ELSE {"browser", "CLIENT_FAILED"}
    /\ UNCHANGED <<polling, candidates, registry, posted>>

\* avahi_service_browser_new; runDiscovery starts the thread of the loop.
NewBrowser ==
    /\ node = "browser"
    /\ \/ node' = "discovery" /\ polling' = TRUE
       \/ node' = "NO_SERVICE_BROWSER" /\ UNCHANGED polling
    /\ UNCHANGED <<clientFailure, candidates, registry, posted>>

\* browse_cb and resolve_cb: a service is found, resolved and added.
Resolved ==
    /\ polling
    /\ Len(candidates) < MaxCandidates
    /\ \E r \in Registries : candidates' = Append(candidates, r)
    /\ UNCHANGED <<node, polling, clientFailure, registry, posted>>

\* browse_cb or client_cb: a failure ends the loop. init() does not look at it.
PollFails ==
    /\ polling
    /\ polling' = FALSE
    /\ clientFailure' \in BOOLEAN
    /\ UNCHANGED <<node, candidates, registry, posted>>

\* The time is over: the loop is told to quit and joined.
DiscoveryEnds ==
    /\ node = "discovery"
    /\ node' = "choose"
    /\ polling' = FALSE
    /\ UNCHANGED <<clientFailure, candidates, registry, posted>>

\* What std::sort may make of the candidates: those of one priority in any order
Sorts(s) ==
    {t \in [DOMAIN s -> Registries] :
        /\ \A i, j \in DOMAIN s : i < j => t[i].pri <= t[j].pri
        /\ \A r \in Registries : Cardinality({i \in DOMAIN s : t[i] = r})
                                 = Cardinality({i \in DOMAIN s : s[i] = r})}

\* Mutant of Choose: any version of the API will do.
ChooseFirst ==
    /\ node = "choose"
    /\ \E t \in Sorts(candidates) :
        /\ candidates' = t
        /\ IF t = <<>>
           THEN node' = "REGISTRY_NOT_FOUND" /\ UNCHANGED registry
           ELSE node' = "iface" /\ registry' = t[1]
    /\ UNCHANGED <<polling, clientFailure, posted>>

\* choose_registry_and_build_base("v1.3"): the first of the sorted candidates
\* that has the version
Choose ==
    /\ node = "choose"
    /\ \E t \in Sorts(candidates) :
        LET current == {i \in DOMAIN t : t[i].current}
        IN  /\ candidates' = t
            /\ \/ /\ current = {}
                  /\ node' = "REGISTRY_NOT_FOUND"
                  /\ UNCHANGED registry
               \/ \E i \in current :
                  /\ \A j \in current : i <= j
                  /\ node' = "iface"
                  /\ registry' = t[i]
    /\ UNCHANGED <<polling, clientFailure, posted>>

\* get_node_iface, for the first candidate, whichever was chosen; the system may
\* not tell the interfaces.
FindIface ==
    /\ node = "iface"
    /\ node' \in {"NO_IFACE"} \cup {n \in {"node"} : candidates[1].net \in Nets}
    /\ UNCHANGED <<polling, clientFailure, candidates, registry, posted>>

\* sendRequests: the node,
PostNode ==
    /\ node = "node"
    /\ \/ node' = "device" /\ posted' = Append(posted, "node")
       \/ node' = "REGISTRATION_FAILED" /\ UNCHANGED posted
    /\ UNCHANGED <<polling, clientFailure, candidates, registry>>

\* and its device
PostDevice ==
    /\ node = "device"
    /\ \/ node' = "beat" /\ posted' = Append(posted, "device")
       \/ node' = "REGISTRATION_FAILED" /\ UNCHANGED posted
    /\ UNCHANGED <<polling, clientFailure, candidates, registry>>

\* startHeartbeat: the slot that posts to /health/nodes is connected; the
\* program that composes this module starts the heartbeat with it.
NodeBeats ==
    /\ node = "beat"
    /\ node' = "OK"
    /\ UNCHANGED <<polling, clientFailure, candidates, registry, posted>>

NodeNext ==
    \/ NewPoll \/ NewClient \/ NewBrowser \/ Resolved \/ PollFails \/ DiscoveryEnds
    \/ Choose \/ FindIface \/ PostNode \/ PostDevice
================================================================================
