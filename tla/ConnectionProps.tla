---------------------------- MODULE ConnectionProps ----------------------------
(***************************************************************************)
(* The server of connection-props.xml that a C++ program runs beside its   *)
(* service: one thread that accepts a connection, answers one request and  *)
(* closes it. stop() clears running_ and makes a connection itself, so     *)
(* that accept returns.                                                    *)
(***************************************************************************)
EXTENDS Naturals, Sequences

CONSTANT PropsRequests \* bound on the connections of clients

ASSUME PropsRequestsAssumption == PropsRequests \in Nat

VARIABLES
    propsOn,  \* running_
    props,    \* its thread: "none", "accept", "read", a response, "ended", "joined"
    backlog,  \* connections that were made and not accepted: "client" or "stop"
    asked     \* how many clients have connected

propsVars == <<propsOn, props, backlog, asked>>

\* 200 with the XML, 200 for the health check, and errors
Responses == {"xml", "health", "not_found", "not_allowed"}

\* The types of the connection properties' state
PropsTypeOK ==
    /\ propsOn \in BOOLEAN
    /\ props \in {"none", "accept", "read", "ended", "joined"} \cup Responses
    /\ backlog \in Seq({"client", "stop"})
    /\ asked \in 0..PropsRequests

\* The constructor: the acceptor listens from here on (module Programs says what
\* happens when its port is taken).
PropsInit ==
    /\ propsOn = FALSE
    /\ props = "none"
    /\ backlog = <<>>
    /\ asked = 0

\* start()
StartProps ==
    /\ propsOn' = TRUE
    /\ props' = IF propsOn THEN props ELSE "accept"
    /\ UNCHANGED <<backlog, asked>>

\* A client connects.
ClientConnects ==
    /\ asked < PropsRequests
    /\ asked' = asked + 1
    /\ backlog' = Append(backlog, "client")
    /\ UNCHANGED <<propsOn, props>>

\* run(): while (running_)
Again == IF propsOn THEN "accept" ELSE "ended"

\* accept returns a connection, which is dropped if running_ is cleared, or an
\* error in place of one.
PropsAccepts ==
    /\ props = "accept"
    /\ backlog # <<>>
    /\ backlog' = Tail(backlog)
    /\ props' \in {IF propsOn THEN "read" ELSE "ended", Again}
    /\ UNCHANGED <<propsOn, asked>>

\* generateResponse, for a GET
Response(path) ==
    CASE path = "endpoint" -> "xml"
      [] path = "/health" -> "health"
      [] OTHER -> "not_found"

\* handleRequest: a request is read, or the client goes away. Both are up to the
\* client: read_until waits for it without a timeout.
PropsReads ==
    /\ props = "read"
    /\ \/ \E method \in {"GET", "POST"}, path \in {"endpoint", "/health", "other"} :
              props' = IF method = "GET" THEN Response(path) ELSE "not_allowed"
       \/ props' = Again
    /\ UNCHANGED <<propsOn, backlog, asked>>

\* the response is written and the connection closed.
PropsAnswers ==
    /\ props \in Responses
    /\ props' = Again
    /\ UNCHANGED <<propsOn, backlog, asked>>

\* stop(): nothing unless running, otherwise running_ is cleared,
StopProps ==
    /\ propsOn
    /\ propsOn' = FALSE
    /\ UNCHANGED <<props, backlog, asked>>

\* a connection made
WakeProps ==
    /\ backlog' = Append(backlog, "stop")
    /\ UNCHANGED <<propsOn, props, asked>>

\* and the thread joined; the acceptor is closed.
JoinProps ==
    /\ props = "ended"
    /\ props' = "joined"
    /\ backlog' = <<>>
    /\ UNCHANGED <<propsOn, asked>>

PropsNext == PropsAccepts \/ PropsAnswers
================================================================================
