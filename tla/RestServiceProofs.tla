-------------------------- MODULE RestServiceProofs --------------------------
(***************************************************************************)
(* Proofs of the safety properties of the REST service, for any number of  *)
(* clients, any mix of requests and any number of messages.                *)
(*                                                                         *)
(* Requests share little: a step of a request's thread changes only what   *)
(* belongs to it, so the answers are treated request by request            *)
(* (Answering): what may be on the socket, and what is known of rc and of  *)
(* the outcome, at every point of the thread. The writer matters most: a   *)
(* buffered response must not be ended by a message, and an event stream   *)
(* has its status line before its first event. The counter is the          *)
(* cardinality of the set of live threads, which is finite though the set  *)
(* of clients need not be.                                                 *)
(***************************************************************************)
EXTENDS RestService, FiniteSetTheorems, SequenceTheorems, TLAPS

Assets == {"GET_asset", "POST_asset", "PUT_asset", "DELETE_asset"}
Streamed == {"device", "command", "subscriptions"}

\* Nothing has been said to the client.
Silent(r) == heads[r] = <<>> /\ events[r] = 0 /\ rc[r] = "OK" /\ outcome[r] = "none"

\* The writer fits the endpoint.
WriterFits(r) ==
    /\ endpoint[r] \in Streamed => writer[r] \in {"sse", "buffered"}
    /\ endpoint[r] = "connect" => writer[r] = "sse"
    /\ endpoint[r] \notin Streamed \cup {"connect"} => writer[r] # "buffered"
    /\ endpoint[r] \in Assets => writer[r] = "plain"

\* The status line tells the outcome, or is the 208 of a failed POST.
Tells(r) ==
    \/ heads[r] = <<outcome[r]>>
    \/ heads[r] = <<"ALREADY_REPORTED">> /\ endpoint[r] = "POST_asset" /\ outcome[r] = "error"

\* What a client that is still there has been told, and will be
Answering(r) ==
    /\ pc[r] \in {"none", "backlog", "start", "read", "route"} => Silent(r)
    /\ pc[r] \in {"proceed", "use", "write", "register"} => Silent(r) /\ WriterFits(r)
    /\ pc[r] \in {"use", "write"} => endpoint[r] \in Assets
    /\ pc[r] = "send" =>
          /\ rc[r] = "OK" /\ outcome[r] = "none" /\ writer[r] \in {"sse", "buffered"}
          /\ r \notin closed => \/ heads[r] = <<>> /\ events[r] = 0
                                \/ writer[r] = "sse" /\ heads[r] = <<"OK">> /\ events[r] > 0
    /\ pc[r] \in {"connected", "push"} => rc[r] = "OK" /\ (r \notin closed => heads[r] = <<outcome[r]>>)
    /\ pc[r] = "final" /\ r \notin closed =>
          IF rc[r] = "OK"
          THEN /\ Len(heads[r]) = 1
               /\ outcome[r] # "none" /\ events[r] = 0 => Tells(r)
          ELSE /\ outcome[r] = "none"
               /\ heads[r] = IF endpoint[r] = "OPTIONS" /\ rc[r] = "NO_CONTENT"
                             THEN <<"NO_CONTENT">> ELSE <<>>
    /\ pc[r] \in {"unlock", "done"} /\ r \notin closed =>
          /\ Len(heads[r]) = IF endpoint[r] = "OPTIONS" /\ rc[r] = "NO_CONTENT" THEN 2 ELSE 1
          /\ outcome[r] # "none" /\ events[r] = 0 => Tells(r)

AnswerInv == \A r \in Requests : Answering(r)

CountInv ==
    /\ IsFiniteSet(Live) /\ activeRequests = Cardinality(Live)
    /\ stopping # "done" => pc[Dummy] = "none"
    /\ ReturnsAfterRequests

\* The inductive invariant
IInv == TypeOK /\ CountInv /\ AnswerInv /\ DeletedOnce

-----------------------------------------------------------------------------
(* What the building blocks of the handlers do *)

\* A step says nothing about request o.
SameFor(o) ==
    /\ pc'[o] = pc[o] /\ endpoint'[o] = endpoint[o] /\ writer'[o] = writer[o] /\ rc'[o] = rc[o]
    /\ heads'[o] = heads[o] /\ events'[o] = events[o] /\ outcome'[o] = outcome[o]
    /\ o \in closed' <=> o \in closed

\* Answers are kept by a step that concerns request r alone and keeps its answer.
LEMMA OneAnswers ==
    ASSUME AnswerInv, NEW r \in Requests, \A o \in Requests \ {r} : SameFor(o), Answering(r)'
    PROVE  AnswerInv'
  <1> SUFFICES ASSUME NEW o \in Requests, o # r PROVE Answering(o)'
    BY DEF AnswerInv
  <1>1. Answering(o) /\ SameFor(o)
    BY DEF AnswerInv
  <1> QED
    BY <1>1 DEF Answering, SameFor, Silent, WriterFits, Tells

\* The counter is right after a step of a live thread that stays alive.
LEMMA LiveMoves ==
    ASSUME TypeOK, CountInv, NEW r \in Requests, NEW l,
           pc[r] \notin {"none", "backlog", "unlock", "done"}, l \notin {"none", "backlog", "unlock", "done"},
           pc' = [pc EXCEPT ![r] = l], UNCHANGED serviceVars
    PROVE  CountInv'
  <1>1. Live' = Live
    BY DEF Live, TypeOK
  <1>2. stopping # "done" => pc'[Dummy] = "none"
    BY DEF CountInv, TypeOK, Requests
  <1> QED
    BY <1>1, <1>2 DEF CountInv, serviceVars, ReturnsAfterRequests

\* What Put writes, if the client is still there
LEMMA PutEffect ==
    ASSUME TypeOK, NEW r \in Requests, NEW lines \in Seq(Lines), NEW n \in Nat, Put(r, lines, n)
    PROVE  /\ heads' \in [Requests -> Seq(Lines)] /\ events' \in [Requests -> Nat]
           /\ closed' \subseteq Requests
           /\ \A o \in Requests \ {r} :
                 heads'[o] = heads[o] /\ events'[o] = events[o] /\ (o \in closed' <=> o \in closed)
           /\ r \notin closed' =>
                 r \notin closed /\ heads'[r] = heads[r] \o lines /\ events'[r] = events[r] + n
  <1>1. heads[r] \in Seq(Lines) /\ heads[r] \o lines \in Seq(Lines) /\ events[r] + n \in Nat
    BY ConcatProperties DEF TypeOK
  <1>2. CASE /\ r \notin closed
             /\ heads' = [heads EXCEPT ![r] = @ \o lines]
             /\ events' = [events EXCEPT ![r] = @ + n]
             /\ UNCHANGED closed
    <2>1. heads' \in [Requests -> Seq(Lines)] /\ heads'[r] = heads[r] \o lines
      BY <1>1, <1>2 DEF TypeOK
    <2>2. events' \in [Requests -> Nat] /\ events'[r] = events[r] + n
      BY <1>1, <1>2 DEF TypeOK
    <2> QED
      BY <1>2, <2>1, <2>2 DEF TypeOK
  <1>3. CASE closed' = closed \cup {r} /\ UNCHANGED <<heads, events>>
    BY <1>3 DEF TypeOK
  <1> QED
    BY <1>2, <1>3 DEF Put

\* Every status has a status line of a known kind.
LEMMA HttpLine == \A code : Http(code) \in Lines /\ Outcome(code) \in Lines
  BY DEF Http, Outcome, Lines

\* What sendResponse writes, by the kind of the writer
LEMMA SendEffect ==
    ASSUME TypeOK, NEW r \in Requests, NEW code, NEW message \in BOOLEAN,
           SendResponse(r, code, message)
    PROVE  /\ heads' \in [Requests -> Seq(Lines)] /\ events' \in [Requests -> Nat]
           /\ closed' \subseteq Requests /\ body' \in [Requests -> Nat]
           /\ \A o \in Requests \ {r} :
                 heads'[o] = heads[o] /\ events'[o] = events[o] /\ (o \in closed' <=> o \in closed)
           /\ r \notin closed' =>
                 /\ r \notin closed
                 /\ writer[r] = "sse" =>
                       /\ heads'[r] = IF heads[r] = <<>> THEN <<Http(code)>> ELSE heads[r]
                       /\ events'[r] = events[r] + IF message /\ Http(code) # "error" THEN 1 ELSE 0
                 /\ writer[r] # "sse" =>
                       /\ heads'[r] = IF writer[r] = "buffered" /\ message /\ Http(code) # "error"
                                      THEN heads[r] ELSE heads[r] \o <<Http(code)>>
                       /\ events'[r] = events[r]
  <1>1. heads[r] \in Seq(Lines) /\ <<Http(code)>> \in Seq(Lines) /\ heads[r] \o <<>> = heads[r]
        /\ <<>> \o <<Http(code)>> = <<Http(code)>> /\ <<>> \in Seq(Lines)
    BY HttpLine, ConcatEmptySeq DEF TypeOK
  <1>2. CASE writer[r] = "sse"
    <2> DEFINE lines == IF heads[r] = <<>> THEN <<Http(code)>> ELSE <<>>
               n == IF message /\ Http(code) # "error" THEN 1 ELSE 0
    <2>1. Put(r, lines, n) /\ UNCHANGED body
      BY <1>2 DEF SendResponse, SSEWriter
    <2>2. lines \in Seq(Lines) /\ n \in Nat
      BY <1>1
    <2>3. heads[r] \o lines = IF heads[r] = <<>> THEN <<Http(code)>> ELSE heads[r]
      BY <1>1
    <2> HIDE DEF lines, n
    <2>4. /\ heads' \in [Requests -> Seq(Lines)] /\ events' \in [Requests -> Nat]
          /\ closed' \subseteq Requests
          /\ \A o \in Requests \ {r} :
                heads'[o] = heads[o] /\ events'[o] = events[o] /\ (o \in closed' <=> o \in closed)
          /\ r \notin closed' =>
                r \notin closed /\ heads'[r] = heads[r] \o lines /\ events'[r] = events[r] + n
      BY <2>1, <2>2, PutEffect
    <2> QED
      BY <1>2, <2>1, <2>3, <2>4 DEF TypeOK, n
  <1>3. CASE writer[r] # "sse"
    <2> DEFINE added == body[r] + (IF message /\ Http(code) # "error" THEN 1 ELSE 0)
    <2>1. body[r] \in Nat /\ added \in Nat /\ (added > body[r] <=> message /\ Http(code) # "error")
      BY DEF TypeOK
    <2>2. SocketWriter(r, code, message, writer[r] = "buffered")
      BY <1>3 DEF SendResponse
    <2>3. CASE writer[r] = "buffered" /\ message /\ Http(code) # "error"
      <3>1. body' = [body EXCEPT ![r] = added] /\ UNCHANGED socketVars
        BY <2>1, <2>2, <2>3 DEF SocketWriter
      <3> QED
        BY <1>3, <2>1, <2>3, <3>1 DEF TypeOK, socketVars
    <2>4. CASE ~(writer[r] = "buffered" /\ message /\ Http(code) # "error")
      <3>1. Put(r, <<Http(code)>>, 0)
            /\ body' = [body EXCEPT ![r] = IF Http(code) = "error" THEN 0 ELSE added]
        BY <2>1, <2>2, <2>4 DEF SocketWriter
      <3>2. /\ heads' \in [Requests -> Seq(Lines)] /\ events' \in [Requests -> Nat]
            /\ closed' \subseteq Requests
            /\ \A o \in Requests \ {r} :
                  heads'[o] = heads[o] /\ events'[o] = events[o] /\ (o \in closed' <=> o \in closed)
            /\ r \notin closed' =>
                  r \notin closed /\ heads'[r] = heads[r] \o <<Http(code)>> /\ events'[r] = events[r] + 0
        BY <1>1, <3>1, PutEffect
      <3>3. body' \in [Requests -> Nat]
        BY <2>1, <3>1 DEF TypeOK
      <3>4. events[r] + 0 = events[r]
        BY DEF TypeOK
      <3> QED
        BY <1>3, <2>4, <3>2, <3>3, <3>4
    <2> QED
      BY <2>3, <2>4
  <1> QED
    BY <1>2, <1>3

\* A controller that sends one response, in any of its ways, keeps the invariant.
LEMMA RespondKeeps ==
    ASSUME IInv, NEW r \in Requests, NEW codes, Respond(r, codes),
           "ALREADY_EXISTS" \in codes => endpoint[r] = "POST_asset",
           pc[r] \in {"proceed", "use"}, endpoint[r] \notin Streamed \cup {"connect"}
    PROVE  IInv'
  <1> PICK code \in codes : /\ SendResponse(r, code, code = "OK")
                            /\ outcome' = [outcome EXCEPT ![r] = Outcome(code)]
    BY DEF Respond
  <1>1. /\ pc' = [pc EXCEPT ![r] = "final"]
        /\ UNCHANGED <<serviceVars, rc, endpoint, writer, left, connectVars, assetVars>>
    BY DEF Respond, Goto
  <1>2. TypeOK /\ CountInv /\ AnswerInv /\ DeletedOnce /\ Answering(r)
    BY DEF IInv, AnswerInv
  <1>3. /\ heads' \in [Requests -> Seq(Lines)] /\ events' \in [Requests -> Nat]
        /\ closed' \subseteq Requests /\ body' \in [Requests -> Nat]
        /\ \A o \in Requests \ {r} :
              heads'[o] = heads[o] /\ events'[o] = events[o] /\ (o \in closed' <=> o \in closed)
        /\ r \notin closed' =>
              /\ writer[r] = "sse" => heads'[r] = IF heads[r] = <<>> THEN <<Http(code)>> ELSE heads[r]
              /\ writer[r] = "plain" => heads'[r] = heads[r] \o <<Http(code)>>
    BY <1>2, SendEffect
  <1>4. TypeOK'
    BY <1>1, <1>2, <1>3, HttpLine DEF TypeOK, serviceVars, connectVars, assetVars
  <1>5. CountInv'
    BY <1>1, <1>2, LiveMoves
  <1>6. r \notin closed' => heads'[r] = <<Http(code)>>
    <2>1. <<>> \o <<Http(code)>> = <<Http(code)>>
      BY ConcatEmptySeq, HttpLine
    <2>2. writer[r] \in {"plain", "sse"} /\ heads[r] = <<>>
      BY <1>2 DEF Answering, Silent, WriterFits, TypeOK
    <2> QED
      BY <1>3, <2>1, <2>2
  <1>7. Answering(r)'
    <2>1. pc'[r] = "final" /\ rc'[r] = "OK" /\ outcome'[r] = Outcome(code)
      BY <1>1, <1>2 DEF TypeOK, Answering, Silent
    <2>2. Len(<<Http(code)>>) = 1
      OBVIOUS
    <2>3. \/ Http(code) = Outcome(code)
          \/ Http(code) = "ALREADY_REPORTED" /\ Outcome(code) = "error" /\ endpoint'[r] = "POST_asset"
      BY <1>1 DEF Http, Outcome
    <2> QED
      BY <1>6, <2>1, <2>2, <2>3 DEF Answering, Tells
  <1>8. AnswerInv'
    BY <1>1, <1>2, <1>3, <1>7, OneAnswers DEF SameFor, TypeOK
  <1> QED
    BY <1>1, <1>2, <1>4, <1>5, <1>8 DEF IInv, DeletedOnce, assetVars

\* The same for the three steps of a controller that sends several messages,
LEMMA BeginKeeps ==
    ASSUME IInv, NEW r \in Requests, BeginMessages(r), pc[r] = "proceed",
           writer[r] \in {"sse", "buffered"}
    PROVE  IInv'
  <1> USE DEF BeginMessages, Goto
  <1>1. TypeOK /\ CountInv /\ AnswerInv /\ DeletedOnce /\ Answering(r)
    BY DEF IInv, AnswerInv
  <1>2. TypeOK'
    BY <1>1, BoundsAssumption DEF TypeOK, serviceVars, socketVars, connectVars, assetVars
  <1>3. CountInv'
    BY <1>1, LiveMoves
  <1>4. Answering(r)'
    BY <1>1 DEF Answering, Silent, TypeOK, socketVars
  <1>5. AnswerInv'
    BY <1>1, <1>4, OneAnswers DEF SameFor, TypeOK, socketVars
  <1> QED
    BY <1>1, <1>2, <1>3, <1>5 DEF IInv, DeletedOnce, assetVars

\* A streamed message is an event of its own, or collected for the end.
LEMMA SendKeeps ==
    ASSUME IInv, NEW r \in Requests, SendMessage(r)
    PROVE  IInv'
  <1> USE DEF SendMessage
  <1>1. TypeOK /\ CountInv /\ AnswerInv /\ DeletedOnce /\ Answering(r)
    BY DEF IInv, AnswerInv
  <1>2. /\ heads' \in [Requests -> Seq(Lines)] /\ events' \in [Requests -> Nat]
        /\ closed' \subseteq Requests /\ body' \in [Requests -> Nat]
        /\ \A o \in Requests \ {r} :
              heads'[o] = heads[o] /\ events'[o] = events[o] /\ (o \in closed' <=> o \in closed)
        /\ r \notin closed' =>
              /\ r \notin closed
              /\ writer[r] = "sse" => /\ heads'[r] = IF heads[r] = <<>> THEN <<"OK">> ELSE heads[r]
                                      /\ events'[r] = events[r] + 1
              /\ writer[r] = "buffered" => heads'[r] = heads[r] /\ events'[r] = events[r]
    BY <1>1, SendEffect DEF Http, Outcome
  <1>3. left' \in [Requests -> Nat]
    BY <1>1 DEF TypeOK
  <1>4. TypeOK'
    BY <1>1, <1>2, <1>3 DEF TypeOK, serviceVars, connectVars, assetVars
  <1>5. CountInv'
    BY <1>1 DEF CountInv, Live, ReturnsAfterRequests, serviceVars
  <1>6. Answering(r)'
    <2>1. pc[r] = "send" /\ writer[r] \in {"sse", "buffered"} /\ events[r] \in Nat
      BY <1>1 DEF Answering, TypeOK
    <2> QED
      BY <1>1, <1>2, <2>1 DEF Answering
  <1>7. AnswerInv'
    BY <1>1, <1>2, <1>6, OneAnswers DEF SameFor, TypeOK
  <1> QED
    BY <1>1, <1>4, <1>5, <1>7 DEF IInv, DeletedOnce, assetVars

\* The final status ends a streamed answer: an error event, or the collected messages.
LEMMA EndKeeps ==
    ASSUME IInv, NEW r \in Requests, NEW codes, EndMessages(r, codes), pc[r] = "send",
           "ALREADY_EXISTS" \notin codes
    PROVE  IInv'
  <1> PICK code \in codes : /\ SendResponse(r, code, FALSE)
                            /\ outcome' = [outcome EXCEPT ![r] = Outcome(code)]
    BY DEF EndMessages
  <1>1. /\ pc' = [pc EXCEPT ![r] = "final"] /\ left' = [left EXCEPT ![r] = 0]
        /\ UNCHANGED <<serviceVars, rc, endpoint, writer, connectVars, assetVars>>
    BY DEF EndMessages, Goto
  <1>2. TypeOK /\ CountInv /\ AnswerInv /\ DeletedOnce /\ Answering(r)
    BY DEF IInv, AnswerInv
  <1>3. /\ heads' \in [Requests -> Seq(Lines)] /\ events' \in [Requests -> Nat]
        /\ closed' \subseteq Requests /\ body' \in [Requests -> Nat]
        /\ \A o \in Requests \ {r} :
              heads'[o] = heads[o] /\ events'[o] = events[o] /\ (o \in closed' <=> o \in closed)
        /\ r \notin closed' =>
              /\ r \notin closed
              /\ writer[r] = "sse" =>
                    /\ heads'[r] = IF heads[r] = <<>> THEN <<Http(code)>> ELSE heads[r]
                    /\ events'[r] = events[r] + 0
              /\ writer[r] = "buffered" =>
                    heads'[r] = heads[r] \o <<Http(code)>> /\ events'[r] = events[r]
    BY <1>2, SendEffect
  <1>4. TypeOK'
    BY <1>1, <1>2, <1>3, HttpLine DEF TypeOK, serviceVars, connectVars, assetVars
  <1>5. CountInv'
    BY <1>1, <1>2, LiveMoves
  <1>6. Answering(r)'
    <2>1. pc'[r] = "final" /\ rc'[r] = "OK" /\ outcome'[r] = Outcome(code)
      BY <1>1, <1>2 DEF TypeOK, Answering
    <2>2. <<>> \o <<Http(code)>> = <<Http(code)>> /\ Len(<<Http(code)>>) = 1 /\ Len(<<"OK">>) = 1
      BY ConcatEmptySeq, HttpLine
    <2>3. writer[r] \in {"sse", "buffered"} /\ events[r] \in Nat
      BY <1>2 DEF Answering, TypeOK
    <2>4. r \notin closed' => \/ heads'[r] = <<Http(code)>>
                              \/ heads'[r] = <<"OK">> /\ events'[r] > 0
      BY <1>2, <1>3, <2>2, <2>3 DEF Answering
    <2>5. Http(code) = Outcome(code)
      BY DEF Http
    <2> QED
      BY <2>1, <2>2, <2>4, <2>5 DEF Answering, Tells
  <1>7. AnswerInv'
    BY <1>1, <1>2, <1>3, <1>6, OneAnswers DEF SameFor, TypeOK
  <1> QED
    BY <1>1, <1>2, <1>4, <1>5, <1>7 DEF IInv, DeletedOnce, assetVars

-----------------------------------------------------------------------------
(* run(), Shutdown() and the threads of the requests *)

\* The steps of run() and Shutdown() that move no thread
LEMMA RunKeeps ==
    ASSUME IInv, Start \/ Loop \/ EmitShutdown \/ RunReturns \/ ShutdownFlag \/ UNCHANGED vars
    PROVE  IInv'
  <1> USE DEF Start, Loop, EmitShutdown, RunReturns, ShutdownFlag, vars, serviceVars, socketVars, callVars, connectVars, assetVars
  <1>1. TypeOK /\ CountInv /\ AnswerInv /\ DeletedOnce
    BY DEF IInv
  <1>2. TypeOK'
    BY <1>1 DEF TypeOK
  <1>3. Live' = Live /\ UNCHANGED <<pc, activeRequests>>
    BY DEF Live
  <1>4. stopping' # "done" => stopping # "done"
    OBVIOUS
  <1>5. CASE RunReturns
    <2>1. Live = {}
      BY <1>1, <1>5, FS_EmptySet DEF CountInv
    <2> QED
      <3>1. CountInv'
        BY <1>1, <1>3, <1>4, <2>1 DEF CountInv, ReturnsAfterRequests
      <3>2. AnswerInv'
        BY <1>1, <1>5 DEF AnswerInv, Answering, Silent, WriterFits, Tells
      <3> QED
        BY <1>1, <1>2, <1>5, <3>1, <3>2 DEF IInv, DeletedOnce
  <1>6. CASE ~RunReturns
    <2>1. run' = "returned" => run = "returned"
      BY <1>6
    <2>2. CountInv'
      BY <1>1, <1>3, <1>4, <2>1 DEF CountInv, ReturnsAfterRequests
    <2>3. AnswerInv'
      BY <1>1 DEF AnswerInv, Answering, Silent, WriterFits, Tells
    <2> QED
      BY <1>1, <1>2, <2>2, <2>3 DEF IInv, DeletedOnce
  <1> QED
    BY <1>5, <1>6

\* Shutdown()'s own connection waits to be accepted.
LEMMA ShutdownConnectsKeeps == ASSUME IInv, ShutdownConnects PROVE IInv'
  <1> USE DEF ShutdownConnects, Goto, socketVars, callVars, connectVars, assetVars
  <1>1. TypeOK /\ CountInv /\ AnswerInv /\ DeletedOnce /\ Dummy \in Requests
    BY DEF IInv, Requests
  <1>2. TypeOK'
    BY <1>1 DEF TypeOK
  <1>3. Live' = Live
    BY <1>1 DEF Live, CountInv, TypeOK
  <1>4. CountInv'
    BY <1>1, <1>3 DEF CountInv, ReturnsAfterRequests
  <1>5. Answering(Dummy)'
    BY <1>1 DEF AnswerInv, Answering, Silent, CountInv, TypeOK
  <1>6. AnswerInv'
    BY <1>1, <1>5, OneAnswers DEF SameFor, TypeOK
  <1> QED
    BY <1>1, <1>2, <1>4, <1>6 DEF IInv, DeletedOnce

\* A connection is accepted: one more live thread.
LEMMA AcceptKeeps == ASSUME IInv, NEW r \in Requests, Accept(r) PROVE IInv'
  <1> USE DEF Accept, Goto, socketVars, callVars, connectVars, assetVars
  <1>1. TypeOK /\ CountInv /\ AnswerInv /\ DeletedOnce /\ Answering(r)
    BY DEF IInv, AnswerInv
  <1>2. pc[r] \in {"none", "backlog"}
    OBVIOUS
  <1>3. TypeOK'
    BY <1>1 DEF TypeOK
  <1>4. Live' = Live \cup {r} /\ r \notin Live
    BY <1>1, <1>2 DEF Live, TypeOK
  <1>5. IsFiniteSet(Live') /\ Cardinality(Live') = Cardinality(Live) + 1
    BY <1>1, <1>4, FS_AddElement DEF CountInv
  <1>6. stopping' # "done" => pc'[Dummy] = "none"
    BY <1>1 DEF CountInv, TypeOK, Requests
  <1>7. CountInv'
    BY <1>1, <1>5, <1>6 DEF CountInv, ReturnsAfterRequests
  <1>8. Answering(r)'
    BY <1>1, <1>2 DEF Answering, Silent, TypeOK
  <1>9. AnswerInv'
    BY <1>1, <1>8, OneAnswers DEF SameFor, TypeOK
  <1> QED
    BY <1>1, <1>3, <1>7, <1>9 DEF IInv, DeletedOnce

\* The test of shutdown_ at the beginning of a thread
LEMMA BeginThreadKeeps == ASSUME IInv, NEW r \in Requests, Begin(r) PROVE IInv'
  <1> USE DEF Begin, Fail, Goto, Http, Outcome, socketVars, callVars, connectVars, assetVars
  <1>1. TypeOK /\ CountInv /\ AnswerInv /\ DeletedOnce /\ Answering(r)
    BY DEF IInv, AnswerInv
  <1>2. PICK l \in {"read", "final"} :
            /\ pc' = [pc EXCEPT ![r] = l]
            /\ IF l = "read" THEN UNCHANGED rc ELSE rc' = [rc EXCEPT ![r] = "error"]
    OBVIOUS
  <1>3. TypeOK'
    BY <1>1, <1>2 DEF TypeOK, Lines, serviceVars
  <1>4. CountInv'
    BY <1>1, <1>2, LiveMoves
  <1>5. Answering(r)'
    BY <1>1, <1>2 DEF Answering, Silent, TypeOK
  <1>6. AnswerInv'
    BY <1>1, <1>2, <1>5, OneAnswers DEF SameFor, TypeOK
  <1> QED
    BY <1>1, <1>3, <1>4, <1>6 DEF IInv, DeletedOnce

\* The request is read, or it is not.
LEMMA ReadKeeps == ASSUME IInv, NEW r \in Requests, Read(r) PROVE IInv'
  <1> USE DEF Read, socketVars, connectVars, assetVars
  <1>1. TypeOK /\ CountInv /\ AnswerInv /\ DeletedOnce /\ Answering(r)
    BY DEF IInv, AnswerInv
  <1>2. PICK e \in Endpoints \cup {"unread"} : endpoint' = [endpoint EXCEPT ![r] = e]
    <2>1. CASE r \in Clients /\ \E e \in Asks(r) : endpoint' = [endpoint EXCEPT ![r] = e]
      <3>1. Asks(r) \subseteq Endpoints
        BY <2>1, ClientsAssumption DEF Asks
      <3> QED
        BY <2>1, <3>1
    <2>2. CASE UNCHANGED endpoint
      <3>1. endpoint' = [endpoint EXCEPT ![r] = endpoint[r]] /\ endpoint[r] \in Endpoints \cup {"unread"}
        BY <1>1, <2>2 DEF TypeOK
      <3> QED
        BY <3>1
    <2> QED
      BY <2>1, <2>2
  <1>3. PICK l \in {"route", "final"} :
            /\ pc' = [pc EXCEPT ![r] = l]
            /\ IF l = "route" THEN UNCHANGED rc ELSE rc' = [rc EXCEPT ![r] = "error"]
    <2>1. \A code : Fail(r, code) /\ code \notin {"OK", "NO_CONTENT", "ALREADY_EXISTS"} =>
              pc' = [pc EXCEPT ![r] = "final"] /\ rc' = [rc EXCEPT ![r] = "error"]
      BY DEF Fail, Goto, Http, Outcome
    <2>2. ReadBody(r) => \/ Goto(r, "route") /\ UNCHANGED rc
                         \/ \E code \in ReadFailures \cup {"INVALID_ARGUMENT", "DATA_LOSS"} : Fail(r, code)
      BY DEF ReadBody
    <2> QED
      BY <2>1, <2>2 DEF Goto, ReadFailures
  <1>4. TypeOK'
    BY <1>1, <1>2, <1>3 DEF TypeOK, Lines, serviceVars
  <1>5. CountInv'
    BY <1>1, <1>3, LiveMoves
  <1>6. Answering(r)'
    BY <1>1, <1>2, <1>3 DEF Answering, Silent, TypeOK
  <1>7. AnswerInv'
    BY <1>1, <1>2, <1>3, <1>6, OneAnswers DEF SameFor, TypeOK
  <1> QED
    BY <1>1, <1>4, <1>5, <1>7 DEF IInv, DeletedOnce

\* The router answers itself, refuses, or makes a controller.
LEMMA RouteKeeps == ASSUME IInv, NEW r \in Requests, Route(r) PROVE IInv'
  <1> USE DEF connectVars, assetVars
  <1>1. TypeOK /\ CountInv /\ AnswerInv /\ DeletedOnce /\ Answering(r)
    BY DEF IInv, AnswerInv
  <1>2. /\ pc[r] = "route" /\ Silent(r)
        /\ UNCHANGED <<serviceVars, endpoint, body, left, outcome, connectVars, assetVars>>
    BY <1>1 DEF Route, Answering
  <1>3. <<"OK">> \in Seq(Lines) /\ <<"NO_CONTENT">> \in Seq(Lines) /\ Len(<<"OK">>) = 1
        /\ <<>> \o <<"OK">> = <<"OK">> /\ <<>> \o <<"NO_CONTENT">> = <<"NO_CONTENT">>
    BY ConcatEmptySeq DEF Lines
  <1>4. ASSUME NEW line \in {"OK", "NO_CONTENT"}, Put(r, <<line>>, 0), Goto(r, "final"), UNCHANGED writer,
               IF line = "OK" THEN UNCHANGED rc
               ELSE rc' = [rc EXCEPT ![r] = line] /\ endpoint[r] = "OPTIONS"
        PROVE  IInv'
    <2>1. /\ heads' \in [Requests -> Seq(Lines)] /\ events' \in [Requests -> Nat]
          /\ closed' \subseteq Requests
          /\ \A o \in Requests \ {r} :
                heads'[o] = heads[o] /\ events'[o] = events[o] /\ (o \in closed' <=> o \in closed)
          /\ r \notin closed' => heads'[r] = heads[r] \o <<line>>
      BY <1>1, <1>3, <1>4, PutEffect
    <2>2. TypeOK'
      <3>1. rc' \in [Requests -> Lines]
        BY <1>1, <1>4 DEF TypeOK, Lines
      <3> QED
        BY <1>1, <1>2, <1>4, <2>1, <3>1 DEF TypeOK, Goto, serviceVars
    <2>3. CountInv'
      BY <1>1, <1>2, <1>4, LiveMoves DEF Goto
    <2>4. Answering(r)'
      <3>1. pc'[r] = "final" /\ endpoint'[r] = endpoint[r] /\ outcome'[r] = "none"
        BY <1>1, <1>2, <1>4 DEF Goto, TypeOK, Silent
      <3>2. r \notin closed' => heads'[r] = <<line>>
        BY <1>2, <1>3, <2>1 DEF Silent
      <3>3. CASE line = "OK"
        BY <1>2, <1>3, <1>4, <3>1, <3>2, <3>3 DEF Answering, Silent
      <3>4. CASE line = "NO_CONTENT"
        <4>1. rc'[r] = "NO_CONTENT" /\ endpoint[r] = "OPTIONS"
          BY <1>1, <1>4, <3>4 DEF TypeOK
        <4> QED
          BY <3>1, <3>2, <3>4, <4>1 DEF Answering
      <3> QED
        BY <1>4, <3>3, <3>4
    <2>5. AnswerInv'
      BY <1>1, <1>2, <1>4, <2>1, <2>4, OneAnswers DEF SameFor, TypeOK, Goto
    <2> QED
      BY <1>1, <1>2, <2>2, <2>3, <2>5 DEF IInv, DeletedOnce
  <1>5. ASSUME rc' = [rc EXCEPT ![r] = "error"], Goto(r, "final"), UNCHANGED <<socketVars, writer>>
        PROVE  IInv'
    <2>1. TypeOK'
      BY <1>1, <1>2, <1>5 DEF TypeOK, Lines, Goto, serviceVars, socketVars
    <2>2. CountInv'
      BY <1>1, <1>2, <1>5, LiveMoves DEF Goto
    <2>3. Answering(r)'
      BY <1>1, <1>2, <1>5 DEF Answering, Silent, TypeOK, Goto, socketVars
    <2>4. AnswerInv'
      BY <1>1, <1>2, <1>5, <2>3, OneAnswers DEF SameFor, TypeOK, Goto, socketVars
    <2> QED
      BY <1>1, <1>2, <2>1, <2>2, <2>4 DEF IInv, DeletedOnce
  <1>6. ASSUME NEW stream \in BOOLEAN, writer' = [writer EXCEPT ![r] = WriterOf(endpoint[r], stream)],
               Goto(r, "proceed"), UNCHANGED <<rc, socketVars>>
        PROVE  IInv'
    <2>1. WriterOf(endpoint[r], stream) \in {"plain", "buffered", "sse"}
      BY DEF WriterOf
    <2>2. TypeOK'
      BY <1>1, <1>2, <1>6, <2>1 DEF TypeOK, Goto, serviceVars, socketVars
    <2>3. CountInv'
      BY <1>1, <1>2, <1>6, LiveMoves DEF Goto
    <2>4. Answering(r)'
      <3>1. WriterFits(r)'
        BY <1>1, <1>2, <1>6 DEF WriterFits, WriterOf, TypeOK, Streamed, Assets
      <3> QED
        BY <1>1, <1>2, <1>6, <3>1 DEF Answering, Silent, TypeOK, Goto, socketVars
    <2>5. AnswerInv'
      BY <1>1, <1>2, <1>6, <2>4, OneAnswers DEF SameFor, TypeOK, Goto, socketVars
    <2> QED
      BY <1>1, <1>2, <2>2, <2>3, <2>5 DEF IInv, DeletedOnce
  <1> QED
    BY <1>4, <1>5, <1>6 DEF Route, Fail, Http, Outcome

\* The thread writes its rc, if that is left to say, and counts itself out.
LEMMA FinalKeeps == ASSUME IInv, NEW r \in Requests, Final(r) PROVE IInv'
  <1> USE DEF Goto, connectVars, assetVars
  <1>1. TypeOK /\ CountInv /\ AnswerInv /\ DeletedOnce /\ Answering(r)
    BY DEF IInv, AnswerInv
  <1>2. /\ pc[r] = "final" /\ pc' = [pc EXCEPT ![r] = "unlock"]
        /\ activeRequests' = activeRequests - 1
        /\ writer' = [writer EXCEPT ![r] = "plain"] /\ body' = [body EXCEPT ![r] = 0]
        /\ UNCHANGED <<run, shutdown, stopping, rc, endpoint, left, outcome, connectVars, assetVars>>
    BY DEF Final
  <1>3. Live' = Live \ {r} /\ r \in Live
    BY <1>1, <1>2 DEF Live, TypeOK
  <1>4. IsFiniteSet(Live') /\ Cardinality(Live') = Cardinality(Live) - 1 /\ Cardinality(Live') \in Nat
    BY <1>1, <1>3, FS_RemoveElement, FS_CardinalityType DEF CountInv
  <1>5. stopping' # "done" => pc'[Dummy] = "none"
    BY <1>1, <1>2 DEF CountInv, TypeOK, Requests
  <1>6. CountInv'
    BY <1>1, <1>2, <1>3, <1>4, <1>5 DEF CountInv, ReturnsAfterRequests
  <1>7. rc[r] \in Lines /\ <<rc[r]>> \in Seq(Lines) /\ rc'[r] = rc[r] /\ endpoint'[r] = endpoint[r]
        /\ outcome'[r] = outcome[r] /\ pc'[r] = "unlock"
    BY <1>1, <1>2 DEF TypeOK
  <1>8. /\ heads' \in [Requests -> Seq(Lines)] /\ events' \in [Requests -> Nat]
        /\ closed' \subseteq Requests
        /\ \A o \in Requests \ {r} :
              heads'[o] = heads[o] /\ events'[o] = events[o] /\ (o \in closed' <=> o \in closed)
        /\ r \notin closed' =>
              /\ r \notin closed
              /\ rc[r] = "OK" => heads'[r] = heads[r] /\ events'[r] = events[r]
              /\ rc[r] # "OK" => heads'[r] = heads[r] \o <<rc[r]>>
    <2>1. CASE rc[r] = "OK"
      BY <1>1, <2>1 DEF Final, socketVars, TypeOK
    <2>2. CASE rc[r] # "OK"
      <3>1. Put(r, <<rc[r]>>, 0)
        BY <2>2 DEF Final
      <3> QED
        BY <1>1, <1>7, <2>2, <3>1, PutEffect
    <2> QED
      BY <2>1, <2>2
  <1>9. TypeOK'
    BY <1>1, <1>2, <1>4, <1>6, <1>8 DEF TypeOK, CountInv
  <1>10. Answering(r)'
    <2>1. CASE rc[r] = "OK"
      BY <1>1, <1>2, <1>7, <1>8, <2>1 DEF Answering, Tells
    <2>2. CASE rc[r] # "OK"
      <3>1. Len(<<>> \o <<rc[r]>>) = 1 /\ Len(<<"NO_CONTENT">> \o <<rc[r]>>) = 2
        BY <1>7
      <3> QED
        BY <1>1, <1>2, <1>7, <1>8, <2>2, <3>1 DEF Answering, Tells
    <2> QED
      BY <2>1, <2>2
  <1>11. AnswerInv'
    BY <1>1, <1>2, <1>8, <1>10, OneAnswers DEF SameFor, TypeOK
  <1> QED
    BY <1>1, <1>2, <1>6, <1>9, <1>11 DEF IInv, DeletedOnce

\* The end of a thread changes no answer.
LEMMA LeaveKeeps == ASSUME IInv, NEW r \in Requests, Leave(r) PROVE IInv'
  <1> USE DEF Leave, Goto, serviceVars, socketVars, callVars, connectVars, assetVars
  <1>1. TypeOK /\ CountInv /\ AnswerInv /\ DeletedOnce /\ Answering(r)
    BY DEF IInv, AnswerInv
  <1>2. TypeOK'
    BY <1>1 DEF TypeOK
  <1>3. Live' = Live
    BY <1>1 DEF Live, TypeOK
  <1>4. stopping' # "done" => pc'[Dummy] = "none"
    BY <1>1 DEF CountInv, TypeOK, Requests
  <1>5. CountInv'
    BY <1>1, <1>3, <1>4 DEF CountInv, ReturnsAfterRequests
  <1>6. Answering(r)'
    BY <1>1 DEF Answering, Tells, TypeOK
  <1>7. AnswerInv'
    BY <1>1, <1>6, OneAnswers DEF SameFor, TypeOK
  <1> QED
    BY <1>1, <1>2, <1>5, <1>7 DEF IInv, DeletedOnce

-----------------------------------------------------------------------------
(* AssetRequest and Connect *)

\* What a controller of assets that says NO_CONTENT leaves behind
LEMMA NoContentKeeps ==
    ASSUME IInv, NEW r \in Requests, pc[r] \in {"use", "write"},
           SendResponse(r, "NO_CONTENT", FALSE),
           outcome' = [outcome EXCEPT ![r] = "NO_CONTENT"],
           Goto(r, "final"),
           asset' \in {"absent", "written"} /\ deleted' \in Nat /\ UNCHANGED created,
           DeletedOnce',
           UNCHANGED <<serviceVars, rc, endpoint, writer, left, connectVars>>
    PROVE  IInv'
  <1>1. TypeOK /\ CountInv /\ AnswerInv /\ Answering(r)
    BY DEF IInv, AnswerInv
  <1>2. writer[r] = "plain" /\ Silent(r)
    BY <1>1 DEF Answering, WriterFits
  <1>3. /\ heads' \in [Requests -> Seq(Lines)] /\ events' \in [Requests -> Nat]
        /\ closed' \subseteq Requests /\ body' \in [Requests -> Nat]
        /\ \A o \in Requests \ {r} :
              heads'[o] = heads[o] /\ events'[o] = events[o] /\ (o \in closed' <=> o \in closed)
        /\ r \notin closed' => heads'[r] = heads[r] \o <<Http("NO_CONTENT")>>
    BY <1>1, <1>2, SendEffect
  <1>4. r \notin closed' => heads'[r] = <<"NO_CONTENT">>
    BY <1>2, <1>3, ConcatEmptySeq, HttpLine DEF Http, Outcome, Silent
  <1>5. TypeOK'
    BY <1>1, <1>3 DEF TypeOK, Lines, Goto, serviceVars, connectVars
  <1>6. CountInv'
    BY <1>1, LiveMoves DEF Goto
  <1>7. Answering(r)'
    <2>1. pc'[r] = "final" /\ rc'[r] = "OK" /\ outcome'[r] = "NO_CONTENT"
      BY <1>1, <1>2 DEF TypeOK, Silent, Goto
    <2>2. Len(<<"NO_CONTENT">>) = 1
      OBVIOUS
    <2> QED
      BY <1>4, <2>1, <2>2 DEF Answering, Tells
  <1>8. AnswerInv'
    BY <1>1, <1>3, <1>7, OneAnswers DEF SameFor, TypeOK, Goto
  <1> QED
    BY <1>5, <1>6, <1>8 DEF IInv

\* The files
LEMMA AssetKeeps == ASSUME IInv, NEW r \in Requests, AssetRequest(r) PROVE IInv'
  <1>1. TypeOK /\ CountInv /\ AnswerInv /\ DeletedOnce /\ Answering(r)
    BY DEF IInv, AnswerInv
  <1>2. ASSUME NEW codes, Respond(r, codes), pc[r] \in {"proceed", "use"}, endpoint[r] \in Assets,
               "ALREADY_EXISTS" \in codes => endpoint[r] = "POST_asset"
        PROVE  IInv'
    BY <1>2, RespondKeeps DEF Assets, Streamed
  <1>3. ASSUME NEW l \in {"use", "write"}, Goto(r, l), pc[r] \in {"proceed", "use"}, endpoint[r] \in Assets,
               asset' \in {"absent", "empty", "written"}, created' \in Nat, DeletedOnce',
               UNCHANGED <<serviceVars, rc, socketVars, callVars, connectVars, deleted>>
        PROVE  IInv'
    <2>1. TypeOK'
      BY <1>1, <1>3 DEF TypeOK, Goto, serviceVars, socketVars, callVars, connectVars
    <2>2. CountInv'
      BY <1>1, <1>3, LiveMoves DEF Goto
    <2>3. Answering(r)'
      BY <1>1, <1>3 DEF Answering, Silent, WriterFits, TypeOK, Goto, socketVars, callVars
    <2>4. AnswerInv'
      BY <1>1, <1>3, <2>3, OneAnswers DEF SameFor, TypeOK, Goto, socketVars, callVars
    <2> QED
      BY <1>3, <2>1, <2>2, <2>4 DEF IInv
  <1>4. CASE RefuseAsset(r)
    BY <1>2, <1>4 DEF RefuseAsset, AssetCall, Assets, AllErrors, SlotErrors, TokenErrors, DeviceErrors
  <1>5. CASE TestAsset(r)
    <2>1. CASE Goto(r, "use") /\ UNCHANGED <<serviceVars, rc, socketVars, callVars, connectVars, assetVars>>
      <3>1. DeletedOnce' /\ asset' \in {"absent", "empty", "written"} /\ created' \in Nat
        BY <1>1, <2>1 DEF DeletedOnce, TypeOK, assetVars
      <3> QED
        BY <1>3, <1>5, <2>1, <3>1 DEF TestAsset, AssetCall, Assets, assetVars
    <2>2. CASE Respond(r, IF endpoint[r] = "POST_asset" THEN {"ALREADY_EXISTS"} ELSE {"NOT_FOUND"})
      BY <1>2, <1>5, <2>2 DEF TestAsset, AssetCall, Assets
    <2> QED
      BY <1>5, <2>1, <2>2 DEF TestAsset
  <1>6. CASE ReadAsset(r)
    BY <1>2, <1>6 DEF ReadAsset, At, Assets
  <1>7. CASE OpenAsset(r)
    <2>1. CASE Respond(r, {"INTERNAL"})
      BY <1>2, <1>7, <2>1 DEF OpenAsset, Assets
    <2>2. CASE ~Respond(r, {"INTERNAL"})
      <3>1. /\ asset' = "empty" /\ created' = IF asset = "absent" THEN created + 1 ELSE created
            /\ Goto(r, "write") /\ pc[r] = "use" /\ endpoint[r] \in Assets
            /\ UNCHANGED <<serviceVars, rc, socketVars, callVars, connectVars, deleted>>
        BY <1>7, <2>2 DEF OpenAsset, Assets
      <3>2. DeletedOnce' /\ created' \in Nat
        BY <1>1, <3>1 DEF DeletedOnce, TypeOK
      <3> QED
        BY <1>3, <3>1, <3>2
    <2> QED
      BY <2>1, <2>2
  <1>8. CASE WriteAsset(r)
    <2>1. DeletedOnce' /\ asset' \in {"absent", "written"} /\ deleted' \in Nat /\ UNCHANGED created
      BY <1>1, <1>8 DEF DeletedOnce, TypeOK, WriteAsset
    <2> QED
      BY <1>8, <2>1, NoContentKeeps DEF WriteAsset
  <1>9. CASE DeleteAsset(r)
    <2>1. CASE Respond(r, {"INTERNAL"})
      BY <1>2, <1>9, <2>1 DEF DeleteAsset, At, Assets
    <2>2. CASE ~Respond(r, {"INTERNAL"})
      <3>1. /\ pc[r] = "use" /\ asset # "absent" /\ asset' = "absent" /\ deleted' = deleted + 1
            /\ SendResponse(r, "NO_CONTENT", FALSE)
            /\ outcome' = [outcome EXCEPT ![r] = "NO_CONTENT"]
            /\ Goto(r, "final")
            /\ UNCHANGED <<serviceVars, rc, endpoint, writer, left, connectVars, created>>
        BY <1>9, <2>2 DEF DeleteAsset, At
      <3>2. DeletedOnce' /\ deleted' \in Nat
        BY <1>1, <3>1 DEF DeletedOnce, TypeOK
      <3> QED
        BY <3>1, <3>2, NoContentKeeps
    <2> QED
      BY <2>1, <2>2
  <1> QED
    BY <1>4, <1>5, <1>6, <1>7, <1>8, <1>9 DEF AssetRequest

\* A Connect call: it begins to listen,
LEMMA ConnectSignalKeeps == ASSUME IInv, NEW r \in Requests, ConnectSignal(r) PROVE IInv'
  <1> USE DEF ConnectSignal, At, Goto, socketVars, callVars, assetVars
  <1>1. TypeOK /\ CountInv /\ AnswerInv /\ DeletedOnce /\ Answering(r)
    BY DEF IInv, AnswerInv
  <1>2. TypeOK'
    BY <1>1 DEF TypeOK, serviceVars
  <1>3. CountInv'
    BY <1>1, LiveMoves
  <1>4. Answering(r)'
    BY <1>1 DEF Answering, Silent, WriterFits, TypeOK
  <1>5. AnswerInv'
    BY <1>1, <1>4, OneAnswers DEF SameFor, TypeOK
  <1> QED
    BY <1>1, <1>2, <1>3, <1>5 DEF IInv, DeletedOnce

\* sends its first response,
LEMMA ConnectRegistersKeeps == ASSUME IInv, NEW r \in Requests, ConnectRegisters(r) PROVE IInv'
  <1> PICK code \in {"OK", "RESOURCE_EXHAUSTED", "UNAUTHENTICATED"} :
                  /\ SendResponse(r, code, code = "OK")
                  /\ stopped' = IF code = "OK" THEN stopped ELSE stopped \cup {r}
                  /\ outcome' = [outcome EXCEPT ![r] = Outcome(code)]
    BY DEF ConnectRegisters
  <1>1. TypeOK /\ CountInv /\ AnswerInv /\ DeletedOnce /\ Answering(r)
    BY DEF IInv, AnswerInv
  <1>2. /\ pc[r] = "register" /\ endpoint[r] = "connect" /\ pc' = [pc EXCEPT ![r] = "connected"]
        /\ UNCHANGED <<serviceVars, rc, endpoint, writer, left, listening, late, assetVars>>
    BY DEF ConnectRegisters, At, Goto
  <1>3. writer[r] = "sse" /\ Silent(r)
    BY <1>1, <1>2 DEF Answering, WriterFits
  <1>4. /\ heads' \in [Requests -> Seq(Lines)] /\ events' \in [Requests -> Nat]
        /\ closed' \subseteq Requests /\ body' \in [Requests -> Nat]
        /\ \A o \in Requests \ {r} :
              heads'[o] = heads[o] /\ events'[o] = events[o] /\ (o \in closed' <=> o \in closed)
        /\ r \notin closed' => heads'[r] = IF heads[r] = <<>> THEN <<Http(code)>> ELSE heads[r]
    BY <1>1, <1>3, SendEffect
  <1>5. TypeOK'
    BY <1>1, <1>2, <1>4, HttpLine DEF TypeOK, serviceVars, assetVars
  <1>6. CountInv'
    BY <1>1, <1>2, LiveMoves
  <1>7. Answering(r)'
    BY <1>1, <1>2, <1>3, <1>4 DEF Answering, Silent, TypeOK, Http
  <1>8. AnswerInv'
    BY <1>1, <1>2, <1>4, <1>7, OneAnswers DEF SameFor, TypeOK
  <1> QED
    BY <1>1, <1>2, <1>5, <1>6, <1>8 DEF IInv, DeletedOnce, assetVars

\* is woken up by updates,
LEMMA ConnectWakesKeeps == ASSUME IInv, NEW r \in Requests, ConnectWakes(r) PROVE IInv'
  <1> USE DEF ConnectWakes, At, Goto, socketVars, callVars, connectVars, assetVars
  <1>1. TypeOK /\ CountInv /\ AnswerInv /\ DeletedOnce /\ Answering(r)
    BY DEF IInv, AnswerInv
  <1>2. TypeOK'
    BY <1>1 DEF TypeOK, serviceVars
  <1>3. CountInv'
    BY <1>1, LiveMoves
  <1>4. Answering(r)'
    BY <1>1 DEF Answering, TypeOK
  <1>5. AnswerInv'
    BY <1>1, <1>4, OneAnswers DEF SameFor, TypeOK
  <1> QED
    BY <1>1, <1>2, <1>3, <1>5 DEF IInv, DeletedOnce

\* sends them,
LEMMA ConnectPushKeeps == ASSUME IInv, NEW r \in Requests, ConnectPush(r) PROVE IInv'
  <1>1. TypeOK /\ CountInv /\ AnswerInv /\ DeletedOnce /\ Answering(r)
    BY DEF IInv, AnswerInv
  <1>2. /\ pc[r] = "push" /\ Put(r, <<>>, 0) /\ stopped' \in {stopped, stopped \cup {r}}
        /\ pc' = [pc EXCEPT ![r] = "connected"]
        /\ UNCHANGED <<serviceVars, rc, callVars, listening, late, assetVars>>
    BY DEF ConnectPush, At, Goto
  <1>3. /\ heads' \in [Requests -> Seq(Lines)] /\ events' \in [Requests -> Nat]
        /\ closed' \subseteq Requests
        /\ \A o \in Requests \ {r} :
              heads'[o] = heads[o] /\ events'[o] = events[o] /\ (o \in closed' <=> o \in closed)
        /\ r \notin closed' => r \notin closed /\ heads'[r] = heads[r] \o <<>>
    BY <1>1, <1>2, EmptySeq, PutEffect
  <1>4. heads[r] \o <<>> = heads[r]
    BY <1>1, ConcatEmptySeq DEF TypeOK
  <1>5. TypeOK'
    BY <1>1, <1>2, <1>3 DEF TypeOK, serviceVars, callVars, assetVars
  <1>6. CountInv'
    BY <1>1, <1>2, LiveMoves
  <1>7. Answering(r)'
    BY <1>1, <1>2, <1>3, <1>4 DEF Answering, TypeOK, callVars
  <1>8. AnswerInv'
    BY <1>1, <1>2, <1>3, <1>7, OneAnswers DEF SameFor, TypeOK, callVars
  <1> QED
    BY <1>1, <1>2, <1>5, <1>6, <1>8 DEF IInv, DeletedOnce, assetVars

\* and ends.
LEMMA ConnectEndsKeeps == ASSUME IInv, NEW r \in Requests, ConnectEnds(r) PROVE IInv'
  <1> USE DEF ConnectEnds, At, Goto, socketVars, callVars, assetVars
  <1>1. TypeOK /\ CountInv /\ AnswerInv /\ DeletedOnce /\ Answering(r)
    BY DEF IInv, AnswerInv
  <1>2. TypeOK'
    BY <1>1 DEF TypeOK, serviceVars
  <1>3. CountInv'
    BY <1>1, LiveMoves
  <1>4. Answering(r)'
    <2>1. r \notin closed => Len(<<outcome[r]>>) = 1
      OBVIOUS
    <2> QED
      BY <1>1, <2>1 DEF Answering, TypeOK, Tells
  <1>5. AnswerInv'
    BY <1>1, <1>4, OneAnswers DEF SameFor, TypeOK
  <1> QED
    BY <1>1, <1>2, <1>3, <1>5 DEF IInv, DeletedOnce

-----------------------------------------------------------------------------
\* Every controller keeps the invariant.
LEMMA ProceedKeeps == ASSUME IInv, NEW r \in Requests, Proceed(r) PROVE IInv'
  <1>1. TypeOK /\ Answering(r)
    BY DEF IInv, AnswerInv
  <1>2. ASSUME NEW e, NEW codes, Unary(r, e, codes), e \notin Streamed \cup {"connect"},
               "ALREADY_EXISTS" \notin codes
        PROVE  IInv'
    BY <1>2, RespondKeeps DEF Unary, At
  <1> USE DEF AllErrors, SlotErrors, TokenErrors, DeviceErrors
  <1>3. CASE \/ GetPopulatedSlots(r) \/ GetValue(r) \/ MultiSetValue(r) \/ SetValue(r) \/ GetParam(r)
             \/ Languages(r) \/ LanguagePack(r)
    BY <1>2, <1>3 DEF GetPopulatedSlots, GetValue, MultiSetValue, SetValue, GetParam, Languages, LanguagePack, Streamed
  <1>4. ASSUME pc[r] = "proceed", endpoint[r] \in Streamed PROVE writer[r] \in {"sse", "buffered"}
    BY <1>1, <1>4 DEF Answering, WriterFits
  <1>5. CASE DeviceRequest(r) \/ ExecuteCommand(r) \/ Subscriptions(r)
    BY <1>4, <1>5, BeginKeeps, SendKeeps, EndKeeps DEF DeviceRequest, ExecuteCommand, Subscriptions, At, Streamed
  <1>6. CASE ParamInfoRequest(r)
    BY <1>6, BeginKeeps, SendKeeps, EndKeeps, RespondKeeps DEF ParamInfoRequest, At, Streamed
  <1> QED
    BY <1>3, <1>5, <1>6, BeginThreadKeeps, ReadKeeps, RouteKeeps, FinalKeeps, LeaveKeeps, AssetKeeps, ConnectSignalKeeps, ConnectRegistersKeeps,
       ConnectPushKeeps, ConnectEndsKeeps DEF Proceed, Connect

\* Every step of every request and of run() and Shutdown() keeps the inductive invariant.
LEMMA InvStep == IInv /\ [Next]_vars => IInv'
  BY RunKeeps, ShutdownConnectsKeeps, AcceptKeeps, ConnectWakesKeeps, ProceedKeeps DEF Next, RunStep, Requests

\* The inductive invariant holds before run().
LEMMA InvInit == Init => IInv
  <1> SUFFICES ASSUME Init PROVE IInv
    OBVIOUS
  <1> USE DEF Init
  <1>1. TypeOK
    <2>1. heads \in [Requests -> Seq(Lines)]
      OBVIOUS
    <2>2. rc \in [Requests -> Lines] /\ outcome \in [Requests -> Lines \cup {"none"}]
      BY DEF Lines
    <2> QED
      BY <2>1, <2>2 DEF TypeOK
  <1>2. Live = {}
    BY DEF Live
  <1>3. CountInv
    BY <1>2, FS_EmptySet DEF CountInv, ReturnsAfterRequests, Requests
  <1>4. AnswerInv
    BY DEF AnswerInv, Answering, Silent
  <1> QED
    BY <1>1, <1>3, <1>4 DEF IInv, DeletedOnce

\* So it always holds.
LEMMA Inductive == Spec => []IInv
  BY InvInit, InvStep, PTL DEF Spec

\* activeRequests_ is the number of threads between accept and their end, so run()
\* returns when there is none, and never under one.
THEOREM RestRequestsCounted == Spec => []RequestsCounted
  <1>1. IInv => RequestsCounted
    BY DEF IInv, CountInv, RequestsCounted
  <1> QED
    BY <1>1, Inductive, PTL

\* Every client that stays gets one response (two for OPTIONS), and its status line is
\* the outcome of the request unless an event was sent before, or a POST failed
\* because the asset exists.
THEOREM RestAnsweredOnce == Spec => []AnsweredOnce
  <1>1. IInv => AnsweredOnce
    BY DEF IInv, AnswerInv, Answering, AnsweredOnce, OneResponse, StatusTellsOutcome, Tells
  <1> QED
    BY <1>1, Inductive, PTL

\* However requests for an asset overlap, what was created is there or was reported
\* deleted once.
THEOREM RestDeletedOnce == Spec => []DeletedOnce
  <1>1. IInv => DeletedOnce
    BY DEF IInv
  <1> QED
    BY <1>1, Inductive, PTL
=============================================================================
