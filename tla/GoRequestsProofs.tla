--------------------------- MODULE GoRequestsProofs ---------------------------
(***************************************************************************)
(* The two transports of the Go server authorize and answer alike, for any *)
(* tokens, requests, slots, handlers and applications, and whatever the    *)
(* conversions of values make of them.                                     *)
(*                                                                         *)
(* An endpoint is a function of its request and of the server's state, and *)
(* nothing of that state changes while an answer is on its way (Waiting).  *)
(* What is left is about the endpoints: each of them reaches its handler   *)
(* through InvokeHandler only, which checks the token, and what the two    *)
(* transports make of the handler's result is the same up to the table of  *)
(* status codes; and the path of a REST request gives the oid back that    *)
(* was put into it, if it has no empty segment (OidKept).                  *)
(***************************************************************************)
EXTENDS GoRequests, TLAPS

\* A token that lets its bearer have a handler of this kind run
Permits(token, kind) ==
    \/ validator = "off"
    \/ /\ token.present /\ token.claims /\ (validator = "signature" => token.signed)
       /\ kind \notin refused
       /\ \E s \in token.scopes :
             s.name \in catenaScopes /\ (kind \in {"SetValue", "ExecuteCommand"} => s.w)

\* What may have run for a request
MayHaveRun(ran, q) ==
    ran # <<>> =>
        ran[2] = q.slot /\ <<ran[1], q.slot>> \in handlers /\ Permits(q.token, ran[1])

\* What may be answered to a request
Sound(answer, q) == (answer.detail => program.dev) /\ MayHaveRun(answer.ran, q)

\* The inductive invariant: while an answer is on its way nothing else happens, and the
\* requests are those of a program
Waiting == program \in Programs /\ (validator \notin Validators => last = Silence)
IInv == Waiting /\ TransportsAgree /\ NoHandlerWithoutScope

-----------------------------------------------------------------------------
(* Authorization *)

\* A handler is called only through Invoke, and Invoke lets pass only what is permitted.
LEMMA InvokeChecks ==
    ASSUME NEW kind, NEW write \in BOOLEAN, NEW token, NEW slot,
           write <=> kind \in {"SetValue", "ExecuteCommand"},
           Invoke(kind, write, token, <<kind, slot>> \in handlers) = StatusCodeOk
    PROVE  <<kind, slot>> \in handlers /\ Permits(token, kind)
  <1> DEFINE ctx == resolveHandlerContext(token)
             allowed == IF write THEN HasAnyWriteScope(ctx.value) ELSE HasAnyReadScope(ctx.value)
  <1>1. IsOk(ctx) /\ allowed /\ isAccessAllowed(kind) /\ <<kind, slot>> \in handlers
    BY DEF Invoke, IsOk, StatusCodeOk, StatusCodePermissionDenied, StatusCodeNotFound
  <1>2. CASE validator = "off"
    BY <1>1, <1>2 DEF Permits
  <1>3. CASE validator # "off"
    <2>1. token.present /\ validateJwt(token) /\ ctx = Reply(extractTokenScopes(token))
      BY <1>1, <1>3 DEF resolveHandlerContext, parseTransportContext, IsOk, ReplyError,
                        StatusCodeOk, StatusCodeUnauthenticated
    <2>2. token.claims /\ (validator = "signature" => token.signed)
      BY <2>1 DEF validateJwt, validateClaims, validateSignatureAndClaims
    <2>3. kind \notin refused
      BY <1>1, <1>3 DEF isAccessAllowed
    <2>4. ctx.value = extractTokenScopes(token)
      BY <2>1 DEF Reply
    <2>5. CASE write
      <3>1. extractTokenScopes(token).write \cap catenaScopes # {}
        BY <1>1, <2>4, <2>5 DEF HasAnyWriteScope
      <3>2. PICK s \in {x \in token.scopes : x.w} : s.name \in catenaScopes
        BY <3>1 DEF extractTokenScopes
      <3>3. s \in token.scopes /\ s.w
        BY <3>2
      <3> QED
        BY <1>1, <2>1, <2>2, <2>3, <3>2, <3>3 DEF Permits
    <2>6. CASE ~write
      <3>1. extractTokenScopes(token).read \cap catenaScopes # {}
        BY <1>1, <2>4, <2>6 DEF HasAnyReadScope
      <3>2. PICK s \in token.scopes : s.name \in catenaScopes
        BY <3>1 DEF extractTokenScopes
      <3> QED
        BY <1>1, <2>1, <2>2, <2>3, <2>6, <3>2 DEF Permits
    <2> QED
      BY <2>5, <2>6
  <1> QED
    BY <1>2, <1>3

\* The slot of a request that is not refused is the one it names, neither cut nor wrapped.
LEMMA SlotKept == ASSUME NEW q, IsOk(ValidateSlot(q.slot)) PROVE SlotOf(q) = q.slot
  BY DEF SlotOf, ValidateSlot, IsOk, Reply, ReplyError, StatusCodeOk, StatusCodeInvalidArgument

\* A result of an endpoint of the server
IsResult(r) == r = [code |-> r.code, ran |-> r.ran, value |-> r.value]
Checked(r, q) == IsResult(r) /\ MayHaveRun(r.ran, q)

\* What InvokeHandler yields: a result for which only the handler that may run has run.
LEMMA HandlerChecked ==
    ASSUME NEW kind, NEW q, NEW args, NEW r, IsOk(ValidateSlot(q.slot))
    PROVE  /\ kind \notin {"SetValue", "ExecuteCommand"} =>
                 Checked(InvokeHandler(kind, FALSE, SlotOf(q), q.token, args, r), q)
           /\ kind \in {"SetValue", "ExecuteCommand"} =>
                 Checked(InvokeHandler(kind, TRUE, SlotOf(q), q.token, args, r), q)
  <1> SUFFICES ASSUME NEW write \in BOOLEAN, write <=> kind \in {"SetValue", "ExecuteCommand"}
               PROVE  Checked(InvokeHandler(kind, write, SlotOf(q), q.token, args, r), q)
    OBVIOUS
  <1> DEFINE code == Invoke(kind, write, q.token, <<kind, q.slot>> \in handlers)
  <1>1. CASE code = StatusCodeOk
    <2>1. <<kind, q.slot>> \in handlers /\ Permits(q.token, kind)
      BY <1>1, InvokeChecks
    <2>2. InvokeHandler(kind, write, SlotOf(q), q.token, args, r)
             = [code |-> r.code, ran |-> <<kind, q.slot, args>>, value |-> r.value]
      BY <1>1, SlotKept DEF InvokeHandler, Run
    <2> QED
      BY <2>1, <2>2 DEF Checked, IsResult, MayHaveRun
  <1>2. CASE code # StatusCodeOk
    BY <1>2, SlotKept DEF InvokeHandler, NotRun, Checked, IsResult, MayHaveRun
  <1> QED
    BY <1>1, <1>2

\* Every handler is called that way.
LEMMA HandlersChecked ==
    ASSUME NEW q, IsOk(ValidateSlot(q.slot))
    PROVE  /\ Checked(InvokeGetDeviceHandler(SlotOf(q), q.token, q.h), q)
           /\ \A oid : Checked(InvokeGetValueHandler(SlotOf(q), oid, q.token, q.h), q)
           /\ \A oid : Checked(InvokeGetAssetHandler(SlotOf(q), oid, q.token, q.h, q.asset), q)
           /\ \A oid, args : Checked(InvokeExecuteCommandHandler(SlotOf(q), oid, q.token, q.h, args), q)
           /\ \A oid, args : Checked(InvokeSetValueHandler(SlotOf(q), oid, q.token, q.h, args), q)
           /\ \A oid : Checked(InvokeParamInfoHandler(SlotOf(q), oid, q.token, q.h, q.recursive), q)
  <1>0. \A kind, args, r : kind \notin {"SetValue", "ExecuteCommand"} =>
           Checked(InvokeHandler(kind, FALSE, SlotOf(q), q.token, args, r), q)
    BY HandlerChecked
  <1>1. Checked(InvokeGetDeviceHandler(SlotOf(q), q.token, q.h), q)
    BY <1>0 DEF InvokeGetDeviceHandler
  <1>2. ASSUME NEW oid PROVE Checked(InvokeGetValueHandler(SlotOf(q), oid, q.token, q.h), q)
    BY <1>0 DEF InvokeGetValueHandler
  <1>3. ASSUME NEW oid PROVE Checked(InvokeGetAssetHandler(SlotOf(q), oid, q.token, q.h, q.asset), q)
    BY <1>0 DEF InvokeGetAssetHandler
  <1>4. ASSUME NEW oid, NEW args
        PROVE  Checked(InvokeExecuteCommandHandler(SlotOf(q), oid, q.token, q.h, args), q)
    BY HandlerChecked DEF InvokeExecuteCommandHandler
  <1>5. ASSUME NEW oid, NEW args
        PROVE  Checked(InvokeSetValueHandler(SlotOf(q), oid, q.token, q.h, args), q)
    BY HandlerChecked DEF InvokeSetValueHandler
  <1>6. ASSUME NEW oid PROVE Checked(InvokeParamInfoHandler(SlotOf(q), oid, q.token, q.h, q.recursive), q)
    BY <1>0 DEF InvokeParamInfoHandler
  <1> QED
    BY <1>1, <1>2, <1>3, <1>4, <1>5, <1>6

\* What runs no handler is checked, and what is done to a result does not change what has run.
LEMMA NothingRan ==
    ASSUME NEW q
    PROVE  /\ \A code : Checked(NotRun(code), q)
           /\ Checked(GetSlots(q.token), q) /\ Checked(RegisterTransportConnection(q.token), q)
           /\ \A r, code : Checked(r, q) => Checked([r EXCEPT !.code = code], q)
           /\ \A r, value : Checked(r, q) => Checked([r EXCEPT !.value = value], q)
  <1>1. \A code : Checked(NotRun(code), q)
    BY DEF Checked, IsResult, NotRun, MayHaveRun
  <1>2. ASSUME NEW r, NEW x, Checked(r, q)
        PROVE  Checked([r EXCEPT !.code = x], q) /\ Checked([r EXCEPT !.value = x], q)
    <2>1. r = [code |-> r.code, ran |-> r.ran, value |-> r.value]
      BY <1>2 DEF Checked, IsResult
    <2>2. /\ [r EXCEPT !.code = x] = [code |-> x, ran |-> r.ran, value |-> r.value]
          /\ [r EXCEPT !.value = x] = [code |-> r.code, ran |-> r.ran, value |-> x]
      BY <2>1
    <2> QED
      BY <1>2, <2>2 DEF Checked, IsResult
  <1>3. Checked(GetSlots(q.token), q)
    BY <1>1, <1>2 DEF GetSlots
  <1>4. Checked(RegisterTransportConnection(q.token), q)
    BY <1>1 DEF RegisterTransportConnection
  <1> QED
    BY <1>1, <1>2, <1>3, <1>4

\* An answer that a transport writes for a checked result is sound.
LEMMA WrittenSoundly ==
    ASSUME NEW q, NEW r, Checked(r, q)
    PROVE  /\ \A code, sent : Sound(GrpcError(r, code), q) /\ Sound(GrpcResult(r, sent), q)
           /\ \A code, sent : Sound([GrpcError(r, code) EXCEPT !.sent = sent], q)
           /\ \A m, garbled : Sound(GrpcMessage(r, m, garbled), q) /\ Sound(WriteProtoJSON(r, m, garbled), q)
           /\ \A status, sent : Sound(Answer(status, r, sent, FALSE), q)
           /\ \A sent : Sound(writeHTTPResult(r, sent), q)
           /\ Sound(writeHTTPStatusResultNoBody(r), q)
           /\ \A garbled : Sound(writeAssetResult(r, garbled), q) /\ Sound(writeDeviceResult(r, garbled), q)
           /\ \A code : Sound(writeHTTPStatusResult(code), q)
           /\ Sound(writeHTTPMethodNotAllowed, q)
  <1>1. /\ \A code, sent : Sound(GrpcError(r, code), q) /\ Sound(GrpcResult(r, sent), q)
        /\ \A code, sent : Sound([GrpcError(r, code) EXCEPT !.sent = sent], q)
    BY DEF Checked, Sound, GrpcError, GrpcResult, GrpcReply, Answer
  <1>2. /\ \A status, sent : Sound(Answer(status, r, sent, FALSE), q)
        /\ \A sent : Sound(writeHTTPResult(r, sent), q)
        /\ Sound(writeHTTPStatusResultNoBody(r), q)
    BY DEF Checked, Sound, writeHTTPResult, writeHTTPStatusResultNoBody, Answer
  <1>4. \A m, garbled : Sound(GrpcMessage(r, m, garbled), q) /\ Sound(WriteProtoJSON(r, m, garbled), q)
    BY <1>1, <1>2 DEF GrpcMessage, WriteProtoJSON
  <1>5. \A garbled : Sound(writeAssetResult(r, garbled), q) /\ Sound(writeDeviceResult(r, garbled), q)
    BY <1>2, <1>4 DEF writeAssetResult, writeDeviceResult
  <1>3. (\A code : Sound(writeHTTPStatusResult(code), q)) /\ Sound(writeHTTPMethodNotAllowed, q)
    BY DEF Sound, writeHTTPStatusResult, writeHTTPMethodNotAllowed, Answer, NotRun, MayHaveRun
  <1> QED
    BY <1>1, <1>2, <1>3, <1>4, <1>5

\* Every answer over gRPC is sound.
LEMMA GrpcSound == ASSUME NEW q PROVE Sound(catenaService(q), q)
  <1>1. CASE q.rpc = "GetPopulatedSlots"
    BY <1>1, NothingRan, WrittenSoundly DEF catenaService, GrpcGetPopulatedSlots
  <1>2. CASE q.rpc = "Connect"
    BY <1>2, NothingRan, WrittenSoundly DEF catenaService, GrpcConnect
  <1>3. CASE q.rpc \notin {"GetPopulatedSlots", "Connect"} /\ ~IsOk(ValidateSlot(q.slot))
    BY <1>3, NothingRan, WrittenSoundly DEF catenaService
  <1>4. CASE q.rpc \notin {"GetPopulatedSlots", "Connect"} /\ IsOk(ValidateSlot(q.slot))
    <2>0. \A code : Sound(GrpcError(NotRun(0), code), q)
      BY NothingRan, WrittenSoundly
    <2>1. Sound(GrpcDeviceRequest(q), q)
      BY <1>4, HandlersChecked, WrittenSoundly DEF GrpcDeviceRequest
    <2>2. Sound(GrpcGetValue(q), q)
      BY <1>4, HandlersChecked, WrittenSoundly DEF GrpcGetValue
    <2>3. Sound(GrpcSetValue(q), q)
      BY <1>4, <2>0, HandlersChecked, WrittenSoundly DEF GrpcSetValue
    <2>4. Sound(GrpcMultiSetValue(q), q)
      BY <1>4, <2>0, HandlersChecked, WrittenSoundly DEF GrpcMultiSetValue
    <2>5. Sound(GrpcExternalObjectRequest(q), q)
      BY <1>4, HandlersChecked, WrittenSoundly DEF GrpcExternalObjectRequest
    <2>6. Sound(GrpcExecuteCommand(q), q)
      BY <1>4, <2>0, HandlersChecked, WrittenSoundly DEF GrpcExecuteCommand
    <2>7. Sound(GrpcParamInfoRequest(q), q)
      <3> DEFINE r == InvokeParamInfoHandler(SlotOf(q), q.oid, q.token, q.h, q.recursive)
      <3>1. /\ \A code, sent : Sound(GrpcError(r, code), q) /\ Sound(GrpcResult(r, sent), q)
            /\ \A code, sent : Sound([GrpcError(r, code) EXCEPT !.sent = sent], q)
            /\ \A status, sent : Sound(Answer(status, r, sent, FALSE), q)
        BY <1>4, HandlersChecked, WrittenSoundly
      <3>2. IsOk(r) => \A sent : Sound(GrpcReply(r, sent), q)
        BY <3>1 DEF GrpcResult
      <3> HIDE DEF r
      <3> QED
        BY <3>1, <3>2 DEF GrpcParamInfoRequest, r
    <2> QED
      BY <1>4, <2>0, <2>1, <2>2, <2>3, <2>4, <2>5, <2>6, <2>7 DEF catenaService
  <1> QED
    BY <1>1, <1>2, <1>3, <1>4

\* Every answer over REST is sound.
LEMMA RestSound == ASSUME NEW q PROVE Sound(registerRoutes(q), q)
  <1>0. (\A code : Sound(writeHTTPStatusResult(code), q)) /\ Sound(writeHTTPMethodNotAllowed, q)
    BY NothingRan, WrittenSoundly
  <1>1. Sound(handleGetPopulatedSlots(q), q)
    BY NothingRan, WrittenSoundly DEF handleGetPopulatedSlots
  <1>2. Sound(handleConnect(q), q)
    BY <1>0, NothingRan, WrittenSoundly DEF handleConnect
  <1>3. ASSUME IsOk(ValidateSlot(q.slot))
        PROVE  /\ Sound(handleDevice(q), q) /\ Sound(handleValueEndpoint(q), q)
               /\ Sound(handleValuesEndpoint(q), q) /\ Sound(handleAssetEndpoint(q), q)
               /\ Sound(handleCommandEndpoint(q), q) /\ Sound(handleParamInfoEndpoint(q), q)
    <2>1. Sound(handleDevice(q), q)
      BY <1>3, HandlersChecked, WrittenSoundly DEF handleDevice
    <2>2. Sound(handleValueEndpoint(q), q)
      <3>1. \A m : Sound(WriteProtoJSON(InvokeGetValueHandler(SlotOf(q), PathParts(q), q.token, q.h),
                                      m, q.h.garbled), q)
        BY <1>3, HandlersChecked, WrittenSoundly
      <3>2. \A args : Sound(writeHTTPStatusResultNoBody(
                               InvokeSetValueHandler(SlotOf(q), PathParts(q), q.token, q.h, args)), q)
        BY <1>3, HandlersChecked, WrittenSoundly
      <3>3. CASE q.method = "GET"
        BY <3>1, <3>3 DEF handleValueEndpoint
      <3>4. CASE q.method = "PUT"
        BY <1>0, <3>2, <3>4 DEF handleValueEndpoint
      <3>5. CASE q.method \notin {"GET", "PUT"}
        BY <1>0, <3>5 DEF handleValueEndpoint
      <3> QED
        BY <3>3, <3>4, <3>5
    <2>3. Sound(handleValuesEndpoint(q), q)
      <3>1. \A args : Sound(writeHTTPStatusResultNoBody(
                               InvokeSetValueHandler(SlotOf(q), q.oid, q.token, q.h, args)), q)
        BY <1>3, HandlersChecked, WrittenSoundly
      <3> QED
        BY <1>0, <3>1 DEF handleValuesEndpoint
    <2>4. Sound(handleAssetEndpoint(q), q)
      <3> DEFINE r == InvokeGetAssetHandler(SlotOf(q), PathParts(q), q.token, q.h, q.asset)
      <3>1. Checked(r, q)
        BY <1>3, HandlersChecked
      <3>2. (\A sent : Sound(writeHTTPResult(r, sent), q)) /\ Sound(writeAssetResult(r, q.h.garbled), q)
        BY <3>1, WrittenSoundly
      <3>3. \A code, sent : Sound(writeHTTPResult([r EXCEPT !.code = code], sent), q)
        BY <3>1, NothingRan, WrittenSoundly
      <3>4. \A value : Sound(writeAssetResult([r EXCEPT !.value = value], q.h.garbled), q)
        BY <3>1, NothingRan, WrittenSoundly
      <3> HIDE DEF r
      <3> QED
        BY <1>0, <3>2, <3>3, <3>4 DEF handleAssetEndpoint, r
    <2>5. Sound(handleCommandEndpoint(q), q)
      <3> DEFINE r(args) == InvokeExecuteCommandHandler(SlotOf(q), PathParts(q), q.token, q.h, args)
      <3>1. \A args, m : /\ Sound(writeHTTPResult(r(args), <<m>>), q)
                         /\ Sound(WriteProtoJSON(r(args), m, q.h.garbled), q)
        BY <1>3, HandlersChecked, WrittenSoundly
      <3> QED
        BY <1>0, <3>1 DEF handleCommandEndpoint
    <2>6. Sound(handleParamInfoEndpoint(q), q)
      <3> DEFINE r(oid) == InvokeParamInfoHandler(SlotOf(q), oid, q.token, q.h, q.recursive)
      <3>1. \A oid : Checked(r(oid), q)
        BY <1>3, HandlersChecked
      <3> HIDE DEF r
      <3>2. \A oid, sent : Sound(writeHTTPResult(r(oid), sent), q)
        BY <3>1, WrittenSoundly
      <3>3. \A oid, code, sent : Sound(writeHTTPResult([r(oid) EXCEPT !.code = code], sent), q)
        BY <3>1, NothingRan, WrittenSoundly
      <3>4. \A oid : Sound(writeParamInfoStream(r(oid), q.h.garbled), q)
        BY <3>2 DEF writeParamInfoStream
      <3>5. \A oid, m : Sound(WriteProtoJSON(r(oid), m, q.h.garbled), q)
        BY <3>1, WrittenSoundly
      <3> QED
        BY <1>0, <3>2, <3>3, <3>4, <3>5 DEF handleParamInfoEndpoint, r
    <2> QED
      BY <2>1, <2>2, <2>3, <2>4, <2>5, <2>6
  <1>4. Sound(fallbackHandler(q), q) /\ Sound(Answer(301, NotRun(0), <<>>, FALSE), q)
    BY <1>0, NothingRan, WrittenSoundly DEF fallbackHandler
  <1>5. CASE q.path \in {"devices", "connect", "health", "base", "base/", "fallback"}
    BY <1>0, <1>1, <1>2, <1>4, <1>5 DEF registerRoutes
  <1>6. CASE /\ q.path \notin {"devices", "connect", "health", "base", "base/", "fallback"}
             /\ ~IsOk(ValidateSlot(q.slot))
    BY <1>0, <1>4, <1>6 DEF registerRoutes
  <1>7. CASE /\ q.path \notin {"devices", "connect", "health", "base", "base/", "fallback"}
             /\ IsOk(ValidateSlot(q.slot))
    BY <1>0, <1>3, <1>4, <1>7 DEF registerRoutes
  <1> QED
    BY <1>5, <1>6, <1>7

-----------------------------------------------------------------------------
(* Agreement *)

\* An answer over REST says what one over gRPC does; a success without a body is 204.
SameOutcome(rest, grpc, set) ==
    /\ rest.status = IF set /\ grpc.status = 0 THEN 204 ELSE ToHTTPStatus(grpc.status)
    /\ rest.ran = grpc.ran
Alike(rest, grpc, set) == SameOutcome(rest, grpc, set) /\ rest.sent = grpc.sent
\* A device is sent as its JSON.
AlikeDevices(rest, grpc) ==
    SameOutcome(rest, grpc, FALSE) /\ rest.sent = [i \in DOMAIN grpc.sent |-> DeviceMessage(grpc.sent[i])]

\* A code that gRPC does not know becomes Unknown, which is the 500 that it is over REST.
LEMMA StatusTable ==
    /\ \A code : ToHTTPStatus(ToGRPCCode(code)) = ToHTTPStatus(code)
    /\ \A code : code # 0 => ToGRPCCode(code) # 0
    /\ ToHTTPStatus(0) = 200 /\ ToHTTPStatus(13) = 500
  <1>1. ASSUME NEW code, code \notin 0..16
        PROVE  ToHTTPStatus(code) = 500
    BY <1>1 DEF ToHTTPStatus
  <1>2. ToHTTPStatus(2) = 500 /\ ToHTTPStatus(0) = 200 /\ ToHTTPStatus(13) = 500
    BY DEF ToHTTPStatus
  <1> QED
    BY <1>1, <1>2 DEF ToGRPCCode

\* The two ways to write the result of an endpoint agree, and so do the two ways to refuse.
LEMMA WrittenAlike ==
    /\ \A r, sent : Alike(writeHTTPResult(r, sent), GrpcResult(r, sent), FALSE)
    /\ \A r : Alike(writeHTTPStatusResultNoBody(r), GrpcResult(r, <<>>), TRUE)
    /\ \A r, m, garbled : Alike(WriteProtoJSON(r, m, garbled), GrpcMessage(r, m, garbled), FALSE)
    /\ Alike(writeHTTPStatusResult(StatusCodeInvalidArgument),
             GrpcError(NotRun(0), StatusCodeInvalidArgument), FALSE)
    /\ Alike(writeHTTPStatusResult(StatusCodeInvalidArgument),
             GrpcError(NotRun(0), StatusCodeInvalidArgument), TRUE)
  <1>1. ASSUME NEW r, NEW sent
        PROVE  /\ Alike(writeHTTPResult(r, sent), GrpcResult(r, sent), FALSE)
               /\ Alike(writeHTTPStatusResultNoBody(r), GrpcResult(r, <<>>), TRUE)
    <2>1. CASE IsOk(r)
      BY <2>1, StatusTable DEF Alike, SameOutcome, writeHTTPResult, writeHTTPStatusResultNoBody, GrpcResult,
                               GrpcReply, Answer, IsOk, StatusCodeOk
    <2>2. CASE ~IsOk(r)
      BY <2>2, StatusTable DEF Alike, SameOutcome, writeHTTPResult, writeHTTPStatusResultNoBody, GrpcResult,
                               GrpcError, Answer, IsOk, StatusCodeOk
    <2> QED
      BY <2>1, <2>2
  <1>2. ASSUME NEW set \in BOOLEAN
        PROVE  Alike(writeHTTPStatusResult(StatusCodeInvalidArgument),
                     GrpcError(NotRun(0), StatusCodeInvalidArgument), set)
    BY StatusTable DEF Alike, SameOutcome, writeHTTPStatusResult, GrpcError, Answer, NotRun, StatusCodeInvalidArgument
  <1>3. ASSUME NEW r, NEW m, NEW garbled
        PROVE  Alike(WriteProtoJSON(r, m, garbled), GrpcMessage(r, m, garbled), FALSE)
    <2>1. Alike(Answer(500, r, <<>>, FALSE), Answer(StatusCodeInternal, r, <<>>, FALSE), FALSE)
      BY StatusTable DEF Alike, SameOutcome, Answer, StatusCodeInternal
    <2> QED
      BY <1>1, <2>1 DEF WriteProtoJSON, GrpcMessage
  <1> QED
    BY <1>1, <1>2, <1>3

\* What is appended to a sequence is its last element, and the rest is its front.
LEMMA AppendedLast ==
    ASSUME NEW S, NEW s \in Seq(S), NEW e
    PROVE  /\ Append(s, e) \in Seq(S \cup {e}) /\ Append(s, e) # <<>>
           /\ Append(s, e)[Len(Append(s, e))] = e /\ Front(Append(s, e)) = s
           /\ \A i \in DOMAIN Append(s, e) :
                 Append(s, e)[i] = e \/ (i \in DOMAIN s /\ Append(s, e)[i] = s[i])
  <1> DEFINE t == Append(s, e)
  <1>0. s \in Seq(S \cup {e})
    OBVIOUS
  <1>1. t \in Seq(S \cup {e}) /\ Len(t) = Len(s) + 1 /\ t[Len(s) + 1] = e
    BY <1>0
  <1>2. \A i \in 1..Len(s) : t[i] = s[i]
    OBVIOUS
  <1>3. t # <<>>
    BY <1>1
  <1>4. Front(t) = s
    <2>1. Len(t) - 1 = Len(s)
      BY <1>1
    <2>2. SubSeq(t, 1, Len(s)) = s
      BY <1>1, <1>2
    <2> QED
      BY <2>1, <2>2 DEF Front
  <1>5. ASSUME NEW i \in DOMAIN t PROVE t[i] = e \/ (i \in DOMAIN s /\ t[i] = s[i])
    BY <1>1, <1>2
  <1> QED
    BY <1>1, <1>3, <1>4, <1>5

\* A sequence that is not empty has a last element.
LEMMA HasLast == ASSUME NEW S, NEW s \in Seq(S), s # <<>> PROVE Len(s) \in DOMAIN s
  OBVIOUS

\* The path of a request gives the oid back that was put into it, and tells a stream, if no
\* segment is empty: nothing is trimmed then, and the mux does not redirect.
LEMMA OidKept ==
    ASSUME NEW q, NEW S, q.oid \in Seq(S), "" \notin ToSet(q.oid)
    PROVE  /\ ~Redirected(q)
           /\ q.path # "param-info" => PathParts(q) = q.oid
           /\ q.path = "param-info" /\ q.stream =>
                 /\ PathParts(q) # <<>> /\ PathParts(q)[Len(PathParts(q))] = "stream"
                 /\ Front(PathParts(q)) = q.oid
  <1>1. \A i \in DOMAIN q.oid : q.oid[i] # ""
    BY DEF ToSet
  <1>2. /\ Append(q.oid, "stream") \in Seq(S \cup {"stream"}) /\ Append(q.oid, "stream") # <<>>
        /\ Append(q.oid, "stream")[Len(Append(q.oid, "stream"))] = "stream"
        /\ Front(Append(q.oid, "stream")) = q.oid
        /\ \A i \in DOMAIN Append(q.oid, "stream") :
              Append(q.oid, "stream")[i] = "stream" \/ (i \in DOMAIN q.oid /\ Append(q.oid, "stream")[i] = q.oid[i])
    <2> DEFINE oid == q.oid
    <2>1. \A e : /\ Append(oid, e) \in Seq(S \cup {e}) /\ Append(oid, e) # <<>>
                 /\ Append(oid, e)[Len(Append(oid, e))] = e /\ Front(Append(oid, e)) = oid
                 /\ \A i \in DOMAIN Append(oid, e) :
                       Append(oid, e)[i] = e \/ (i \in DOMAIN oid /\ Append(oid, e)[i] = oid[i])
      <3>1. oid \in Seq(S)
        OBVIOUS
      <3> HIDE DEF oid
      <3> QED
        BY <3>1, AppendedLast
    <2> QED
      BY <2>1, Zenon
  <1>3. \A i \in DOMAIN Segments(q) : Segments(q)[i] # ""
    <2>1. CASE q.path = "param-info" /\ q.stream
      BY <1>1, <1>2, <2>1, Zenon DEF Segments
    <2>2. CASE ~(q.path = "param-info" /\ q.stream)
      BY <1>1, <2>2, Zenon DEF Segments
    <2> QED
      BY <2>1, <2>2
  <1>4. ~Redirected(q)
    BY <1>3 DEF Redirected
  <1>5. PathParts(q) = Segments(q)
    <2>1. Segments(q) \in Seq(S) \/ Segments(q) \in Seq(S \cup {"stream"})
      BY <1>2 DEF Segments
    <2>2. Segments(q) # <<>> => Len(Segments(q)) \in DOMAIN Segments(q)
      BY <2>1, HasLast
    <2> QED
      BY <1>3, <2>2 DEF PathParts
  <1>6. q.path # "param-info" => PathParts(q) = q.oid
    BY <1>5 DEF Segments
  <1>7. q.path = "param-info" /\ q.stream => PathParts(q) = Append(q.oid, "stream")
    BY <1>5 DEF Segments
  <1> QED
    BY <1>2, <1>4, <1>6, <1>7

\* A found param has an entry with a response: the stream is complete over either transport.
LEMMA InfosPresent ==
    ASSUME NEW q, ~q.h.null,
           IsOk(InvokeParamInfoHandler(SlotOf(q), q.oid, q.token, q.h, q.recursive))
    PROVE  LET infos == InvokeParamInfoHandler(SlotOf(q), q.oid, q.token, q.h, q.recursive).value[2]
           IN  \A i \in DOMAIN infos : infos[i] # nil
  <1> DEFINE info == InfosForRequest(Params, q.oid, q.recursive)
             found == [i \in DOMAIN info.value |-> <<"info", info.value[i]>>]
             r == InvokeParamInfoHandler(SlotOf(q), q.oid, q.token, q.h, q.recursive)
  <1>1. r.value = <<"infos", found>>
    BY DEF InvokeParamInfoHandler, InvokeHandler, Run, NotRun, IsOk, Reply, ReplyError, StatusCodeOk
  <1>2. r.value[2] = found
    BY <1>1
  <1>3. \A i \in DOMAIN found : found[i] # nil
    BY DEF nil
  <1> QED
    BY <1>2, <1>3

\* No message is the JSON of no device.
LEMMA NoneSent == [i \in DOMAIN <<>> |-> DeviceMessage(<<>>[i])] = <<>>
  OBVIOUS

\* A device and its JSON: one message, or none.
LEMMA DeviceAlike ==
    ASSUME NEW r, NEW garbled, IsOk(r) => r.value # nil
    PROVE  AlikeDevices(writeDeviceResult(r, garbled), GrpcMessage(r, r.value, garbled))
  <1>1. CASE ~IsOk(r)
    <2>1. writeDeviceResult(r, garbled) = writeHTTPResult(r, <<>>) /\ GrpcMessage(r, r.value, garbled) = GrpcResult(r, <<>>)
      BY <1>1 DEF writeDeviceResult, GrpcMessage, writeHTTPResult, GrpcResult
    <2>2. GrpcResult(r, <<>>).sent = <<>>
      BY <1>1 DEF GrpcResult, GrpcError, Answer
    <2> QED
      <3>1. Alike(writeHTTPResult(r, <<>>), GrpcResult(r, <<>>), FALSE)
        BY WrittenAlike
      <3> QED
        BY <2>1, <2>2, <3>1, NoneSent, Zenon DEF AlikeDevices, Alike
  <1>2. CASE IsOk(r) /\ garbled
    <2>1. GrpcMessage(r, r.value, garbled) = Answer(StatusCodeInternal, r, <<>>, FALSE)
      BY <1>2 DEF GrpcMessage
    <2>2. DeviceMessage(r.value) # nil
      BY DEF DeviceMessage, nil
    <2>3. writeDeviceResult(r, garbled) = Answer(500, r, <<>>, FALSE)
      BY <1>2, <2>2 DEF writeDeviceResult, WriteProtoJSON
    <2> QED
      BY <2>1, <2>3, StatusTable, NoneSent DEF AlikeDevices, SameOutcome, Answer, StatusCodeInternal
  <1>3. CASE IsOk(r) /\ ~garbled
    <2>1. GrpcMessage(r, r.value, garbled) = Answer(0, r, <<r.value>>, FALSE)
      BY <1>3 DEF GrpcMessage, GrpcResult, GrpcReply, StatusCodeOk
    <2>2. writeDeviceResult(r, garbled) = Answer(200, r, <<DeviceMessage(r.value)>>, FALSE)
      BY <1>3, StatusTable DEF writeDeviceResult, WriteProtoJSON, writeHTTPResult, IsOk, StatusCodeOk
    <2>3. [i \in DOMAIN <<r.value>> |-> DeviceMessage(<<r.value>>[i])] = <<DeviceMessage(r.value)>>
      OBVIOUS
    <2> QED
      BY <2>1, <2>2, <2>3, StatusTable DEF AlikeDevices, SameOutcome, Answer
  <1> QED
    BY <1>1, <1>2, <1>3

\* The same request is answered alike: one step for each call of the API.
LEMMA AnsweredAlike ==
    ASSUME NEW q, NEW S, q.oid \in Seq(S), OfBothTransports(q), ~Differs(q)
    PROVE  IF q.rpc = "DeviceRequest" THEN AlikeDevices(registerRoutes(q), catenaService(q))
           ELSE Alike(registerRoutes(q), catenaService(q), q.rpc \in {"SetValue", "MultiSetValue"})
  <1> DEFINE set == q.rpc \in {"SetValue", "MultiSetValue"}
  <1>0. <<q.rpc, q.path, q.method>> \in Routes
    BY DEF OfBothTransports
  <1>a. q.rpc \notin {"GetPopulatedSlots", "DeviceRequest", "MultiSetValue", "Connect"} => "" \notin ToSet(q.oid)
    BY DEF Differs, LosesSlash
  <1>b. ~Redirected(q)
    <2>1. q.rpc \in {"GetPopulatedSlots", "DeviceRequest", "MultiSetValue", "Connect"} =>
             q.path \notin {"value", "asset", "command", "param-info"}
      BY <1>0 DEF Routes
    <2> QED
      BY <1>a, <2>1, OidKept DEF Redirected
  <1>1. CASE q.rpc = "GetPopulatedSlots"
    <2>1. q.path = "devices" /\ q.method = "GET" /\ set = FALSE
      BY <1>0, <1>1 DEF Routes
    <2>2. registerRoutes(q) = handleGetPopulatedSlots(q) /\ catenaService(q) = GrpcGetPopulatedSlots(q)
      BY <1>1, <2>1 DEF registerRoutes, catenaService
    <2> QED
      BY <1>1, <2>1, <2>2, WrittenAlike DEF handleGetPopulatedSlots, GrpcGetPopulatedSlots
  <1>2. CASE q.rpc = "Connect"
    <2>1. q.path = "connect" /\ q.method = "GET" /\ set = FALSE
      BY <1>0, <1>2 DEF Routes
    <2>2. registerRoutes(q) = handleConnect(q) /\ catenaService(q) = GrpcConnect(q)
      BY <1>2, <2>1 DEF registerRoutes, catenaService
    <2> QED
      BY <1>2, <2>1, <2>2, WrittenAlike DEF handleConnect, GrpcConnect
  <1>3. CASE q.rpc \notin {"GetPopulatedSlots", "Connect"} /\ ~IsOk(ValidateSlot(q.slot))
    <2>1. q.path \notin {"devices", "connect", "health", "base", "base/", "fallback"} /\ set \in BOOLEAN
      BY <1>0, <1>3 DEF Routes
    <2>2. /\ registerRoutes(q) = writeHTTPStatusResult(StatusCodeInvalidArgument)
          /\ catenaService(q) = GrpcError(NotRun(0), StatusCodeInvalidArgument)
      BY <1>3, <1>b, <2>1 DEF registerRoutes, catenaService
    <2>3. set = TRUE \/ set = FALSE
      OBVIOUS
    <2>4. /\ writeHTTPStatusResult(StatusCodeInvalidArgument).sent = <<>>
          /\ GrpcError(NotRun(0), StatusCodeInvalidArgument).sent = <<>>
      BY DEF writeHTTPStatusResult, GrpcError, Answer
    <2>6. AlikeDevices(writeHTTPStatusResult(StatusCodeInvalidArgument), GrpcError(NotRun(0), StatusCodeInvalidArgument))
      BY <2>4, WrittenAlike, NoneSent DEF AlikeDevices, Alike
    <2> QED
      BY <2>2, <2>3, <2>6, WrittenAlike
  <1>4. CASE IsOk(ValidateSlot(q.slot)) /\ q.rpc = "DeviceRequest"
    <2> DEFINE r == InvokeGetDeviceHandler(SlotOf(q), q.token, q.h)
    <2>1. q.path = "slot" /\ q.method = "GET" /\ set = FALSE /\ ~q.h.null
      BY <1>0, <1>4 DEF Routes, Differs
    <2>2. registerRoutes(q) = handleDevice(q) /\ catenaService(q) = GrpcDeviceRequest(q)
      BY <1>4, <1>b, <2>1 DEF registerRoutes, catenaService
    <2>3. IsOk(r) => r.value # nil
      BY <2>1 DEF InvokeGetDeviceHandler, InvokeHandler, Run, NotRun, IsOk, Served, Reply,
                  ReplyError, nil, StatusCodeOk
    <2> QED
      BY <1>4, <2>2, <2>3, DeviceAlike DEF handleDevice, GrpcDeviceRequest
  <1>5. CASE IsOk(ValidateSlot(q.slot)) /\ q.rpc = "GetValue"
    <2>1. q.path = "value" /\ q.method = "GET" /\ set = FALSE
      BY <1>0, <1>5 DEF Routes
    <2>2. registerRoutes(q) = handleValueEndpoint(q) /\ catenaService(q) = GrpcGetValue(q)
      BY <1>5, <1>b, <2>1 DEF registerRoutes, catenaService
    <2>3. PathParts(q) = q.oid
      BY <1>5, <1>a, <2>1, OidKept
    <2> QED
      BY <1>5, <2>1, <2>2, <2>3, WrittenAlike DEF handleValueEndpoint, GrpcGetValue
  <1>6. CASE IsOk(ValidateSlot(q.slot)) /\ q.rpc = "SetValue"
    <2> DEFINE entries == FromProtos(<<q.body[2]>>)
    <2>1. q.path = "value" /\ q.method = "PUT" /\ set = TRUE /\ q.body[1] \in {"none", "value"}
      BY <1>0, <1>6 DEF Routes, OfBothTransports
    <2>2. registerRoutes(q) = handleValueEndpoint(q) /\ catenaService(q) = GrpcSetValue(q)
      BY <1>6, <1>b, <2>1 DEF registerRoutes, catenaService
    <2>0. PathParts(q) = q.oid
      BY <1>6, <1>a, <2>1, OidKept
    <2>3. CASE q.body[1] = "none"
      <3>1. ~IsOk(ReadRequestJSON(q))
        BY <2>3 DEF ReadRequestJSON, IsOk, ReplyError, StatusCodeOk, StatusCodeInvalidArgument
      <3>2. /\ handleValueEndpoint(q) = writeHTTPStatusResult(StatusCodeInvalidArgument)
            /\ GrpcSetValue(q) = GrpcError(NotRun(0), StatusCodeInvalidArgument)
        BY <2>1, <2>3, <3>1 DEF handleValueEndpoint, GrpcSetValue
      <3> QED
        BY <2>1, <2>2, <3>2, WrittenAlike
    <2>4. CASE q.body[1] = "value"
      <3>1. ReadRequestJSON(q) = Reply(q.body[2])
        BY <2>4 DEF ReadRequestJSON
      <3>2. IsOk(ReadRequestJSON(q)) /\ ReadRequestJSON(q).value = q.body[2]
        BY <3>1 DEF IsOk, Reply
      <3>3. handleValueEndpoint(q) =
               IF ~IsOk(entries) THEN writeHTTPStatusResult(StatusCodeInvalidArgument)
               ELSE writeHTTPStatusResultNoBody(InvokeSetValueHandler(SlotOf(q), q.oid, q.token, q.h, entries.value))
        BY <2>0, <2>1, <3>2 DEF handleValueEndpoint
      <3> QED
        BY <2>1, <2>2, <2>4, <3>3, WrittenAlike DEF GrpcSetValue
    <2> QED
      BY <2>1, <2>3, <2>4
  <1>7. CASE IsOk(ValidateSlot(q.slot)) /\ q.rpc = "MultiSetValue"
    <2>1. q.path = "values" /\ q.method = "PUT" /\ set = TRUE /\ q.body[1] = "values"
      BY <1>0, <1>7 DEF Routes, OfBothTransports
    <2>2. registerRoutes(q) = handleValuesEndpoint(q) /\ catenaService(q) = GrpcMultiSetValue(q)
      BY <1>7, <1>b, <2>1 DEF registerRoutes, catenaService
    <2> QED
      BY <2>1, <2>2, WrittenAlike DEF handleValuesEndpoint, GrpcMultiSetValue, ReadMultiSetValuesRequestJSON
  <1>8. CASE IsOk(ValidateSlot(q.slot)) /\ q.rpc = "ExternalObjectRequest"
    <2> DEFINE r == InvokeGetAssetHandler(SlotOf(q), q.oid, q.token, q.h, q.asset)
    <2>1. q.path = "asset" /\ q.method = "GET" /\ set = FALSE /\ q.compression = ""
      <3>1. q.path = "asset" /\ q.method = "GET" /\ set = FALSE
        BY <1>0, <1>8 DEF Routes
      <3>2. q.compression = ""
        BY <1>8, Zenon DEF Differs
      <3> QED
        BY <3>1, <3>2
    <2>2. registerRoutes(q) = handleAssetEndpoint(q) /\ catenaService(q) = GrpcExternalObjectRequest(q)
      BY <1>8, <1>b, <2>1 DEF registerRoutes, catenaService
    <2>0. PathParts(q) = q.oid
      BY <1>8, <1>a, <2>1, OidKept
    <2>6. handleAssetEndpoint(q) = IF ~IsOk(r) THEN writeHTTPResult(r, <<>>) ELSE writeAssetResult(r, q.h.garbled)
      BY <2>0, <2>1 DEF handleAssetEndpoint
    <2>7. GrpcExternalObjectRequest(q) =
             IF IsOk(r) /\ r.value = nil THEN GrpcError(r, StatusCodeInternal) ELSE GrpcMessage(r, r.value, q.h.garbled)
      BY DEF GrpcExternalObjectRequest
    <2> HIDE DEF r
    <2>3. CASE ~IsOk(r)
      <3>1. GrpcExternalObjectRequest(q) = GrpcResult(r, <<>>)
        BY <2>3, <2>7 DEF GrpcMessage, GrpcResult
      <3> QED
        BY <1>8, <2>1, <2>2, <2>3, <2>6, <3>1, WrittenAlike
    <2>4. CASE IsOk(r) /\ r.value # nil
      <3>1. handleAssetEndpoint(q) = WriteProtoJSON(r, r.value, q.h.garbled)
        BY <2>4, <2>6 DEF writeAssetResult
      <3> QED
        BY <1>8, <2>1, <2>2, <2>4, <2>7, <3>1, WrittenAlike
    <2>5. CASE IsOk(r) /\ r.value = nil
      <3>1. handleAssetEndpoint(q) = Answer(500, r, <<>>, FALSE)
        BY <2>5, <2>6 DEF writeAssetResult
      <3>2. GrpcExternalObjectRequest(q) = Answer(13, r, <<>>, program.dev)
        BY <2>5, <2>7 DEF GrpcError, ToGRPCCode, StatusCodeInternal
      <3>3. Alike(Answer(500, r, <<>>, FALSE), Answer(13, r, <<>>, program.dev), FALSE)
        BY StatusTable DEF Alike, SameOutcome, Answer
      <3> QED
        BY <1>8, <2>1, <2>2, <3>1, <3>2, <3>3
    <2> QED
      BY <2>3, <2>4, <2>5
  <1>9. CASE IsOk(ValidateSlot(q.slot)) /\ q.rpc = "ExecuteCommand"
    <2>1. /\ q.path = "command" /\ q.method = "POST" /\ set = FALSE
          /\ ~q.chunked /\ q.respond /\ q.body[1] \in {"none", "value"}
      BY <1>0, <1>9 DEF Routes, Differs, OfBothTransports
    <2>2. registerRoutes(q) = handleCommandEndpoint(q) /\ catenaService(q) = GrpcExecuteCommand(q)
      BY <1>9, <1>b, <2>1 DEF registerRoutes, catenaService
    <2> DEFINE payload == IF q.body[1] = "none" THEN Reply(nil) ELSE ProtoToNative(q.body[2])
               r == InvokeExecuteCommandHandler(SlotOf(q), q.oid, q.token, q.h, payload.value)
    <2>0. PathParts(q) = q.oid
      BY <1>9, <1>a, <2>1, OidKept
    <2>3. q.body[1] = "value" => IsOk(ReadRequestJSON(q)) /\ ReadRequestJSON(q).value = q.body[2]
      BY DEF ReadRequestJSON, IsOk, Reply
    <2>4. handleCommandEndpoint(q) =
             IF ~IsOk(payload) THEN writeHTTPStatusResult(StatusCodeInvalidArgument)
             ELSE WriteProtoJSON(r, r.value, q.h.garbled)
      BY <2>0, <2>1, <2>3 DEF handleCommandEndpoint
    <2>5. GrpcExecuteCommand(q) =
             IF ~IsOk(payload) THEN GrpcError(NotRun(0), StatusCodeInvalidArgument)
             ELSE GrpcMessage(r, r.value, q.h.garbled)
      BY DEF GrpcExecuteCommand
    <2> HIDE DEF payload, r
    <2> QED
      BY <1>9, <2>1, <2>2, <2>4, <2>5, WrittenAlike
  <1>10. CASE IsOk(ValidateSlot(q.slot)) /\ q.rpc = "ParamInfoRequest"
    <2> DEFINE r == InvokeParamInfoHandler(SlotOf(q), q.oid, q.token, q.h, q.recursive)
    <2>1. /\ q.path = "param-info" /\ q.method = "GET" /\ set = FALSE
          /\ q.stream /\ ~q.h.null /\ ~q.h.garbled
      BY <1>0, <1>10 DEF Routes, Differs
    <2>2. registerRoutes(q) = handleParamInfoEndpoint(q) /\ catenaService(q) = GrpcParamInfoRequest(q)
      BY <1>10, <1>b, <2>1 DEF registerRoutes, catenaService
    <2>0. /\ PathParts(q) # <<>> /\ PathParts(q)[Len(PathParts(q))] = "stream"
          /\ Front(PathParts(q)) = q.oid
      BY <1>10, <1>a, <2>1, OidKept
    <2>6. handleParamInfoEndpoint(q) =
             IF ~IsOk(r) THEN writeHTTPResult(r, <<>>)
             ELSE IF r.value[2] = <<>> THEN writeHTTPResult([r EXCEPT !.code = StatusCodeNotFound], <<>>)
             ELSE writeParamInfoStream(r, q.h.garbled)
      BY <2>0, <2>1 DEF handleParamInfoEndpoint
    <2>3. CASE ~IsOk(r)
      <3>1. handleParamInfoEndpoint(q) = writeHTTPResult(r, <<>>)
        BY <2>3, <2>6
      <3>2. GrpcParamInfoRequest(q) = GrpcResult(r, <<>>)
        BY <2>3 DEF GrpcParamInfoRequest, GrpcResult
      <3> QED
        BY <1>10, <2>1, <2>2, <3>1, <3>2, WrittenAlike
    <2>4. CASE IsOk(r) /\ r.value[2] = <<>>
      <3> DEFINE missing == [r EXCEPT !.code = StatusCodeNotFound]
      <3>1. handleParamInfoEndpoint(q) = writeHTTPResult(missing, <<>>)
        BY <2>4, <2>6
      <3>2. IsResult(r)
        BY <1>10, HandlersChecked DEF Checked
      <3>3. missing.code = StatusCodeNotFound /\ missing.ran = r.ran
        BY <3>2 DEF IsResult
      <3>4. GrpcParamInfoRequest(q) = GrpcResult(missing, <<>>)
        BY <2>4, <3>3 DEF GrpcParamInfoRequest, GrpcResult, GrpcError, Answer, IsOk, StatusCodeOk, StatusCodeNotFound
      <3> HIDE DEF missing
      <3> QED
        BY <1>10, <2>1, <2>2, <3>1, <3>4, WrittenAlike
    <2>5. CASE IsOk(r) /\ r.value[2] # <<>>
      <3>1. \A i \in DOMAIN r.value[2] : r.value[2][i] # nil
        BY <2>1, <2>5, InfosPresent
      <3> HIDE DEF r
      <3>2. handleParamInfoEndpoint(q) = writeHTTPResult(r, r.value[2])
        BY <2>1, <2>5, <2>6, <3>1 DEF writeParamInfoStream, r
      <3>3. GrpcParamInfoRequest(q) = GrpcResult(r, r.value[2])
        BY <2>1, <2>5, <3>1 DEF GrpcParamInfoRequest, GrpcResult, r
      <3> QED
        BY <1>10, <2>1, <2>2, <3>2, <3>3, WrittenAlike
    <2> QED
      BY <2>3, <2>4, <2>5
  <1> QED
    BY <1>0, <1>1, <1>2, <1>3, <1>4, <1>5, <1>6, <1>7, <1>8, <1>9, <1>10 DEF Routes

-----------------------------------------------------------------------------
(* The invariant *)

\* Nothing that the properties look at changes until the answer has arrived.
LEMMA NothingChanges ==
    ASSUME last' = last, program' = program, serverVars' = serverVars, IInv
    PROVE  IInv'
  BY DEF IInv, Waiting, TransportsAgree, NoHandlerWithoutScope, serverVars, Silence, Differs,
         OfBothTransports, LosesSlash, DeviceMessage

\* Nothing is wrong with no answer.
LEMMA SilenceSound == ASSUME last' = Silence, IInv, program' = program PROVE IInv'
  BY DEF IInv, Waiting, TransportsAgree, NoHandlerWithoutScope, Silence

\* A request is answered soundly and alike over both transports.
LEMMA RequestAnswered == ASSUME IInv, Request PROVE IInv'
  <1>1. PICK q \in program.requests, via \in {"REST", "gRPC"} :
           last' = [via |-> via, q |-> q, rest |-> registerRoutes(q), grpc |-> catenaService(q)]
    BY DEF Request
  <1>2. program' = program /\ serverVars' = serverVars /\ validator \in Validators
    BY DEF Request
  <1>3. validator' = validator /\ handlers' = handlers /\ refused' = refused
    BY <1>2 DEF serverVars
  <1>4. last'.q = q /\ last'.rest = registerRoutes(q) /\ last'.grpc = catenaService(q)
    BY <1>1
  <1>5. Waiting'
    BY <1>2, <1>3 DEF IInv, Waiting, Validators
  <1>6. TransportsAgree'
    <2>0. q.oid \in Seq(STRING)
      BY <1>1, ProgramsAssumption DEF IInv, Waiting
    <2>1. ASSUME OfBothTransports(q), ~Differs(q)
          PROVE  IF q.rpc = "DeviceRequest" THEN AlikeDevices(registerRoutes(q), catenaService(q))
                 ELSE Alike(registerRoutes(q), catenaService(q), q.rpc \in {"SetValue", "MultiSetValue"})
      BY <2>0, <2>1, AnsweredAlike
    <2> QED
      BY <1>4, <2>1 DEF TransportsAgree, Alike, AlikeDevices, SameOutcome
  <1>7. NoHandlerWithoutScope'
    <2>1. Sound(registerRoutes(q), q) /\ Sound(catenaService(q), q)
      BY GrpcSound, RestSound
    <2>2. ASSUME NEW answer, Sound(answer, q)
          PROVE  /\ answer.detail => program.dev
                 /\ answer.ran # <<>> =>
                      /\ answer.ran[2] = q.slot /\ <<answer.ran[1], q.slot>> \in handlers
                      /\ \/ validator = "off"
                         \/ /\ q.token.present /\ q.token.claims
                            /\ validator = "signature" => q.token.signed
                            /\ answer.ran[1] \notin refused
                            /\ \E s \in {x \in q.token.scopes : x.name \in catenaScopes} :
                                  answer.ran[1] \in {"SetValue", "ExecuteCommand"} => s.w
      BY <2>2 DEF Sound, MayHaveRun, Permits
    <2> QED
      BY <1>2, <1>3, <1>4, <2>1, <2>2 DEF NoHandlerWithoutScope
  <1> QED
    BY <1>5, <1>6, <1>7 DEF IInv

\* IInv is inductive.
THEOREM GoRequestsInvariant == Spec => []IInv
  <1>1. Init => IInv
    BY DEF Init, IInv, Waiting, TransportsAgree, NoHandlerWithoutScope, Silence
  <1>2. IInv /\ [Next]_vars => IInv'
    <2> SUFFICES ASSUME IInv, [Next]_vars PROVE IInv'
      OBVIOUS
    <2>1. CASE BuildNew \/ BuildWith \/ BuildOther
      BY <2>1, NothingChanges DEF BuildNew, BuildWith, BuildOther, Building
    <2>2. CASE NewServer
      <3>1. last = Silence /\ last' = last /\ program' = program
        BY <2>2 DEF NewServer, IInv, Waiting, Validators
      <3> QED
        BY <3>1, SilenceSound
    <2>3. CASE RegisterHandler
      BY <2>3, SilenceSound DEF RegisterHandler, Serving
    <2>4. CASE RegisterAccessHandler
      BY <2>4, SilenceSound DEF RegisterAccessHandler, Serving
    <2>5. CASE Request
      BY <2>5, RequestAnswered
    <2>6. CASE Answered
      BY <2>6, SilenceSound DEF Answered
    <2>7. CASE UNCHANGED vars
      BY <2>7, NothingChanges DEF vars
    <2> QED
      BY <2>1, <2>2, <2>3, <2>4, <2>5, <2>6, <2>7 DEF Next
  <1> QED
    BY <1>1, <1>2, PTL DEF Spec

\* The REST and the gRPC transport of the Go server answer the same request alike: with
\* equivalent status, having called the same handler with the same oid and arguments or none,
\* and with the same messages, a device as its JSON; but for the requests that Differs names.
\* For any requests, options, handlers, tokens and params.
THEOREM GoTransportsAgree == Spec => []TransportsAgree
  BY GoRequestsInvariant, PTL DEF IInv

\* Over either transport a handler runs only for the slot asked, and unless authorization is
\* off only for a valid token with a catena scope (with ":w" to set and to execute) that the
\* access handler does not refuse; errors tell details in dev mode only. For any requests,
\* options, handlers, tokens and params, and whatever the conversions of values yield.
THEOREM GoNoHandlerWithoutScope == Spec => []NoHandlerWithoutScope
  BY GoRequestsInvariant, PTL DEF IInv
=============================================================================
