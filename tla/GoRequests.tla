------------------------------ MODULE GoRequests ------------------------------
(***************************************************************************)
(* Single requests to the Go server: the two transports, authorization,    *)
(* the handlers of a slot, and the data they serve. An application builds  *)
(* params, creates the server and registers handlers; clients make         *)
(* requests. A request is answered in one step; to compare the transports, *)
(* the step records what either of them answers to the same request.       *)
(*                                                                         *)
(* The handlers are the application's: they answer with any of some codes, *)
(* or serve the device, which has the built param and one command. JWTs    *)
(* are read by a library: of a token only what the validation tests and    *)
(* the scopes remain. Streams of updates are in GoServer. How values are   *)
(* converted, params listed and a device written as JSON is a parameter    *)
(* here: who may do what does not depend on it. An oid is the sequence of  *)
(* its segments between slashes; "" is a segment too.                      *)
(***************************************************************************)
EXTENDS GoParams, FiniteSets

CONSTANTS Values,       \* native values an application builds params of
          BuildSubs,    \* params it adds as sub-params or serves as a command
          MaxBuilds,    \* bound on the calls of builder methods
          Slots,        \* slots for which handlers may be registered
          Programs,     \* what applications and clients do, see ProgramsAssumption
          InfosForRequest(_, _, _), \* paramInfosForRequest, see GoParamInfos
          DeviceToJSON(_, _)        \* MarshalDeviceJSON, see GoParamInfos

MaxUint16 == 2^16 - 1
Kinds == {"GetDevice", "GetValue", "SetValue", "GetAsset", "ExecuteCommand", "ParamInfo"}
Validators == {"off", "claims", "signature"}

\* A behaviour builds params or serves requests. A program has options of the server,
\* the slot of its handlers, what its access handler refuses, whether REST has a fallback
\* handler, and its clients' requests.
ASSUME ProgramsAssumption ==
    \A p \in Programs : /\ p.builds \in 0..MaxBuilds
                        /\ p.validators \subseteq Validators /\ p.dev \in BOOLEAN
                        /\ p.handlers \in SUBSET Kinds /\ p.slot \in Slots
                        /\ p.refused \subseteq Kinds \cup {"GetSlots", "Connect"} /\ p.fallback \in BOOLEAN
                        /\ \A q \in p.requests : q.oid \in Seq(STRING)
ASSUME SlotsAssumption == Slots \subseteq 0..MaxUint16

VARIABLES program,    \* the program of this behaviour
          param,      \* the param of the device
          other,      \* another Param: a sub-param, or the command of the device
          builds,     \* number of builder calls so far
          validator,  \* server.jwtValidator, "none" before NewServer, "failed" if it fails
          handlers,   \* the maps of handlers: <<kind, slot>> that have one
          slots,      \* server.slots
          refused,    \* endpoints that the registered access handler refuses
          last        \* the last request and its answers, or Silence

buildVars == <<param, other, builds>>
serverVars == <<validator, handlers, slots, refused>>
vars == <<program, buildVars, serverVars, last>>

Silence == [via |-> "none"]
Params == [oid \in {"a"} |-> param]
Commands == [oid \in {"c"} |-> other]

-----------------------------------------------------------------------------
(* auth.go, and the authorization of server.go *)

catenaScopes == {"st2138:op", "st2138:cfg", "st2138:adm", "st2138:mon"}

\* A token: whether the claims hold, the signature verifies with an allowed algorithm,
\* and the scopes, each a name and whether it ended in ":w". No scope claim: no scopes.
validateClaims(token) == token.claims
validateSignatureAndClaims(token) == token.claims /\ token.signed

validateJwt(token) ==
    IF validator = "signature" THEN validateSignatureAndClaims(token) ELSE validateClaims(token)

extractTokenScopes(token) ==
    [read |-> {s.name : s \in token.scopes}, write |-> {s.name : s \in {x \in token.scopes : x.w}}]

parseTransportContext(token) ==
    IF ~token.present \/ ~validateJwt(token) THEN ReplyError(StatusCodeUnauthenticated)
    ELSE Reply(extractTokenScopes(token))

resolveHandlerContext(token) ==
    IF validator = "off" THEN Reply([read |-> catenaScopes, write |-> catenaScopes]) ELSE parseTransportContext(token)

HasAnyReadScope(ctx) == ctx.read \cap catenaScopes # {}
HasAnyWriteScope(ctx) == ctx.write \cap catenaScopes # {}

isAccessAllowed(endpoint) == validator = "off" \/ endpoint \notin refused

\* The way of every endpoint to its handler.
Invoke(endpoint, write, token, present) ==
    LET ctx == resolveHandlerContext(token)
        allowed == IF write THEN HasAnyWriteScope(ctx.value) ELSE HasAnyReadScope(ctx.value)
    IN  CASE ~IsOk(ctx) -> ctx.code
          [] IsOk(ctx) /\ (~allowed \/ ~isAccessAllowed(endpoint)) -> StatusCodePermissionDenied
          [] IsOk(ctx) /\ allowed /\ isAccessAllowed(endpoint) /\ ~present -> StatusCodeNotFound
          [] OTHER -> StatusCodeOk

\* What an endpoint yields: a code, what it calls a handler with (or nothing), a value.
NotRun(code) == [code |-> code, ran |-> <<>>, value |-> nil]
Run(kind, slot, args, r) == [code |-> r.code, ran |-> <<kind, slot, args>>, value |-> r.value]
InvokeHandler(kind, write, slot, token, args, r) ==
    LET code == Invoke(kind, write, token, <<kind, slot>> \in handlers)
    IN  IF code = StatusCodeOk THEN Run(kind, slot, args, r) ELSE NotRun(code)

GetSlots(token) ==
    [NotRun(Invoke("GetSlots", FALSE, token, TRUE)) EXCEPT !.value = <<"slots", slots>>]
\* The connection itself is a step of GoServer.
RegisterTransportConnection(token) == NotRun(Invoke("Connect", FALSE, token, TRUE))

\* The handlers: h.code if it is an error, else the device; h.null makes them forget the
\* value, and h.garbled puts a text into it that is not UTF-8.
Served(h, v) == IF h.code # StatusCodeOk THEN ReplyError(h.code) ELSE Reply(IF h.null THEN nil ELSE v)

InvokeGetDeviceHandler(slot, token, h) ==
    InvokeHandler("GetDevice", FALSE, slot, token, <<>>, Served(h, <<"device", Params, Commands>>))
InvokeGetValueHandler(slot, fqoid, token, h) ==
    InvokeHandler("GetValue", FALSE, slot, token, fqoid, Served(h, param.value))
InvokeGetAssetHandler(slot, fqoid, token, h, asset) ==
    InvokeHandler("GetAsset", FALSE, slot, token, fqoid, Served(h, asset))
InvokeExecuteCommandHandler(slot, fqoid, token, h, payload) ==
    InvokeHandler("ExecuteCommand", TRUE, slot, token, <<fqoid, payload>>, Served(h, <<"response", 0>>))
\* h.null adds an entry without a response.
InvokeParamInfoHandler(slot, oid, token, h, recursive) ==
    LET r == InfosForRequest(Params, oid, recursive)
        found == [i \in DOMAIN r.value |-> <<"info", r.value[i]>>]
        infos == <<"infos", IF h.null THEN Append(found, nil) ELSE found>>
    IN  InvokeHandler("ParamInfo", FALSE, slot, token, <<oid, recursive>>,
                      IF h.code # StatusCodeOk THEN ReplyError(h.code) ELSE IF IsOk(r) THEN Reply(infos) ELSE r)

\* SetValue handlers apply all the entries or none. The entries are values for one oid.
SetValues(p, entries) ==
    FoldLeft(LAMBDA r, v : IF IsOk(r) THEN SetValue(r.value, v) ELSE r, Reply(p), entries)
InvokeSetValueHandler(slot, fqoid, token, h, entries) ==
    LET r == SetValues(param, entries)
    IN  InvokeHandler("SetValue", TRUE, slot, token, <<fqoid, entries>>,
                      IF h.code # StatusCodeOk THEN ReplyError(h.code)
                      ELSE [code |-> r.code, value |-> IF IsOk(r) THEN <<"param", r.value>> ELSE nil])

-----------------------------------------------------------------------------
(* What both transports do first. *)

\* Mutant of ValidateSlot: converted first.
ValidateSlotTruncating(slot) == Reply(slot % (MaxUint16 + 1))
ValidateSlot(slot) == IF slot > MaxUint16 THEN ReplyError(StatusCodeInvalidArgument) ELSE Reply(slot)

\* The slot that a valid request is for.
SlotOf(q) == ValidateSlot(q.slot).value

\* FromProto of every entry, before any of them is used.
FromProtos(values) ==
    LET r == [i \in DOMAIN values |-> ProtoToNative(values[i])]
    IN  IF \A i \in DOMAIN r : IsOk(r[i]) THEN Reply([i \in DOMAIN r |-> r[i].value])
        ELSE ReplyError(StatusCodeInvalidArgument)

\* An answer: status, what ran, what was sent, whether an error has its details.
Answer(status, r, sent, detail) == [status |-> status, ran |-> r.ran, sent |-> sent, detail |-> detail]

-----------------------------------------------------------------------------
(* grpc_transport.go *)

\* sanitizeGRPCError: the message is the code's own text unless the server is in dev mode.
GrpcError(r, code) == Answer(ToGRPCCode(code), r, <<>>, program.dev)
GrpcReply(r, sent) == Answer(StatusCodeOk, r, sent, FALSE)
GrpcResult(r, sent) == IF IsOk(r) THEN GrpcReply(r, sent) ELSE GrpcError(r, r.code)
\* A message m that gRPC cannot marshal is an internal error of the library.
GrpcMessage(r, m, garbled) ==
    IF IsOk(r) /\ garbled /\ m # nil THEN Answer(StatusCodeInternal, r, <<>>, FALSE) ELSE GrpcResult(r, <<m>>)

GrpcGetPopulatedSlots(q) == LET r == GetSlots(q.token) IN GrpcResult(r, <<r.value>>)

GrpcDeviceRequest(q) ==
    LET r == InvokeGetDeviceHandler(SlotOf(q), q.token, q.h)
    IN  IF IsOk(r) /\ r.value = nil THEN GrpcError(r, StatusCodeInternal) ELSE GrpcMessage(r, r.value, q.h.garbled)

GrpcGetValue(q) ==
    LET r == InvokeGetValueHandler(SlotOf(q), q.oid, q.token, q.h) IN GrpcMessage(r, r.value, q.h.garbled)

GrpcSetValue(q) ==
    LET entries == FromProtos(<<q.body[2]>>)
    IN  IF q.body[1] = "none" \/ ~IsOk(entries) THEN GrpcError(NotRun(0), StatusCodeInvalidArgument)
        ELSE GrpcResult(InvokeSetValueHandler(SlotOf(q), q.oid, q.token, q.h, entries.value), <<>>)

GrpcMultiSetValue(q) ==
    LET entries == FromProtos(q.body[2])
    IN  IF ~IsOk(entries) THEN GrpcError(NotRun(0), StatusCodeInvalidArgument)
        ELSE GrpcResult(InvokeSetValueHandler(SlotOf(q), q.oid, q.token, q.h, entries.value), <<>>)

GrpcExternalObjectRequest(q) ==
    LET r == InvokeGetAssetHandler(SlotOf(q), q.oid, q.token, q.h, q.asset)
    IN  IF IsOk(r) /\ r.value = nil THEN GrpcError(r, StatusCodeInternal) ELSE GrpcMessage(r, r.value, q.h.garbled)

GrpcExecuteCommand(q) ==
    LET payload == IF q.body[1] = "none" THEN Reply(nil) ELSE ProtoToNative(q.body[2])
        r == InvokeExecuteCommandHandler(SlotOf(q), q.oid, q.token, q.h, payload.value)
    IN  IF ~IsOk(payload) THEN GrpcError(NotRun(0), StatusCodeInvalidArgument) ELSE GrpcMessage(r, r.value, q.h.garbled)

GrpcParamInfoRequest(q) ==
    LET r == InvokeParamInfoHandler(SlotOf(q), q.oid, q.token, q.h, q.recursive)
        infos == r.value[2]
        bad == {i \in DOMAIN infos : infos[i] = nil}
    IN  IF ~IsOk(r) THEN GrpcError(r, r.code)
        ELSE IF infos = <<>> THEN GrpcError(r, StatusCodeNotFound)
        ELSE IF q.h.garbled /\ infos[1] # nil THEN Answer(StatusCodeInternal, r, <<>>, FALSE)
        ELSE IF bad # {} THEN [GrpcError(r, StatusCodeInternal) EXCEPT !.sent = SubSeq(infos, 1, Min(bad) - 1)]
        ELSE GrpcReply(r, infos)

GrpcConnect(q) == GrpcResult(RegisterTransportConnection(q.token), <<>>)

catenaService(q) ==
    IF q.rpc = "GetPopulatedSlots" THEN GrpcGetPopulatedSlots(q)
    ELSE IF q.rpc = "Connect" THEN GrpcConnect(q)
    ELSE IF ~IsOk(ValidateSlot(q.slot)) THEN GrpcError(NotRun(0), StatusCodeInvalidArgument)
    ELSE CASE q.rpc = "DeviceRequest" -> GrpcDeviceRequest(q)
           [] q.rpc = "GetValue" -> GrpcGetValue(q)
           [] q.rpc = "SetValue" -> GrpcSetValue(q)
           [] q.rpc = "MultiSetValue" -> GrpcMultiSetValue(q)
           [] q.rpc = "ExternalObjectRequest" -> GrpcExternalObjectRequest(q)
           [] q.rpc = "ExecuteCommand" -> GrpcExecuteCommand(q)
           [] q.rpc = "ParamInfoRequest" -> GrpcParamInfoRequest(q)
           [] OTHER -> GrpcError(NotRun(0), StatusCodeUnimplemented)   \* GetParam, languages, subscriptions, tokens

-----------------------------------------------------------------------------
(* rest_transport.go *)

\* The segments that a client puts after the endpoint: the oid, and "stream" for events.
\* http.ServeMux (external) redirects a path that has an empty one before its last.
Segments(q) == IF q.path = "param-info" /\ q.stream THEN Append(q.oid, "stream") ELSE q.oid
Redirected(q) ==
    /\ q.path \in {"value", "asset", "command", "param-info"}
    /\ \E i \in DOMAIN Segments(q) : i < Len(Segments(q)) /\ Segments(q)[i] = ""

\* Mutant of PathParts: the last segment is taken for the end of the path.
PathPartsFront(q) == IF Len(Segments(q)) > 1 THEN Front(Segments(q)) ELSE Segments(q)
\* What Trim and Split leave of them.
PathParts(q) == LET s == Segments(q) IN IF s # <<>> /\ s[Len(s)] = "" THEN Front(s) ELSE s

writeHTTPResult(r, sent) ==
    IF IsOk(r) THEN Answer(ToHTTPStatus(r.code), r, sent, FALSE) ELSE Answer(ToHTTPStatus(r.code), r, <<>>, program.dev)
writeHTTPStatusResult(code) == Answer(ToHTTPStatus(code), NotRun(code), <<>>, code # StatusCodeOk /\ program.dev)
writeHTTPStatusResultNoBody(r) == IF IsOk(r) THEN Answer(204, r, <<>>, FALSE) ELSE writeHTTPResult(r, <<>>)
writeHTTPMethodNotAllowed == Answer(405, NotRun(0), <<>>, program.dev)

\* A message m that protojson cannot marshal is a 500.
WriteProtoJSON(r, m, garbled) ==
    IF IsOk(r) /\ garbled /\ m # nil THEN Answer(500, r, <<>>, FALSE) ELSE writeHTTPResult(r, <<m>>)
writeAssetResult(r, garbled) == IF r.value = nil THEN Answer(500, r, <<>>, FALSE) ELSE WriteProtoJSON(r, r.value, garbled)

\* A Device without a proto is written as a status without a body.
DeviceMessage(device) == <<"device", DeviceToJSON(device[2], device[3])>>
writeDeviceResult(r, garbled) ==
    IF IsOk(r) /\ r.value # nil THEN WriteProtoJSON(r, DeviceMessage(r.value), garbled) ELSE writeHTTPResult(r, <<r.value>>)

ReadRequestJSON(q) == IF q.body[1] = "value" THEN Reply(q.body[2]) ELSE ReplyError(StatusCodeInvalidArgument)
ReadMultiSetValuesRequestJSON(q) ==
    IF q.body[1] = "values" THEN FromProtos(q.body[2]) ELSE ReplyError(StatusCodeInvalidArgument)

handleGetPopulatedSlots(q) == LET r == GetSlots(q.token) IN writeHTTPResult(r, <<r.value>>)

handleDevice(q) == writeDeviceResult(InvokeGetDeviceHandler(SlotOf(q), q.token, q.h), q.h.garbled)

handleValueEndpoint(q) ==
    LET body == ReadRequestJSON(q)
        entries == FromProtos(<<body.value>>)
        r == InvokeGetValueHandler(SlotOf(q), PathParts(q), q.token, q.h)
    IN  CASE q.method = "GET" -> WriteProtoJSON(r, r.value, q.h.garbled)
          [] q.method = "PUT" /\ (~IsOk(body) \/ ~IsOk(entries)) -> writeHTTPStatusResult(StatusCodeInvalidArgument)
          [] q.method = "PUT" /\ IsOk(body) /\ IsOk(entries) ->
               writeHTTPStatusResultNoBody(InvokeSetValueHandler(SlotOf(q), PathParts(q), q.token, q.h, entries.value))
          [] OTHER -> writeHTTPMethodNotAllowed

handleValuesEndpoint(q) ==
    LET entries == ReadMultiSetValuesRequestJSON(q)
    IN  IF q.method # "PUT" THEN writeHTTPMethodNotAllowed
        ELSE IF ~IsOk(entries) THEN writeHTTPStatusResult(StatusCodeInvalidArgument)
        ELSE writeHTTPStatusResultNoBody(InvokeSetValueHandler(SlotOf(q), q.oid, q.token, q.h, entries.value))

handleAssetEndpoint(q) ==
    LET r == InvokeGetAssetHandler(SlotOf(q), PathParts(q), q.token, q.h, q.asset)
        target == ParsePayloadEncoding(q.compression)
        coded == TranscodeAssetPayload(r.value, target.value)
    IN  IF q.method # "GET" THEN writeHTTPMethodNotAllowed
        ELSE IF ~IsOk(r) THEN writeHTTPResult(r, <<>>)
        ELSE IF q.compression = "" THEN writeAssetResult(r, q.h.garbled)
        ELSE IF ~IsOk(target) THEN writeHTTPResult([r EXCEPT !.code = StatusCodeInvalidArgument], <<>>)
        ELSE IF ~IsOk(coded) THEN writeHTTPResult([r EXCEPT !.code = StatusCodeInternal], <<>>)
        ELSE writeAssetResult([r EXCEPT !.value = coded.value], q.h.garbled)

\* Events for the entries that have a response, up to one that cannot be marshalled.
writeParamInfoStream(r, garbled) ==
    LET infos == r.value[2]
    IN  writeHTTPResult(r, IF garbled THEN <<>>
                           ELSE IF \A i \in DOMAIN infos : infos[i] # nil THEN infos
                           ELSE SelectSeq(infos, LAMBDA info : info # nil))

handleParamInfoEndpoint(q) ==
    LET parts == PathParts(q)
        streaming == parts # <<>> /\ parts[Len(parts)] = "stream"
        oidPrefix == IF streaming THEN Front(parts) ELSE parts
        r == InvokeParamInfoHandler(SlotOf(q), oidPrefix, q.token, q.h, q.recursive)
    IN  IF q.method # "GET" THEN writeHTTPMethodNotAllowed
        ELSE IF ~streaming /\ (q.recursive \/ oidPrefix = <<>>) THEN writeHTTPStatusResult(StatusCodeInvalidArgument)
        ELSE IF ~IsOk(r) THEN writeHTTPResult(r, <<>>)
        ELSE IF r.value[2] = <<>> THEN writeHTTPResult([r EXCEPT !.code = StatusCodeNotFound], <<>>)
        ELSE IF streaming THEN writeParamInfoStream(r, q.h.garbled)
        ELSE WriteProtoJSON(r, r.value[2][1], q.h.garbled)

\* A body of unknown length (ContentLength -1) is not read.
handleCommandEndpoint(q) ==
    LET body == ReadRequestJSON(q)
        payload == IF q.body[1] = "none" \/ q.chunked THEN Reply(nil)
                   ELSE IF ~IsOk(body) THEN body ELSE ProtoToNative(body.value)
        r == InvokeExecuteCommandHandler(SlotOf(q), PathParts(q), q.token, q.h, payload.value)
    IN  IF q.method # "POST" THEN writeHTTPMethodNotAllowed
        ELSE IF ~IsOk(payload) THEN writeHTTPStatusResult(StatusCodeInvalidArgument)
        ELSE IF q.respond THEN WriteProtoJSON(r, r.value, q.h.garbled) ELSE writeHTTPResult(r, <<<<"no_response", 0>>>>)

handleConnect(q) == IF q.method # "GET" THEN writeHTTPMethodNotAllowed
                    ELSE writeHTTPResult(RegisterTransportConnection(q.token), <<>>)

\* The fallback handler of the application gets the request as it is: it has no slot and no
\* token is looked at.
fallbackHandler(q) ==
    IF program.fallback THEN WriteProtoJSON([NotRun(q.h.code) EXCEPT !.value = param.value], param.value, q.h.garbled)
    ELSE writeHTTPStatusResult(StatusCodeNotFound)

\* The mux: fixed paths first, then the slot, the number of parts and the endpoint.
registerRoutes(q) ==
    CASE q.path = "devices" -> IF q.method = "GET" THEN handleGetPopulatedSlots(q) ELSE writeHTTPMethodNotAllowed
      [] q.path = "connect" -> handleConnect(q)
      [] q.path = "health" -> IF q.method = "GET" THEN writeHTTPStatusResult(StatusCodeOk) ELSE writeHTTPMethodNotAllowed
      [] q.path = "base" -> writeHTTPStatusResult(StatusCodeNotFound)
      [] q.path = "base/" -> writeHTTPStatusResult(StatusCodeInvalidArgument)
      [] q.path = "fallback" -> fallbackHandler(q)
      [] OTHER ->
           IF Redirected(q) THEN Answer(301, NotRun(0), <<>>, FALSE)
           ELSE IF ~IsOk(ValidateSlot(q.slot)) THEN writeHTTPStatusResult(StatusCodeInvalidArgument)
           ELSE CASE q.path = "slot" /\ q.method = "GET" -> handleDevice(q)
                  [] q.path = "value" -> handleValueEndpoint(q)
                  [] q.path = "values" -> handleValuesEndpoint(q)
                  [] q.path = "asset" -> handleAssetEndpoint(q)
                  [] q.path = "command" -> handleCommandEndpoint(q)
                  [] q.path = "param-info" -> handleParamInfoEndpoint(q)
                  [] OTHER -> writeHTTPStatusResult(StatusCodeNotFound)

-----------------------------------------------------------------------------
(* Steps *)

Init ==
    /\ program \in Programs
    /\ param = NewParamEmpty /\ other = NewParamEmpty /\ builds = 0
    /\ validator = "none" /\ handlers = {} /\ slots = {} /\ refused = {} /\ last = Silence

Building == /\ validator = "none" /\ builds < program.builds /\ builds' = builds + 1
            /\ UNCHANGED <<program, serverVars, last>>

\* A factory of param.go makes the param, or the other one.
BuildNew ==
    /\ Building
    /\ \/ param' \in {NewParamOf(v) : v \in Values} \cup {NewParamBinary(EmptyBytes), NewParamBinary(<<"raw", "x">>)}
                     \cup {NewParamFromValue(NativeToProto(v).value) : v \in Values}
          /\ UNCHANGED other
       \/ other' \in BuildSubs /\ UNCHANGED param

BuildWith ==
    /\ Building
    /\ \/ \E v \in Values : param' = WithValue(param, NativeToProto(v).value)
       \/ \E v \in Values : param' = SetValue(param, v).value
       \/ \E c \in Constraints : param' = WithConstraint(param, c)
       \/ param' = WithPrecision(param, 2) \/ param' = WithMaxLength(param, 2)
       \/ \E response \in BOOLEAN : param' = WithResponse(param, response)
       \/ param' = WithTemplateOid(param, "a")
       \/ \E oid \in Oids : param' = WithParam(param, oid, other)
    /\ UNCHANGED other

\* WithParam on the other Param, of which the param may hold a clone.
BuildOther ==
    /\ Building
    /\ \/ \E oid \in Oids, sub \in BuildSubs : other' = WithParam(other, oid, sub)
       \/ \E response \in BOOLEAN : other' = WithResponse(other, response)
    /\ UNCHANGED param

\* NewServer makes a validator: one of signatures needs the issuer's key set.
newJwtValidator(wanted, discovered) == IF wanted = "signature" /\ ~discovered THEN "failed" ELSE wanted

NewServer ==
    /\ validator = "none" /\ builds = program.builds
    /\ \E wanted \in program.validators, discovered \in BOOLEAN : validator' = newJwtValidator(wanted, discovered)
    /\ UNCHANGED <<program, buildVars, handlers, slots, refused, last>>

Serving == validator \in Validators /\ last = Silence /\ UNCHANGED <<program, param, other, builds, validator, last>>

RegisterHandler ==
    /\ Serving
    /\ \E kind \in program.handlers : handlers' = handlers \cup {<<kind, program.slot>>}
    /\ slots' = slots \cup {program.slot}
    /\ UNCHANGED refused

RegisterAccessHandler == Serving /\ refused' = program.refused /\ UNCHANGED <<handlers, slots>>

\* A request over REST or gRPC. A handler that ran over that transport has set the param.
Request ==
    /\ validator \in Validators /\ last = Silence
    /\ \E q \in program.requests, via \in {"REST", "gRPC"} : \E rest \in {registerRoutes(q)}, grpc \in {catenaService(q)} :
         LET set == IF q.rpc = "MultiSetValue" THEN q.body[2] ELSE <<q.body[2]>>
             ok == IF via = "REST" THEN rest.status = 204 ELSE grpc.status = 0
         IN  /\ last' = [via |-> via, q |-> q, rest |-> rest, grpc |-> grpc]
             /\ param' = IF q.rpc \in {"SetValue", "MultiSetValue"} /\ ok
                         THEN SetValues(param, FromProtos(set).value).value ELSE param
    /\ UNCHANGED <<program, other, builds, serverVars>>

\* The client has its answer.
Answered == last # Silence /\ last' = Silence /\ UNCHANGED <<program, buildVars, serverVars>>

Next == \/ BuildNew \/ BuildWith \/ BuildOther \/ NewServer
        \/ RegisterHandler \/ RegisterAccessHandler \/ Request \/ Answered
Spec == Init /\ [][Next]_vars

-----------------------------------------------------------------------------
(* Properties *)

\* Oids that are in the path over REST and lose a slash there: those that begin or end with
\* one or have two in a row.
LosesSlash(q) == q.rpc \notin {"GetPopulatedSlots", "DeviceRequest", "MultiSetValue", "Connect"} /\ "" \in ToSet(q.oid)

\* What the two transports answer differently: an oid that loses a slash, a device without
\* a proto, compression, a body of unknown length, respond=false, unary param info, and
\* entries of a stream that have no response or cannot be marshalled.
Differs(q) ==
    \/ LosesSlash(q)
    \/ q.rpc = "DeviceRequest" /\ q.h.null
    \/ q.rpc = "ExternalObjectRequest" /\ q.compression # ""
    \/ q.rpc = "ExecuteCommand" /\ (q.chunked \/ ~q.respond)
    \/ q.rpc = "ParamInfoRequest" /\ (~q.stream \/ q.h.null \/ q.h.garbled)

\* The calls of the one API and the paths and methods of the other, and the bodies that
\* both have.
Routes == {<<"GetPopulatedSlots", "devices", "GET">>, <<"DeviceRequest", "slot", "GET">>,
           <<"GetValue", "value", "GET">>, <<"SetValue", "value", "PUT">>,
           <<"MultiSetValue", "values", "PUT">>, <<"ExternalObjectRequest", "asset", "GET">>,
           <<"ExecuteCommand", "command", "POST">>, <<"ParamInfoRequest", "param-info", "GET">>,
           <<"Connect", "connect", "GET">>}
OfBothTransports(q) ==
    /\ <<q.rpc, q.path, q.method>> \in Routes
    /\ q.rpc \in {"SetValue", "ExecuteCommand"} => q.body[1] \in {"none", "value"}
    /\ q.rpc = "MultiSetValue" => q.body[1] = "values"

\* The same request is answered alike by REST and gRPC, unless it is one that Differs names:
\* equivalent status, the same handler called with the same oid and arguments, or none, and
\* the same messages sent, a device as its JSON (what that leaves out is in DeviceJSONComplete).
TransportsAgree ==
    last # Silence /\ OfBothTransports(last.q) /\ ~Differs(last.q) =>
        /\ last.rest.status = IF last.q.rpc \in {"SetValue", "MultiSetValue"} /\ last.grpc.status = 0
                              THEN 204 ELSE ToHTTPStatus(last.grpc.status)
        /\ last.rest.ran = last.grpc.ran
        /\ last.rest.sent = IF last.q.rpc = "DeviceRequest"
                            THEN [i \in DOMAIN last.grpc.sent |-> DeviceMessage(last.grpc.sent[i])] ELSE last.grpc.sent

\* A handler of a slot runs only for the slot that was asked, and unless authorization is off only
\* for a valid token with a catena scope (":w" for set and execute) that the access
\* handler does not refuse; and an error tells its details only in dev mode.
NoHandlerWithoutScope ==
    last # Silence => \A answer \in {last.rest, last.grpc} :
        /\ answer.detail => program.dev
        /\ answer.ran # <<>> =>
             LET kind == answer.ran[1]
                 token == last.q.token
                 useful == {s \in token.scopes : s.name \in catenaScopes}
             IN  /\ answer.ran[2] = last.q.slot /\ <<kind, last.q.slot>> \in handlers
                 /\ \/ validator = "off"
                    \/ /\ token.present /\ token.claims /\ (validator = "signature" => token.signed)
                       /\ kind \notin refused
                       /\ \E s \in useful : kind \in {"SetValue", "ExecuteCommand"} => s.w
=============================================================================
