----------------------------- MODULE MCGoRequests -----------------------------
(* Model-checking instance of GoRequests: a program that builds params, and     *)
(* programs that serve a few params to clients with all sorts of tokens.        *)
EXTENDS GoConversions

File(ext, data) == [ext |-> ext, data |-> data]
x == <<"raw", "x">>
MCOidOrder == <<"a", "b">>

\* Oids with slashes at either end and inside, and one that REST takes for a stream.
MCOids == {<<>>, <<"a">>, <<"a", "b">>, <<"b">>, <<"", "a">>, <<"a", "">>, <<"a", "", "b">>, <<"a", "stream">>}

Payload(p) == <<"DataPayload", p>>
MCValues ==
    {<<"int32", 0>>, <<"float32", 1>>, <<"string", "">>, <<"string", "s">>, <<"ints", <<>>>>, <<"ints", <<0, 1>>>>,
     <<"floats", <<1>>>>, <<"strings", <<"">>>>, <<"map", [f \in {} |-> nil]>>, <<"map", [f \in {"b"} |-> <<"int32", 0>>]>>,
     <<"map", [f \in {"b"} |-> <<"map", [g \in {} |-> nil]>>]>>, <<"maps", <<[f \in {} |-> nil]>>>>,
     <<"maps", <<[f \in {"b"} |-> <<"string", "">>], [f \in {"b"} |-> <<"EmptyValue", 0>>]>>>>,
     <<"StructVariantValue", [type |-> "t", value |-> <<"int32", 1>>]>>,
     <<"StructVariantValues", <<[type |-> "t", value |-> <<"int32", 1>>]>>>>, <<"EmptyValue", 0>>,
     Payload(ToPayload(x)), Payload(ToPayloadFromURL("u")), nil}
Struct == NewParamStruct(<<"map", [f \in {"b"} |-> <<"int32", 0>>]>>)
MCBuildSubs == {NewParamInt32(<<"int32", 1>>), Struct, NewParamStringArray(<<"strings", <<"s">>>>)}

Scope(n, w) == [name |-> n, w |-> w]
Good == [present |-> TRUE, claims |-> TRUE, signed |-> TRUE, scopes |-> {Scope("st2138:adm", TRUE)}]
Tokens == {Good, [Good EXCEPT !.present = FALSE], [Good EXCEPT !.claims = FALSE], [Good EXCEPT !.signed = FALSE],
           [Good EXCEPT !.scopes = {Scope("st2138:mon", FALSE)}], [Good EXCEPT !.scopes = {}],
           [Good EXCEPT !.scopes = {Scope("st2138:mon", FALSE), Scope("elsewhere", TRUE)}]}

Fine == [code |-> 0, null |-> FALSE, garbled |-> FALSE]
Ask(rpc, path, method) ==
    [rpc |-> rpc, path |-> path, method |-> method, slot |-> 0, token |-> Good, h |-> Fine, body |-> <<"none", nil>>,
     oid |-> <<>>, recursive |-> FALSE, stream |-> TRUE, compression |-> "", chunked |-> FALSE, respond |-> TRUE,
     asset |-> ToAsset(ToPayload(x)).value]
SetOne == [Ask("SetValue", "value", "PUT") EXCEPT !.body = <<"value", <<"int32_value", 1>>>>]
SetMany == [Ask("MultiSetValue", "values", "PUT") EXCEPT !.body = <<"values", <<<<"int32_value", 1>>, <<"int32_value", 2>>>>>>]
Common == {Ask("GetPopulatedSlots", "devices", "GET"), Ask("DeviceRequest", "slot", "GET"), Ask("GetValue", "value", "GET"),
           SetOne, SetMany, Ask("ExternalObjectRequest", "asset", "GET"), Ask("ExecuteCommand", "command", "POST"),
           Ask("ParamInfoRequest", "param-info", "GET"), Ask("Connect", "connect", "GET")}

\* Every request with every token, handler outcome and slot.
Authorized == {[q EXCEPT !.token = t, !.h.code = c] : q \in Common, t \in Tokens, c \in {0, 5}}
              \cup {[q EXCEPT !.h.code = c, !.h.null = n] : q \in Common, c \in 0..17, n \in BOOLEAN}
              \cup {[q EXCEPT !.slot = s] : q \in Common, s \in {1, MaxUint16, MaxUint16 + 1}}
              \cup {[q EXCEPT !.h.garbled = TRUE, !.h.null = n, !.oid = o] : q \in Common, n \in BOOLEAN, o \in MCOids}
\* Requests that only one transport has, or that it refuses itself.
Odd == {Ask("none", p, m) : p \in {"devices", "connect", "health", "base", "base/", "fallback", "slot", "value", "values", "asset", "command",
                                   "param-info", "unknown"}, m \in {"GET", "PUT", "POST", "DELETE"}}
       \cup {Ask(r, "none", "GET") : r \in {"GetParam", "AddLanguage"}}
       \cup {[q EXCEPT !.rpc = "none", !.body = <<"unreadable", 0>>] : q \in {SetOne, SetMany, Ask("ExecuteCommand", "command", "POST")}}
Wire == {ToProto(v).value : v \in MCValues} \cup
        {<<"struct_value", [f \in {} |-> nil]>>, <<"data_payload", [kind |-> <<"unset", "">>, encoding |-> "GZIP", digest |-> NoDigest]>>,
         <<"struct_array_values", <<[f \in {"b"} |-> nil]>>>>}
Bodies == {[SetOne EXCEPT !.body = <<"value", v>>] : v \in Wire} \cup {[SetOne EXCEPT !.body = <<"none", nil>>]}
          \cup {[SetMany EXCEPT !.body = <<"values", s>>] : s \in {<<>>} \cup {<<v, w>> : v \in Wire, w \in {<<"int32_value", 1>>, nil}}}
          \cup {[Ask("ExecuteCommand", "command", "POST") EXCEPT !.body = <<"value", v>>, !.chunked = c, !.respond = r] :
                    v \in Wire, c \in BOOLEAN, r \in BOOLEAN}
Infos == {[Ask("ParamInfoRequest", "param-info", "GET") EXCEPT !.oid = o, !.recursive = r, !.stream = s] :
              o \in MCOids, r \in BOOLEAN, s \in BOOLEAN}
Assets == {ToAsset(ToPayloadFromFS(File(e, d))).value : e \in {"", ".gz", ".zz"}, d \in {x, CompressGzip(x), CompressDeflate(x)}}
          \cup {ToAsset(ToPayloadFromURL("u")).value, ToAsset(ToPayloadFromURL("")).value}
Coded == {[Ask("ExternalObjectRequest", "asset", m) EXCEPT !.asset = a, !.compression = c] :
              a \in Assets, c \in Encodings \cup {"", "bogus"}, m \in {"GET"}}

Serve(requests) == [builds |-> 0, validators |-> {"off"}, dev |-> FALSE, handlers |-> Kinds, slot |-> 0, refused |-> {}, fallback |-> FALSE, requests |-> requests]
MCPrograms == {
    [Serve({}) EXCEPT !.builds = MaxBuilds, !.validators = {}],
    [Serve(Bodies \cup Infos \cup {Ask("DeviceRequest", "slot", "GET")}) EXCEPT
        !.builds = 1, !.handlers = {"GetDevice", "SetValue", "ExecuteCommand", "ParamInfo"}],
    [Serve(Coded \cup Odd) EXCEPT !.dev = TRUE, !.handlers = {"GetAsset"}, !.fallback = TRUE],
    [Serve(Authorized) EXCEPT !.validators = Validators, !.handlers = {"SetValue", "GetDevice", "ExecuteCommand"},
                              !.refused = {"GetDevice", "ExecuteCommand", "Connect"}],
    [Serve(Authorized) EXCEPT !.slot = MaxUint16, !.dev = TRUE, !.handlers = {"GetValue", "SetValue", "GetAsset", "ParamInfo"}]}
=============================================================================
