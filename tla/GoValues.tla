------------------------------- MODULE GoValues -------------------------------
(***************************************************************************)
(* The data of the Go SDK: native values and the values of the protocol,   *)
(* and the JSON that REST sends for a device.                              *)
(*                                                                         *)
(* A native value is <<Go type, contents>>, a value of the protocol <<kind, *)
(* contents>>. The contents of a number or a text are any token; those of  *)
(* an array are a sequence, those of a struct a function of its fields.    *)
(***************************************************************************)
EXTENDS GoAssets

(* value.go *)

\* Go types of which the contents are copied as they are.
PlainKinds ==
    [UndefinedValue |-> "undefined_value", EmptyValue |-> "empty_value", int32 |-> "int32_value",
     float32 |-> "float32_value", string |-> "string_value", ints |-> "int32_array_values",
     floats |-> "float32_array_values", strings |-> "string_array_values"]
PlainTypes == [k \in {PlainKinds[t] : t \in DOMAIN PlainKinds} |->
                  CHOOSE t \in DOMAIN PlainKinds : PlainKinds[t] = k]

\* The first failed conversion of a struct, an array or a variant fails them all.
Converted(kind, results, Value(_)) ==
    IF \A i \in DOMAIN results : IsOk(results[i])
    THEN Reply(<<kind, [i \in DOMAIN results |-> Value(i)]>>)
    ELSE ReplyError(StatusCodeInvalidArgument)

RECURSIVE ToProto(_)
ToProto(v) ==
    CASE v[1] \in DOMAIN PlainKinds -> Reply(<<PlainKinds[v[1]], v[2]>>)
      [] v[1] = "DataPayload" ->
           LET r == dataPayloadToProto(v[2]) IN IF IsOk(r) THEN Reply(<<"data_payload", r.value>>) ELSE r
      [] v[1] = "map" /\ DOMAIN v[2] # {} ->
           LET r == [f \in DOMAIN v[2] |-> ToProto(v[2][f])]
           IN  Converted("struct_value", r, LAMBDA f : r[f].value)
      [] v[1] = "maps" ->
           LET r == [i \in DOMAIN v[2] |-> [f \in DOMAIN v[2][i] |-> ToProto(v[2][i][f])]]
           IN  IF \A i \in DOMAIN r : \A f \in DOMAIN r[i] : IsOk(r[i][f])
               THEN Reply(<<"struct_array_values", [i \in DOMAIN r |-> [f \in DOMAIN r[i] |-> r[i][f].value]]>>)
               ELSE ReplyError(StatusCodeInvalidArgument)
      [] v[1] = "StructVariantValue" ->
           LET r == <<ToProto(v[2].value)>>
           IN  IF IsOk(r[1]) THEN Reply(<<"struct_variant_value", [type |-> v[2].type, value |-> r[1].value]>>)
               ELSE r[1]
      [] v[1] = "StructVariantValues" ->
           LET r == [i \in DOMAIN v[2] |-> ToProto(v[2][i].value)]
           IN  Converted("struct_variant_array_values", r, LAMBDA i : [type |-> v[2][i].type, value |-> r[i].value])
      [] OTHER -> ReplyError(StatusCodeInvalidArgument)   \* nil, an empty map, a nil slice, another type

\* Mutant of FromProto: an array of structs loses the structs without fields.
FromProtoSkipsEmpty(pv) ==
    IF pv[1] = "struct_array_values"
    THEN Reply(<<"maps", SelectSeq([i \in DOMAIN pv[2] |-> [f \in DOMAIN pv[2][i] |-> <<"string", "">>]],
                                   LAMBDA m : DOMAIN m # {})>>)
    ELSE IF pv[1] \in DOMAIN PlainTypes THEN Reply(<<PlainTypes[pv[1]], pv[2]>>)
    ELSE ReplyError(StatusCodeInvalidArgument)

RECURSIVE FromProto(_)
FromProto(pv) ==
    CASE pv[1] \in DOMAIN PlainTypes -> Reply(<<PlainTypes[pv[1]], pv[2]>>)
      [] pv[1] = "data_payload" -> Reply(<<"DataPayload", dataPayloadFromProto(pv[2])>>)
      [] pv[1] = "struct_value" ->
           LET r == [f \in DOMAIN pv[2] |-> FromProto(pv[2][f])]
           IN  Converted("map", r, LAMBDA f : r[f].value)
      [] pv[1] = "struct_array_values" ->
           LET r == [i \in DOMAIN pv[2] |-> [f \in DOMAIN pv[2][i] |-> FromProto(pv[2][i][f])]]
           IN  IF \A i \in DOMAIN r : \A f \in DOMAIN r[i] : IsOk(r[i][f])
               THEN Reply(<<"maps", [i \in DOMAIN r |-> [f \in DOMAIN r[i] |-> r[i][f].value]]>>)
               ELSE ReplyError(StatusCodeInvalidArgument)
      [] pv[1] = "struct_variant_value" ->
           LET r == <<FromProto(pv[2].value)>>
           IN  IF IsOk(r[1]) THEN Reply(<<"StructVariantValue", [type |-> pv[2].type, value |-> r[1].value]>>)
               ELSE r[1]
      [] pv[1] = "struct_variant_array_values" ->
           LET r == [i \in DOMAIN pv[2] |-> FromProto(pv[2][i].value)]
           IN  Converted("StructVariantValues", r, LAMBDA i : [type |-> pv[2][i].type, value |-> r[i].value])
      [] OTHER -> ReplyError(StatusCodeInvalidArgument)   \* nil, or no kind set

-----------------------------------------------------------------------------
(* json_utils.go: <<"object", function>>, <<"array", sequence>>, or a leaf. *)

Object(f) == <<"object", f>>
IsObject(v) == v[1] = "object"
WithoutKeys(f, K) == [k \in DOMAIN f \ K |-> f[k]]

zeroFields == {"precision", "max_length", "total_length"}

RECURSIVE deleteZeroFields(_)
deleteZeroFields(v) ==
    LET zero == {k \in DOMAIN v[2] : k \in zeroFields /\ v[2][k] = <<"number", 0>>}
        Inside(x) == CASE IsObject(x) -> deleteZeroFields(x)
                       [] x[1] = "array" -> <<"array", [i \in DOMAIN x[2] |-> deleteZeroFields(x[2][i])]>>
                       [] OTHER -> x
    IN  IF IsObject(v) THEN Object([k \in DOMAIN v[2] \ zero |-> Inside(v[2][k])]) ELSE v

RECURSIVE deleteResponseFalse(_)
deleteResponseFalse(v) ==
    LET false == {k \in DOMAIN v[2] : k = "response" /\ v[2][k] = <<"bool", FALSE>>}
    IN  IF IsObject(v) THEN Object([k \in DOMAIN v[2] \ false |-> deleteResponseFalse(v[2][k])]) ELSE v

deleteResponseFromParams(v) ==
    IF IsObject(v) /\ "params" \in DOMAIN v[2]
    THEN Object([v[2] EXCEPT !["params"] = deleteResponseFalse(@)]) ELSE v

\* What is left of v, and whether that is empty; strings in an array are no keys and stay.
RECURSIVE deleteEmptyValues(_)
deleteEmptyValues(v) ==
    LET Empty(x) == IF x[1] \in {"object", "array"} THEN DOMAIN x[2] = {} ELSE FALSE
        shouldDeleteValue(x) == CASE x[1] = "null" -> TRUE
                                  [] x[1] = "string" -> x[2] = ""
                                  [] OTHER -> Empty(deleteEmptyValues(x))
    IN  CASE IsObject(v) -> Object([k \in {k \in DOMAIN v[2] : ~shouldDeleteValue(v[2][k])} |-> deleteEmptyValues(v[2][k])])
          [] v[1] = "array" -> <<"array", [i \in DOMAIN v[2] |-> deleteEmptyValues(v[2][i])]>>
          [] OTHER -> v

cleanDeviceJSON(v) == deleteEmptyValues(deleteResponseFromParams(deleteZeroFields(v)))

\* protojson with EmitUnpopulated, of a value and of a param; external but for its options.
RECURSIVE ValueJSON(_)
ValueJSON(pv) ==
    LET List(key, of) == Object([k \in {key} |-> <<"array", of>>])
        Fields(f) == Object([k \in {"fields"} |-> Object([x \in DOMAIN f |-> ValueJSON(f[x])])])
        Variant(s) == Object([k \in {"struct_variant_type", "value"} |->
                                 IF k = "value" THEN ValueJSON(s.value) ELSE <<"string", s.type>>])
        Payload(dp) == Object([k \in {"payload_encoding", "digest", dp.kind[1]} \ {"unset"} |->
                                  CASE k = "payload_encoding" -> <<"string", dp.encoding>>
                                    [] k = "digest" -> IF dp.digest = NoDigest THEN <<"string", "">> ELSE <<"bytes", dp.digest>>
                                    [] k = "url" -> <<"string", dp.kind[2]>>
                                    [] k = "payload" -> IF dp.kind[2] = EmptyBytes THEN <<"string", "">> ELSE <<"bytes", dp.kind[2]>>])
        Tokens(kind, s) == [i \in DOMAIN s |-> <<kind, s[i]>>]
        body == CASE pv[1] = "int32_value" -> <<"number", pv[2]>>
                  [] pv[1] = "float32_value" -> <<"number", pv[2]>>
                  [] pv[1] = "string_value" -> <<"string", pv[2]>>
                  [] pv[1] = "undefined_value" -> <<"string", "UNDEFINED_VALUE">>
                  [] pv[1] = "empty_value" -> Object([k \in {} |-> nil])
                  [] pv[1] = "int32_array_values" -> List("ints", Tokens("number", pv[2]))
                  [] pv[1] = "float32_array_values" -> List("floats", Tokens("number", pv[2]))
                  [] pv[1] = "string_array_values" -> List("strings", Tokens("string", pv[2]))
                  [] pv[1] = "struct_value" -> Fields(pv[2])
                  [] pv[1] = "struct_array_values" -> List("struct_values", [i \in DOMAIN pv[2] |-> Fields(pv[2][i])])
                  [] pv[1] = "struct_variant_value" -> Variant(pv[2])
                  [] pv[1] = "struct_variant_array_values" ->
                       List("struct_variants", [i \in DOMAIN pv[2] |-> Variant(pv[2][i])])
                  [] pv[1] = "data_payload" -> Payload(pv[2])
    IN  Object([k \in {pv[1]} |-> body])
=============================================================================
