---------------------------- MODULE GoConversions ----------------------------
(***************************************************************************)
(* What the requests of GoRequests do to the data: that nothing is lost or *)
(* changed on its way between native values, the protocol, JSON and assets.*)
(***************************************************************************)
EXTENDS GoRequests, GoParamInfos

RECURSIVE WellTyped(_)
WellTyped(p) ==
    /\ p.type \in ParamTypes
    /\ p.value = nil \/ p.value[1] = ValueKinds[p.type]
    /\ p.constraint # NoConstraint => isConstraintValidForParam(p.constraint, p.type)
    /\ p.precision # 0 => p.type \in {"FLOAT32", "FLOAT32_ARRAY"}
    /\ p.maxLength # 0 => p.type \in {"STRING", "STRING_ARRAY"}
    /\ DOMAIN p.params # {} => p.type \in paramTypesWithSubParams
    /\ \A oid \in DOMAIN p.params : WellTyped(p.params[oid])

\* No sequence of builder calls and of SetValue requests makes a param (or a sub-param in
\* it) with a value, a constraint or an attribute that is not of its type.
TypeOK ==
    /\ WellTyped(param) /\ WellTyped(other)
    /\ validator \in Validators \cup {"none", "failed"}
    /\ handlers \subseteq Kinds \X Slots /\ slots \subseteq Slots
    /\ builds \in 0..MaxBuilds

\* Values of the protocol that have no native value that converts back.
RECURSIVE Unechoable(_)
Unechoable(pv) ==
    CASE pv[1] = "struct_value" -> DOMAIN pv[2] = {} \/ \E f \in DOMAIN pv[2] : Unechoable(pv[2][f])
      [] pv[1] = "struct_array_values" -> \E i \in DOMAIN pv[2] : \E f \in DOMAIN pv[2][i] : Unechoable(pv[2][i][f])
      [] pv[1] = "struct_variant_value" -> Unechoable(pv[2].value)
      [] pv[1] = "struct_variant_array_values" -> \E i \in DOMAIN pv[2] : Unechoable(pv[2][i].value)
      [] pv[1] = "data_payload" -> pv[2].kind \in {<<"unset", "">>, <<"payload", EmptyBytes>>, <<"url", "">>}
      [] OTHER -> FALSE

\* A value that a client has set is the value that the device then has: converted to a native
\* value and back it is the same. One that is refused by the param is of another kind, or has
\* a struct without fields or a payload without bytes in it.
SetValueEchoed ==
    last # Silence /\ last.q.rpc \in {"SetValue", "MultiSetValue"} /\ last.q.h.code = StatusCodeOk =>
        LET answer == IF last.via = "REST" THEN last.rest ELSE last.grpc
            set == IF last.q.rpc = "SetValue" THEN <<last.q.body[2]>> ELSE last.q.body[2]
        IN  /\ answer.status \in {0, 204} /\ set # <<>> => param.value = set[Len(set)]
            /\ answer.status \notin {0, 204} /\ answer.ran # <<>> =>
                 \E i \in DOMAIN set : Unechoable(set[i]) \/ set[i][1] # ValueKinds[param.type]

\* The scalars and the empty objects of a JSON tree and the lengths of its arrays, by path.
NoKeys == <<"keys", 0>>
RECURSIVE Leaves(_)
Leaves(v) ==
    CASE IsObject(v) -> IF DOMAIN v[2] = {} THEN {<<<<>>, NoKeys>>}
                        ELSE UNION {{<<<<<<"key", k>>>> \o l[1], l[2]>> : l \in Leaves(v[2][k])} : k \in DOMAIN v[2]}
      [] v[1] = "array" -> UNION {{<<<<<<"index", i>>>> \o l[1], l[2]>> : l \in Leaves(v[2][i])} : i \in DOMAIN v[2]}
                           \cup {<<<<>>, <<"length", Len(v[2])>>>>}
      [] OTHER -> {<<<<>>, v>>}

\* The JSON of a device has what the device has, less what the clean-up strips from objects:
\* null, "", {} and [], the zero fields, response:false in params, and what is left empty by
\* that. With them go the values that are set but empty (SetValuesKept). All else is at its
\* place: false and 0 in values, the response of commands, and every element of an array,
\* as {} if nothing is left in it.
DeviceJSONComplete ==
    LET before == Leaves(DeviceJSON(Params, Commands))
        Stripped(l) == LET key == l[1][Len(l[1])] IN
            \/ key[1] = "key" /\ (l[2][1] = "null" \/ l[2] \in {<<"string", "">>, NoKeys, <<"length", 0>>})
            \/ l[2] = <<"number", 0>> /\ key \in {<<"key", z>> : z \in zeroFields}
            \/ l[2] = <<"bool", FALSE>> /\ key = <<"key", "response">> /\ l[1][1] = <<"key", "params">>
        elements == {p \in UNION {{SubSeq(l[1], 1, n) : n \in DOMAIN l[1]} : l \in before} : p[Len(p)][1] = "index"}
        emptied == {p \in elements : \A l \in before : IsPrefix(p, l[1]) => Stripped(l)}
    IN  last = Silence => Leaves(MarshalDeviceJSON(Params, Commands)) =
                             {l \in before : ~Stripped(l)} \cup {<<p, NoKeys>> : p \in emptied}

\* Refuted: a param whose value is set has a value in the device's JSON: "strips fields
\* with empty values (null, {}, [], "") at all nesting levels since these represent unset proto
\* fields, not meaningful data" (json_utils.go, MarshalDeviceJSON). A text, an array or a
\* struct that is set and empty is lost. (The value of a param of type EMPTY says no more than
\* its type.)
SetValuesKept ==
    last = Silence /\ param.value # nil /\ param.value[1] # "empty_value" =>
        "value" \in DOMAIN MarshalDeviceJSON(Params, Commands)[2]["params"][2]["a"][2]

\* An asset with a payload that is sent in another encoding has the same contents, and the
\* digest is that of the bytes sent.
TranscodedFaithfully ==
    last # Silence /\ last.q.rpc = "ExternalObjectRequest" /\ last.rest.sent # <<>> /\ last.q.asset[2].kind[1] = "payload" =>
        LET sent == last.rest.sent[1][2]
            stored == last.q.asset[2]
        IN  /\ sent.digest = Sum256(sent.kind[2])
            /\ DecodePayload(sent.kind[2], sent.encoding) = DecodePayload(stored.kind[2], stored.encoding)

\* The recursive listing of the device has each param once, and is what single requests
\* find: every listed oid is found with the same info, every oid that is found is listed,
\* and asking for an oid recursively gives the listed oids that begin with it.
ListedAsFound ==
    LET all == paramInfosForRequest(Params, <<>>, TRUE).value
        listed == {all[i].oid : i \in DOMAIN all}
        paths == UNION {[1..n -> Oids] : n \in 1..3}
    IN  last = Silence =>
        /\ Cardinality(listed) = Len(all)
        /\ \A i \in DOMAIN all : paramInfosForRequest(Params, all[i].oid, FALSE) = Reply(<<all[i]>>)
        /\ \A oid \in paths :
             LET r == paramInfosForRequest(Params, oid, TRUE)
             IN  IF IsOk(r) THEN r.value = SelectSeq(all, LAMBDA i : IsPrefix(oid, i.oid)) ELSE oid \notin listed

\* What goes through the conversions of value.go, json_utils.go and asset.go arrives: params
\* stay well typed, values that are set are echoed, device and assets are sent as they are,
\* and the infos of params are those of the params.
ConversionsFaithful == TypeOK /\ SetValueEchoed /\ DeviceJSONComplete /\ TranscodedFaithfully /\ ListedAsFound
=============================================================================
