----------------------------- MODULE GoParamInfos -----------------------------
(***************************************************************************)
(* What is made of a whole tree of params: the infos that a request for    *)
(* param info lists, and the JSON of a device.                             *)
(***************************************************************************)
EXTENDS GoParams, GoValues

-----------------------------------------------------------------------------
(* param_info.go, on the maps that ToMap makes of params: the type of a     *)
(* param is still a ParamType in them (normalizeParamMap).                  *)

isArrayParamType(pt) == pt \in {"INT32_ARRAY", "FLOAT32_ARRAY", "STRING_ARRAY", "STRUCT_ARRAY", "STRUCT_VARIANT_ARRAY"}

paramArrayLength(p) == IF isArrayParamType(p.type) /\ p.value # nil THEN Len(p.value[2]) ELSE 0

newParamInfoFromDescriptor(oid, p) ==
    [oid |-> oid, type |-> p.type, templateOid |-> p.templateOid, arrayLength |-> paramArrayLength(p)]

RECURSIVE flattenParamInfos(_, _, _)
flattenParamInfos(params, prefix, recursive) ==
    LET keys == SelectSeq(OidOrder, LAMBDA k : k \in DOMAIN params)
        Infos(k) == <<newParamInfoFromDescriptor(Append(prefix, k), params[k])>> \o
                    (IF recursive THEN flattenParamInfos(params[k].params, Append(prefix, k), TRUE) ELSE <<>>)
    IN  FoldSeq(LAMBDA k, infos : Infos(k) \o infos, <<>>, Reverse(keys))

\* The descriptor at a path as a sequence of none or one.
RECURSIVE findParamDescriptor(_, _)
findParamDescriptor(params, oid) ==
    IF oid = <<>> \/ Head(oid) \notin DOMAIN params THEN <<>>
    ELSE IF Len(oid) = 1 THEN <<params[Head(oid)]>>
    ELSE findParamDescriptor(params[Head(oid)].params, Tail(oid))

paramInfosForRequest(params, oid, recursive) ==
    LET found == findParamDescriptor(params, oid)
    IN  IF oid = <<>> THEN Reply(flattenParamInfos(params, <<>>, recursive))
        ELSE IF found = <<>> THEN ReplyError(StatusCodeNotFound)
        ELSE Reply(<<newParamInfoFromDescriptor(oid, found[1])>> \o
                   (IF recursive THEN flattenParamInfos(found[1].params, oid, TRUE) ELSE <<>>))

-----------------------------------------------------------------------------
(* The JSON of a device, for MarshalDeviceJSON. *)

RECURSIVE ParamJSON(_)
ParamJSON(p) ==
    Object([k \in {"type", "value", "precision", "max_length", "total_length", "response", "template_oid", "constraint", "params"} |->
        CASE k = "type" -> <<"string", p.type>>
          [] k = "value" -> IF p.value = nil THEN <<"null", 0>> ELSE ValueJSON(p.value)
          [] k = "precision" -> <<"number", p.precision>>
          [] k = "max_length" -> <<"number", p.maxLength>>
          [] k = "total_length" -> <<"number", 0>>
          [] k = "response" -> <<"bool", p.response>>
          [] k = "template_oid" -> <<"string", p.templateOid>>
          [] k = "constraint" -> IF p.constraint = NoConstraint THEN <<"null", 0>> ELSE Object([x \in {"type"} |-> <<"string", p.constraint>>])
          [] k = "params" -> Object([oid \in DOMAIN p.params |-> ParamJSON(p.params[oid])])])

\* A device of these params and these commands, in slot 0.
DeviceJSON(params, commands) ==
    Object([k \in {"slot", "params", "commands", "constraints"} |->
        CASE k = "slot" -> <<"number", 0>>
          [] k = "params" -> Object([oid \in DOMAIN params |-> ParamJSON(params[oid])])
          [] k = "commands" -> Object([oid \in DOMAIN commands |-> ParamJSON(commands[oid])])
          [] k = "constraints" -> Object([x \in {} |-> nil])])

MarshalDeviceJSON(params, commands) == cleanDeviceJSON(DeviceJSON(params, commands))
=============================================================================
