------------------------------- MODULE GoParams -------------------------------
(***************************************************************************)
(* Params of the Go SDK: the builder, constraints, and the param info of a *)
(* tree of params. A Param is a record; a builder method is an operator    *)
(* from the Param it is called on to the Param it leaves. Labels (name,    *)
(* help, widget, hints, aliases, scopes and other flags), which no method  *)
(* reads, are left out.                                                    *)
(***************************************************************************)
EXTENDS GoAssets, SequencesExt

CONSTANTS OidOrder,          \* the oids of params, in the order of sort.Strings
          NativeToProto(_),  \* ToProto of a native value, see GoValues
          ProtoToNative(_)   \* FromProto of a value of the protocol

Oids == ToSet(OidOrder)

\* The kinds of value that a type of param takes, and the only one that it has by itself.
ValueKinds ==
    [UNDEFINED |-> "undefined_value", EMPTY |-> "empty_value", INT32 |-> "int32_value",
     FLOAT32 |-> "float32_value", STRING |-> "string_value", STRUCT |-> "struct_value",
     STRUCT_VARIANT |-> "struct_variant_value", INT32_ARRAY |-> "int32_array_values",
     FLOAT32_ARRAY |-> "float32_array_values", STRING_ARRAY |-> "string_array_values",
     BINARY |-> "data_payload", STRUCT_ARRAY |-> "struct_array_values",
     STRUCT_VARIANT_ARRAY |-> "struct_variant_array_values", DATA |-> "data_payload"]
ParamTypes == DOMAIN ValueKinds

isValueValidForParamType(v, pt) == v # nil /\ v[1] = ValueKinds[pt]

paramTypeFromValueKind(v) ==
    IF \E pt \in ParamTypes : isValueValidForParamType(v, pt)
    THEN CHOOSE pt \in ParamTypes \ {"BINARY"} : isValueValidForParamType(v, pt)
    ELSE "UNDEFINED"

-----------------------------------------------------------------------------
(* Constraints: their kind. *)

NoConstraint == "none"
NewConstraintInt32Choice == "int32_choice"
NewConstraintInt32Range == "int32_range"
NewConstraintInt32RangeWithDisplay == "int32_range"
NewConstraintFloatRange == "float_range"
NewConstraintFloatRangeWithDisplay == "float_range"
NewConstraintStringChoice == "string_choice"
NewConstraintStringStringChoice == "string_string_choice"
NewConstraintAlarmTable == "alarm_table"
NewConstraintRefOid == "ref_oid"
Constraints == {NewConstraintInt32Choice, NewConstraintInt32Range, NewConstraintFloatRange, NewConstraintStringChoice,
                NewConstraintStringStringChoice, NewConstraintAlarmTable, NewConstraintRefOid}

isConstraintValidForParam(c, pt) ==
    \/ c = "ref_oid"
    \/ c \in {"int32_range", "int32_choice", "alarm_table"} /\ pt \in {"INT32", "INT32_ARRAY"}
    \/ c = "float_range" /\ pt \in {"FLOAT32", "FLOAT32_ARRAY"}
    \/ c \in {"string_choice", "string_string_choice"} /\ pt \in {"STRING", "STRING_ARRAY"}

-----------------------------------------------------------------------------
(* Factories. *)

NewParam(type, value) ==
    [type |-> type, value |-> value, constraint |-> NoConstraint, precision |-> 0, maxLength |-> 0,
     response |-> FALSE, templateOid |-> "", params |-> [oid \in {} |-> nil]]

\* A value that cannot be converted is left out, with a warning.
NewParamConverted(type, v) == NewParam(type, NativeToProto(v).value)

NewParamInt32(v) == NewParam("INT32", <<"int32_value", v[2]>>)
NewParamFloat32(v) == NewParam("FLOAT32", <<"float32_value", v[2]>>)
NewParamString(v) == NewParam("STRING", <<"string_value", v[2]>>)
NewParamStruct(v) == NewParamConverted("STRUCT", v)
NewParamStructVariant(v) == NewParamConverted("STRUCT_VARIANT", v)
NewParamInt32Array(v) == NewParam("INT32_ARRAY", <<"int32_array_values", v[2]>>)
NewParamFloat32Array(v) == NewParam("FLOAT32_ARRAY", <<"float32_array_values", v[2]>>)
NewParamStringArray(v) == NewParam("STRING_ARRAY", <<"string_array_values", v[2]>>)
NewParamBinary(bytes) ==
    NewParam("BINARY", <<"data_payload", [kind |-> <<"payload", bytes>>, encoding |-> "UNCOMPRESSED", digest |-> NoDigest]>>)
NewParamStructArray(v) == NewParamConverted("STRUCT_ARRAY", v)
NewParamStructVariantArray(v) == NewParamConverted("STRUCT_VARIANT_ARRAY", v)
NewParamEmpty == NewParam("EMPTY", <<"empty_value", 0>>)
NewParamData(v) == NewParamConverted("DATA", v)
NewParamFromValue(pv) == NewParam(paramTypeFromValueKind(pv), pv)

\* The factory that takes the Go type of v.
NewParamOf(v) ==
    CASE v[1] = "int32" -> NewParamInt32(v)
      [] v[1] = "float32" -> NewParamFloat32(v)
      [] v[1] = "string" -> NewParamString(v)
      [] v[1] = "map" -> NewParamStruct(v)
      [] v[1] = "StructVariantValue" -> NewParamStructVariant(v)
      [] v[1] = "ints" -> NewParamInt32Array(v)
      [] v[1] = "floats" -> NewParamFloat32Array(v)
      [] v[1] = "strings" -> NewParamStringArray(v)
      [] v[1] = "maps" -> NewParamStructArray(v)
      [] v[1] = "StructVariantValues" -> NewParamStructVariantArray(v)
      [] v[1] = "DataPayload" -> NewParamData(v)
      [] OTHER -> NewParamEmpty

-----------------------------------------------------------------------------
(* Builder methods: on a param of the wrong type they warn and do nothing. *)

When(condition, changed, p) == IF condition THEN changed ELSE p

WithValue(p, pv) == When(isValueValidForParamType(pv, p.type), [p EXCEPT !.value = pv], p)
WithConstraint(p, c) == When(isConstraintValidForParam(c, p.type), [p EXCEPT !.constraint = c], p)
WithPrecision(p, n) == When(p.type \in {"FLOAT32", "FLOAT32_ARRAY"}, [p EXCEPT !.precision = n], p)
WithMaxLength(p, n) == When(p.type \in {"STRING", "STRING_ARRAY"}, [p EXCEPT !.maxLength = n], p)
WithResponse(p, response) == [p EXCEPT !.response = response]
WithTemplateOid(p, oid) == [p EXCEPT !.templateOid = oid]

paramTypesWithSubParams == {"STRUCT", "STRUCT_VARIANT", "STRUCT_ARRAY", "STRUCT_VARIANT_ARRAY"}

\* The sub-param is cloned: what is done to the other Param later does not reach it.
WithParam(p, oid, param) ==
    When(p.type \in paramTypesWithSubParams,
         [p EXCEPT !.params = [o \in DOMAIN p.params \cup {oid} |-> IF o = oid THEN param ELSE p.params[o]]], p)

\* The code, and the param that SetValue leaves.
SetValue(p, v) ==
    LET r == NativeToProto(v)
    IN  IF ~IsOk(r) THEN [code |-> r.code, value |-> p]
        ELSE IF ~isValueValidForParamType(r.value, p.type) THEN [code |-> StatusCodeInvalidArgument, value |-> p]
        ELSE Reply([p EXCEPT !.value = r.value])

GetValue(p) == IF p.value = nil THEN Reply(nil) ELSE ProtoToNative(p.value)
=============================================================================
