----------------------------- MODULE DeviceParams -----------------------------
(***************************************************************************)
(* The parameters of a device of the C++ SDK: JSON-pointer paths, the      *)
(* descriptors with their inherited scopes and read-only flags, the        *)
(* constraints, the conversion of native values from and to the protocol,  *)
(* and the way from a path to a parameter. The requests that use them are  *)
(* steps of module Device.                                                 *)
(*                                                                         *)
(* A native value is <<type, contents>>: a vector holds the sequence of    *)
(* its elements, a struct a function of its fields, a variant the name of  *)
(* its alternative and the value. A value of the protocol is               *)
(* <<kind, contents>> of the same shape. Strings are sequences of letters, *)
(* floats multiples of a small unit.                                       *)
(***************************************************************************)
EXTENDS DeviceScopes

CONSTANTS DefaultMaxLength,    \* as given to set_default_max_length
          DefaultTotalLength,  \* as given to set_default_total_length
          Width,               \* bits of an int32_t
          IndexTexts,          \* the texts of indices: [text -> number]
          BadTexts             \* texts that are no segment of a path

ASSUME WidthAssumption == Width \in Nat \ {0}

\* The first error of a sequence of codes, or OK
FirstError(codes) == LET i == SelectInSeq(codes, LAMBDA c : c # OK) IN IF i = 0 THEN OK ELSE codes[i]

-----------------------------------------------------------------------------
(* Path.cpp *)

\* Index(-1), and the values next to it
kEnd == 2^20
kNone == kEnd - 2

\* Path(jptr): jptr is the sequence of the texts between the slashes. An index that stoul
\* cannot represent is an exception that is not one of the SDK's.
Segment(text) == IF text = "-" THEN <<"index", kEnd>>
                 ELSE IF text \in DOMAIN IndexTexts THEN <<"index", IndexTexts[text]>> ELSE <<"string", text>>
Path(jptr) ==
    IF \E i \in DOMAIN jptr : jptr[i] \in BadTexts THEN Fail(INVALID_ARGUMENT)
    ELSE IF \E i \in DOMAIN jptr : jptr[i] \in DOMAIN IndexTexts /\ IndexTexts[jptr[i]] > kEnd THEN Fail(INTERNAL)
    ELSE Ok([segments |-> [i \in DOMAIN jptr |-> Segment(jptr[i])], front |-> 0])

empty(path) == path.front >= Len(path.segments)
front_is_index(path) == ~empty(path) /\ path.segments[path.front + 1][1] = "index"
front_is_string(path) == ~empty(path) /\ path.segments[path.front + 1][1] = "string"
front_as(path) == path.segments[path.front + 1][2]
back_is_index(path) == path.segments # <<>> /\ Last(path.segments)[1] = "index"
back_as(path) == Last(path.segments)[2]
pop(path) == IF empty(path) THEN path ELSE [path EXCEPT !.front = @ + 1]
push_back(path, idx) == [path EXCEPT !.segments = Append(@, <<"index", idx>>)]

popBack(path) ==
    IF path.segments = <<>> THEN path
    ELSE [segments |-> SubSeq(path.segments, 1, Len(path.segments) - 1),
          front |-> IF path.front > Len(path.segments) - 1 THEN Len(path.segments) - 1 ELSE path.front]

\* The text of an index, as std::to_string and toString write it
Text(idx) == CHOOSE text \in DOMAIN IndexTexts : IndexTexts[text] = idx

-----------------------------------------------------------------------------
(* ParamDescriptor *)

type(pd) == Descriptors[pd].type
getAllSubParams(pd) == {s \in DOMAIN Descriptors : Descriptors[s].parent = pd}
getSubParam(pd, oid) == CHOOSE s \in getAllSubParams(pd) : Descriptors[s].oid = oid

\* Mutant of readOnly: it is not inherited.
readOnlyItself(pd) == read_only[pd]
RECURSIVE readOnly(_)
readOnly(pd) == read_only[pd] \/ (Descriptors[pd].parent # "none" /\ readOnly(Descriptors[pd].parent))

kDefaultMaxArrayLength == 1024
default_max_length == IF DefaultMaxLength > 0 THEN DefaultMaxLength ELSE kDefaultMaxArrayLength
default_total_length == IF DefaultTotalLength > 0 THEN DefaultTotalLength ELSE kDefaultMaxArrayLength
max_length(pd) == IF Descriptors[pd].max_length > 0 THEN Descriptors[pd].max_length ELSE default_max_length
total_length(pd) == IF Descriptors[pd].total_length > 0 THEN Descriptors[pd].total_length ELSE default_total_length

writeAuthz(authz, pd) == ~readOnly(pd) /\ writeAuthzScope(authz, getScope(pd))

-----------------------------------------------------------------------------
(* Constraints. Signed overflow wraps around in what the compilers make of it. *)

Wrap(n) == ((n + 2^(Width - 1)) % 2^Width) - 2^(Width - 1)
AbsVal(n) == IF n < 0 THEN -n ELSE n
\* % of C++, which has the sign of the dividend
Rem(a, b) == IF a < 0 THEN -(AbsVal(a) % AbsVal(b)) ELSE a % AbsVal(b)

constraint(pd) == Descriptors[pd].constraint
NoConstraint == [kind |-> "none"]
RangeConstraint(kind, min, max, step) == [kind |-> kind, min |-> min, max |-> max, step |-> Wrap(AbsVal(step))]
ChoiceConstraint(kind, choices, strict) == [kind |-> kind, choices |-> choices, strict |-> strict]
isRange(c) == c.kind \in {"INT_RANGE", "FLOAT_RANGE"}

\* How far n is above a step of the range
OffStep(c, n) == Rem(Wrap(n - c.min), c.step)

applyInt(c, n) ==
    IF n < c.min THEN c.min ELSE IF n > c.max THEN c.max
    ELSE IF c.step # 0 /\ OffStep(c, n) # 0 THEN Wrap(n - OffStep(c, n)) ELSE n

\* What stands for the float that compares false with every number
NaN == 2^20

\* std::round of (n - min) / step, which is NaN for NaN: it passes all comparisons.
applyFloat(c, n) ==
    LET near == c.min + ((2 * (n - c.min) + c.step) \div (2 * c.step)) * c.step
    IN  IF n = NaN THEN NaN ELSE IF n < c.min THEN c.min ELSE IF n > c.max THEN c.max
        ELSE IF c.step = 0 THEN n ELSE IF near > c.max THEN c.max ELSE near

apply(c, n) == IF c.kind = "INT_RANGE" THEN applyInt(c, n) ELSE applyFloat(c, n)

satisfied(c, v) ==
    CASE c.kind = "INT_RANGE" -> /\ v[1] = "int32_value" /\ v[2] >= c.min /\ v[2] <= c.max
                                 /\ c.step = 0 \/ OffStep(c, v[2]) = 0
      [] c.kind = "FLOAT_RANGE" -> /\ v[1] = "float32_value" /\ v[2] # NaN /\ v[2] >= c.min /\ v[2] <= c.max
                                   /\ applyFloat(c, v[2]) = v[2]
      [] c.kind = "INT_CHOICE" -> v[2] \in c.choices
      [] OTHER -> ~c.strict \/ v[2] \in c.choices

-----------------------------------------------------------------------------
(* Native types and kinds of protocol values *)

NativeType == [EMPTY |-> "empty", INT32 |-> "int32", FLOAT32 |-> "float", STRING |-> "string", INT32_ARRAY |-> "int32s",
               FLOAT32_ARRAY |-> "floats", STRING_ARRAY |-> "strings", STRUCT |-> "struct", STRUCT_ARRAY |-> "structs",
               STRUCT_VARIANT |-> "variant", STRUCT_VARIANT_ARRAY |-> "variants"]
ElemType == [int32s |-> "int32", floats |-> "float", strings |-> "string", structs |-> "struct", variants |-> "variant"]
Kind == [int32 |-> "int32_value", float |-> "float32_value", string |-> "string_value", struct |-> "struct_value",
         int32s |-> "int32_array_values", floats |-> "float32_array_values", strings |-> "string_array_values",
         structs |-> "struct_array_values", variant |-> "struct_variant_value", variants |-> "struct_variant_array_values"]
IsVector(t) == t \in DOMAIN ElemType
Native(pd) == NativeType[type(pd)]

\* T() of a type whose fields or alternatives pd describes
RECURSIVE Default(_, _)
Default(t, pd) ==
    CASE t \in {"int32", "float", "empty"} -> <<t, 0>>
      [] t = "string" \/ IsVector(t) -> <<t, <<>>>>
      [] t = "struct" -> <<t, [f \in ToSet(Descriptors[pd].fields) |-> LET s == getSubParam(pd, f) IN Default(Native(s), s)]>>
      [] t = "variant" -> LET f == Descriptors[pd].fields[1]
                              s == getSubParam(pd, f)
                          IN  <<t, [type |-> f, value |-> Default(Native(s), s)]>>

-----------------------------------------------------------------------------
(* toProto *)

RECURSIVE toProto(_, _, _)
toProtoArray(v, pd, authz) ==
    LET r == [i \in DOMAIN v[2] |-> toProto(v[2][i], pd, authz)]
    IN  IF \A i \in DOMAIN r : r[i].code = OK THEN Ok(<<Kind[v[1]], [i \in DOMAIN r |-> r[i].value]>>)
        ELSE Fail(PERMISSION_DENIED)
toProtoVariant(v, pd, authz) ==
    LET r == toProto(v[2].value, getSubParam(pd, v[2].type), authz)
    IN  IF r.code = OK THEN Ok(<<Kind[v[1]], [type |-> v[2].type, value |-> r.value]>>) ELSE r

\* Mutant of toProtoStruct: the fields are written for those who may read the struct.
toProtoStructWhole(v, pd, authz) ==
    Ok(<<Kind[v[1]], [f \in DOMAIN v[2] |-> toProto(v[2][f], getSubParam(pd, f), kAuthzDisabled).value]>>)
toProtoStruct(v, pd, authz) ==
    LET r == [f \in DOMAIN v[2] |-> toProto(v[2][f], getSubParam(pd, f), authz)]
    IN  IF \A f \in DOMAIN r : r[f].code = OK THEN Ok(<<Kind[v[1]], [f \in DOMAIN r |-> r[f].value]>>)
        ELSE Fail(PERMISSION_DENIED)

toProto(v, pd, authz) ==
    IF v[1] = "empty" THEN Ok(NoValue)
    ELSE IF ~readAuthz(authz, pd) THEN Fail(PERMISSION_DENIED)
    ELSE CASE v[1] = "struct" -> toProtoStruct(v, pd, authz)
           [] v[1] = "variant" -> toProtoVariant(v, pd, authz)
           [] IsVector(v[1]) -> toProtoArray(v, pd, authz)
           [] OTHER -> Ok(<<Kind[v[1]], v[2]>>)

-----------------------------------------------------------------------------
(* validFromProto: the status of giving src to a T described by pd *)

RECURSIVE validFromProto(_, _, _, _)
ConstraintMet(pd, v) == LET c == constraint(pd) IN c = NoConstraint \/ isRange(c) \/ satisfied(c, v)

validInt32(src, pd) == IF ConstraintMet(pd, src) THEN OK ELSE INVALID_ARGUMENT
validFloat(src, pd) == IF ConstraintMet(pd, src) THEN OK ELSE INVALID_ARGUMENT
validString(src, pd) ==
    IF type(pd) = "STRING" /\ Len(src[2]) > total_length(pd) THEN OUT_OF_RANGE
    ELSE IF ConstraintMet(pd, src) THEN OK ELSE INVALID_ARGUMENT

validNumbers(src, pd) ==
    IF Len(src[2]) > max_length(pd) THEN OUT_OF_RANGE
    ELSE IF \A i \in DOMAIN src[2] : ConstraintMet(pd, src[2][i]) THEN OK ELSE INVALID_ARGUMENT

\* The lengths are added up to the first string that is no choice.
validStrings(src, pd) ==
    LET bad == SelectInSeq(src[2], LAMBDA v : ~ConstraintMet(pd, v))
        counted == IF bad = 0 THEN src[2] ELSE SubSeq(src[2], 1, bad)
    IN  IF Len(src[2]) > max_length(pd) THEN OUT_OF_RANGE
        ELSE IF FoldSeq(LAMBDA v, n : Len(v[2]) + n, 0, counted) > total_length(pd) THEN OUT_OF_RANGE
        ELSE IF bad # 0 THEN INVALID_ARGUMENT ELSE OK

\* Mutant of validStruct: the first field decides.
validStructFirst(src, pd, authz) ==
    LET f == Descriptors[pd].fields[1]
    IN  IF f \notin DOMAIN src[2] THEN INVALID_ARGUMENT
        ELSE validFromProto(Native(getSubParam(pd, f)), src[2][f], getSubParam(pd, f), authz)
validStruct(src, pd, authz) ==
    LET Field(f) == LET s == getSubParam(pd, f) IN
                    IF f \notin DOMAIN src[2] THEN INVALID_ARGUMENT ELSE validFromProto(Native(s), src[2][f], s, authz)
    IN  FirstError([i \in DOMAIN Descriptors[pd].fields |-> Field(Descriptors[pd].fields[i])])

validVariant(src, pd, authz) ==
    IF src[2].type \notin ToSet(Descriptors[pd].fields) THEN INVALID_ARGUMENT
    ELSE LET s == getSubParam(pd, src[2].type) IN validFromProto(Native(s), src[2].value, s, authz)

\* Arrays of structs and of variants
validStructs(t, src, pd, authz) ==
    IF Len(src[2]) > max_length(pd) THEN OUT_OF_RANGE
    ELSE FirstError([i \in DOMAIN src[2] |-> validFromProto(ElemType[t], src[2][i], pd, authz)])

validFromProto(t, src, pd, authz) ==
    IF t = "empty" THEN OK
    ELSE IF ~writeAuthz(authz, pd) THEN PERMISSION_DENIED
    ELSE IF src[1] # Kind[t] THEN INVALID_ARGUMENT
    ELSE CASE t = "int32" -> validInt32(src, pd)
           [] t = "float" -> validFloat(src, pd)
           [] t = "string" -> validString(src, pd)
           [] t \in {"int32s", "floats"} -> validNumbers(src, pd)
           [] t = "strings" -> validStrings(src, pd)
           [] t = "struct" -> validStruct(src, pd, authz)
           [] t = "variant" -> validVariant(src, pd, authz)
           [] OTHER -> validStructs(t, src, pd, authz)

-----------------------------------------------------------------------------
(* fromProto: the status, and the value that old becomes. What the parts answer is not *)
(* looked at: a part that is refused stays as it was.                                  *)

RECURSIVE fromProto(_, _, _, _, _)
fromNumber(t, src, pd) ==
    LET c == constraint(pd) IN <<t, IF c # NoConstraint /\ isRange(c) THEN apply(c, src[2]) ELSE src[2]>>
fromNumbers(t, src, pd) == <<t, [i \in DOMAIN src[2] |-> fromNumber(ElemType[t], src[2][i], pd)]>>
fromStrings(t, src) == <<t, [i \in DOMAIN src[2] |-> <<"string", src[2][i][2]>>]>>
fromStruct(t, src, pd, authz, old) ==
    <<t, [f \in DOMAIN old[2] |-> LET s == getSubParam(pd, f) IN fromProto(Native(s), src[2][f], s, authz, old[2][f]).value]>>
\* _changeType makes a default value of another alternative.
fromVariant(t, src, pd, authz, old) ==
    LET s == getSubParam(pd, src[2].type)
        was == IF old[2].type = src[2].type THEN old[2].value ELSE Default(Native(s), s)
    IN  <<t, [type |-> src[2].type, value |-> fromProto(Native(s), src[2].value, s, authz, was).value]>>
fromStructs(t, src, pd, authz) ==
    <<t, [i \in DOMAIN src[2] |-> fromProto(ElemType[t], src[2][i], pd, authz, Default(ElemType[t], pd)).value]>>

fromProto(t, src, pd, authz, old) ==
    LET code == validFromProto(t, src, pd, authz)
    IN  IF code # OK \/ t = "empty" THEN [code |-> code, value |-> old]
        ELSE Ok(CASE t \in {"int32", "float"} -> fromNumber(t, src, pd)
                  [] t = "string" -> <<t, src[2]>>
                  [] t \in {"int32s", "floats"} -> fromNumbers(t, src, pd)
                  [] t = "strings" -> fromStrings(t, src)
                  [] t = "struct" -> fromStruct(t, src, pd, authz, old)
                  [] t = "variant" -> fromVariant(t, src, pd, authz, old)
                  [] OTHER -> fromStructs(t, src, pd, authz))

-----------------------------------------------------------------------------
(* ParamWithValue: a native type, a descriptor, and the place of the value: the       *)
(* top-level param and the steps from there.                                          *)

RECURSIVE At(_, _)
At(v, place) ==
    IF place = <<>> THEN v
    ELSE LET step == Head(place) IN
         At(IF v[1] = "variant" THEN v[2].value ELSE v[2][step[2]], Tail(place))
RECURSIVE Put(_, _, _)
Put(v, place, new) ==
    IF place = <<>> THEN new
    ELSE LET step == Head(place) IN
         IF v[1] = "variant" THEN <<v[1], [v[2] EXCEPT !.value = Put(@, Tail(place), new)]>>
         ELSE <<v[1], [v[2] EXCEPT ![step[2]] = Put(@, Tail(place), new)]>>

Param(top, place, t, pd) == [top |-> top, place |-> place, t |-> t, pd |-> pd]
ValueOf(p) == At(values[p.top], p.place)
Inner(p, step, t, pd) == Param(p.top, Append(p.place, step), t, pd)

size(p) == IF p.t = "string" \/ IsVector(p.t) THEN Len(ValueOf(p)[2]) ELSE 0
isArrayType(p) == type(p.pd) \in {"STRUCT_ARRAY", "INT32_ARRAY", "FLOAT32_ARRAY", "STRING_ARRAY", "STRUCT_VARIANT_ARRAY"}

\* A sub-param of an EmptyValue is an EmptyValue. An index is looked up as a name.
RECURSIVE getParam(_, _, _)
Found(p, path, authz) ==
    IF ~empty(path) THEN getParam(p, path, authz)
    ELSE IF readAuthz(authz, p.pd) THEN Ok(p) ELSE Fail(PERMISSION_DENIED)
getParamOfEmpty(p, path, authz) ==
    LET name == IF front_is_index(path) THEN Text(front_as(path)) ELSE front_as(path)
        subs == {s \in getAllSubParams(p.pd) : Descriptors[s].oid = name}
    IN  IF subs = {} THEN Fail(NOT_FOUND) ELSE Found([p EXCEPT !.pd = CHOOSE s \in subs : TRUE], pop(path), authz)
getParamOfVector(p, path, authz) ==
    LET i == front_as(path)
        t == ElemType[p.t]
        elem == Inner(p, <<"element", i + 1>>, t, p.pd)
    IN  IF ~front_is_index(path) THEN Fail(INVALID_ARGUMENT)
        ELSE IF i >= size(p) THEN Fail(OUT_OF_RANGE)
        ELSE IF empty(pop(path)) THEN Ok(elem)
        ELSE IF t \in {"struct", "variant"} THEN getParam(elem, pop(path), authz) ELSE Fail(NOT_FOUND)
getParamOfStruct(p, path, authz) ==
    IF ~front_is_string(path) THEN Fail(INVALID_ARGUMENT)
    ELSE IF front_as(path) \notin ToSet(Descriptors[p.pd].fields) THEN Fail(NOT_FOUND)
    ELSE LET s == getSubParam(p.pd, front_as(path)) IN Found(Inner(p, <<"field", front_as(path)>>, Native(s), s), pop(path), authz)
getParamOfVariant(p, path, authz) ==
    IF ~front_is_string(path) THEN Fail(INVALID_ARGUMENT)
    ELSE IF ValueOf(p)[2].type # front_as(path) THEN Fail(NOT_FOUND)
    ELSE LET s == getSubParam(p.pd, front_as(path)) IN Found(Inner(p, <<"alternative", front_as(path)>>, Native(s), s), pop(path), authz)

getParam(p, path, authz) ==
    IF ~readAuthz(authz, p.pd) THEN Fail(PERMISSION_DENIED)
    ELSE CASE p.t = "empty" -> getParamOfEmpty(p, path, authz)
           [] IsVector(p.t) -> getParamOfVector(p, path, authz)
           [] p.t = "struct" -> getParamOfStruct(p, path, authz)
           [] p.t = "variant" -> getParamOfVariant(p, path, authz)
           [] OTHER -> Fail(INVALID_ARGUMENT)

addBack(p, authz) ==
    IF ~IsVector(p.t) THEN Fail(INVALID_ARGUMENT)
    ELSE IF ~writeAuthz(authz, p.pd) THEN Fail(PERMISSION_DENIED)
    ELSE IF size(p) >= max_length(p.pd) THEN Fail(OUT_OF_RANGE)
    ELSE Ok(Inner(p, <<"element", size(p) + 1>>, ElemType[p.t], p.pd))

\* validateSetValue with fresh trackers: a request with one entry
ValidateWhole(p, src, index, authz) ==
    LET code == validFromProto(p.t, src, p.pd, authz)
        length == IF src[1] = "string_value" \/ src[1] \in {Kind[t] : t \in DOMAIN ElemType} THEN Len(src[2]) ELSE 0
    IN  IF index # kNone THEN INVALID_ARGUMENT
        ELSE IF code # OK THEN code ELSE IF length > max_length(p.pd) THEN OUT_OF_RANGE ELSE OK
ValidateElement(p, src, index, authz) ==
    LET code == validFromProto(ElemType[p.t], src, p.pd, authz)
        Size(v) == IF v[1] \in {"string", "string_value"} THEN Len(v[2]) ELSE 0
        sizes == [i \in 1..size(p) |-> Size(ValueOf(p)[2][i])]
        after == IF index = kEnd THEN Append(sizes, Size(src)) ELSE [sizes EXCEPT ![index + 1] = Size(src)]
    IN  IF index = kNone THEN INVALID_ARGUMENT
        ELSE IF index # kEnd /\ index >= size(p) THEN OUT_OF_RANGE
        ELSE IF code # OK THEN code
        ELSE IF Len(after) > max_length(p.pd) \/ FoldSeq(LAMBDA a, b : a + b, 0, after) > total_length(p.pd) THEN OUT_OF_RANGE
        ELSE OK
validateSetValue(p, src, index, authz) ==
    IF src = NoValue THEN INVALID_ARGUMENT
    ELSE IF IsVector(p.t) /\ src[1] \notin {Kind[t] : t \in DOMAIN ElemType} THEN ValidateElement(p, src, index, authz)
    ELSE ValidateWhole(p, src, index, authz)
=============================================================================
