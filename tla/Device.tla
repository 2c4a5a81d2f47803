-------------------------------- MODULE Device --------------------------------
(***************************************************************************)
(* A device of the C++ SDK and the requests of its clients: setting and    *)
(* getting values, parameter info and commands, together with the language *)
(* packs and device requests of DeviceSerializer. Every step is what one   *)
(* request does while it holds the device's mutex. Requests with several   *)
(* entries are in MultiSetValue, the protocols in GrpcCalls and            *)
(* RestService.                                                            *)
(***************************************************************************)
EXTENDS DeviceParams, DeviceSerializer

CONSTANT FirstValues    \* the values the device starts with

vars == <<values, read_only, program, languageVars, calls, last>>

-----------------------------------------------------------------------------
(* Parameters *)

\* Device::getParam of a Path
getParamAt(path, authz) ==
    LET name == front_as(path)
        tops == {d \in ToSet(Tops) : Descriptors[d].oid = name}
        top == CHOOSE d \in tops : TRUE
        p == Param(top, <<>>, Native(top), top)
    IN  IF empty(path) \/ ~front_is_string(path) THEN Fail(INVALID_ARGUMENT)
        ELSE IF tops = {} THEN Fail(NOT_FOUND)
        ELSE IF ~readAuthz(authz, top) THEN Fail(PERMISSION_DENIED)
        ELSE IF empty(pop(path)) THEN Ok(p) ELSE getParam(p, pop(path), authz)
\* and of its text
getParamOf(jptr, authz) ==
    LET path == Path(jptr) IN IF path.code # OK THEN path ELSE getParamAt(path.value, authz)

getTopLevelParams(authz) ==
    LET readable == SelectSeq(Tops, LAMBDA d : readAuthz(authz, d))
    IN  [i \in DOMAIN readable |-> getParamOf(<<Descriptors[readable[i]].oid>>, authz).value]

\* getValue: a path to one past the end of an array is refused first.
getValue(jptr, authz) ==
    LET path == Path(jptr)
        p == getParamAt(path.value, authz)
    IN  IF path.code # OK THEN path
        ELSE IF back_is_index(path.value) /\ back_as(path.value) = kEnd THEN Fail(OUT_OF_RANGE)
        ELSE IF p.code # OK THEN p ELSE toProto(ValueOf(p.value), p.value.pd, authz)

\* tryMultiSetValue with one entry
tryMultiSetValue(jptr, src, authz) ==
    LET path == Path(jptr)
        index == IF back_is_index(path.value) THEN back_as(path.value) ELSE kNone
        p == getParamAt(IF back_is_index(path.value) THEN popBack(path.value) ELSE path.value, authz)
    IN  IF path.code # OK THEN path.code ELSE IF p.code # OK THEN p.code ELSE validateSetValue(p.value, src, index, authz)

\* commitMultiSetValue: the element of an array that is set, and the values, with the element
\* added if it is new;
elementTarget(parent, index, authz) ==
    IF index = kEnd
    THEN <<addBack(parent, authz).value,
           [values EXCEPT ![parent.top] = Put(@, parent.place,
                <<parent.t, Append(ValueOf(parent)[2], Default(ElemType[parent.t], parent.pd))>>)]>>
    ELSE <<getParam(parent, push_back([segments |-> <<>>, front |-> 0], index), authz).value, values>>
\* or the param of the whole path;
commitTarget(path, authz) ==
    IF back_is_index(path) THEN elementTarget(getParamAt(popBack(path), authz).value, back_as(path), authz)
    ELSE <<getParamAt(path, authz).value, values>>
\* and what fromProto makes of it
Written(p, before, src, authz) ==
    LET new == fromProto(p.t, src, p.pd, authz, At(before[p.top], p.place))
    IN  [code |-> new.code, values |-> [before EXCEPT ![p.top] = Put(@, p.place, new.value)]]
commitMultiSetValue(jptr, src, authz) ==
    LET target == commitTarget(Path(jptr).value, authz) IN Written(target[1], target[2], src, authz)

SetValue(q) ==
    /\ q.op = "SetValue"
    /\ \E code \in {tryMultiSetValue(q.jptr, q.src, q.authz)} :
         \/ code # OK /\ last' = Answer(q, code, NoValue) /\ UNCHANGED values
         \/ code = OK /\ \E done \in {commitMultiSetValue(q.jptr, q.src, q.authz)} :
                           last' = Answer(q, done.code, NoValue) /\ values' = done.values
    /\ UNCHANGED <<read_only, program, languageVars, calls>>

GetValue(q) ==
    LET r == getValue(q.jptr, q.authz) IN q.op = "GetValue" /\ last' = Answer(q, r.code, [value |-> r.value, subs |-> {}]) /\ Reads

\* ParamDescriptor::toProto: the sub-params that the client may read
RECURSIVE subParamsFor(_, _)
subParamsFor(pd, authz) ==
    LET subs == {s \in getAllSubParams(pd) : readAuthz(authz, s)} IN subs \cup UNION {subParamsFor(s, authz) : s \in subs}

\* ParamWithValue::toProto of a Param: without its value there is no descriptor either.
paramToProto(v, pd, authz) ==
    LET r == toProto(v, pd, authz)
    IN  [code |-> r.code, value |-> [value |-> r.value, subs |-> IF r.code = OK THEN subParamsFor(pd, authz) ELSE {}]]

GetParam(q) ==
    LET p == getParamOf(q.jptr, q.authz)
        r == paramToProto(ValueOf(p.value), p.value.pd, q.authz)
    IN  /\ q.op = "GetParam" /\ Reads
        /\ last' = IF p.code = OK THEN Answer(q, r.code, r.value) ELSE Answer(q, p.code, <<>>)

-----------------------------------------------------------------------------
(* ParamVisitor::traverseParams: what it visits, at which paths *)

RECURSIVE traverseParams(_, _, _)
\* Mutant of traverseParams: the fields of a struct that is an element are left out.
traverseParamsFlat(p, jptr, authz) ==
    LET n == IF isArrayType(p) THEN size(p) ELSE 0
        Visit(j, c) == <<[kind |-> "visit", jptr |-> j, param |-> c, length |-> 0]>>
    IN  Visit(jptr, p) \o (IF n = 0 THEN <<>> ELSE <<[kind |-> "visitArray", jptr |-> jptr, param |-> p, length |-> n]>>)
        \o FlattenSeq([i \in 1..n |-> LET j == Append(jptr, Text(i - 1))
                                          c == getParamOf(j, authz)
                                      IN  IF c.code = OK THEN Visit(j, c.value) ELSE <<>>])
        \o FlattenSeq([i \in DOMAIN Descriptors[p.pd].fields |->
               LET j == Append(jptr, Descriptors[p.pd].fields[i])
                   c == getParamOf(j, authz)
               IN  IF c.code = OK THEN traverseParams(c.value, j, authz) ELSE <<>>])
traverseParams(p, jptr, authz) ==
    LET Child(text) == LET c == getParamOf(Append(jptr, text), authz) IN
                       IF c.code = OK /\ readAuthz(authz, c.value.pd) THEN traverseParams(c.value, Append(jptr, text), authz) ELSE <<>>
        n == IF isArrayType(p) THEN size(p) ELSE 0
        fields == Descriptors[p.pd].fields
    IN  <<[kind |-> "visit", jptr |-> jptr, param |-> p, length |-> 0]>>
        \o (IF n > 0 THEN <<[kind |-> "visitArray", jptr |-> jptr, param |-> p, length |-> n]>> ELSE <<>>)
        \o FlattenSeq([i \in 1..n |-> Child(Text(i - 1))])
        \o FlattenSeq([i \in DOMAIN fields |-> Child(fields[i])])

\* ParamInfoVisitor: what is added to the responses, and the length it comes with. The param
\* that was asked for has been added before.
visited(visits, prefix) ==
    SelectSeq(visits, LAMBDA v : /\ v.jptr # prefix /\ v.jptr # <<Descriptors[v.param.pd].oid>>
                                 /\ v.kind = "visitArray" \/ ~isArrayType(v.param))
addParamToResponses(p, prefix, recursive, authz) ==
    LET jptr == IF prefix = <<>> THEN <<Descriptors[p.pd].oid>> ELSE prefix
    IN  <<[kind |-> "asked", jptr |-> jptr, param |-> p, length |-> IF isArrayType(p) THEN size(p) ELSE 0]>>
        \o (IF recursive THEN visited(traverseParams(p, jptr, authz), prefix) ELSE <<>>)

\* updateArrayLengths_: a length goes to all responses with its oid that are there by then.
updateArrayLengths_(entries, i) ==
    LET Oid(j) == Descriptors[entries[j].param.pd].oid
        later == {j \in i..Len(entries) : Oid(j) = Oid(i) /\ entries[j].length > 0}
    IN  [param |-> entries[i].param, length |-> IF later = {} THEN 0 ELSE entries[CHOOSE j \in later : \A k \in later : k <= j].length]
ParamInfos(params, prefix, recursive, authz) ==
    LET responses_ == FlattenSeq([i \in DOMAIN params |-> addParamToResponses(params[i], prefix, recursive, authz)])
    IN  [i \in DOMAIN responses_ |-> updateArrayLengths_(responses_, i)]

\* Its three modes: the top-level params, all params, one param
ParamInfoRequest(q) ==
    LET p == getParamOf(q.jptr, q.authz)
        params == IF q.jptr = <<>> THEN getTopLevelParams(q.authz) ELSE <<p.value>>
    IN  /\ q.op = "ParamInfoRequest" /\ Reads
        /\ last' = IF q.jptr # <<>> /\ p.code # OK THEN Answer(q, p.code, <<>>)
                   ELSE IF params = <<>> THEN Answer(q, NOT_FOUND, <<>>)
                   ELSE Answer(q, OK, ParamInfos(params, q.jptr, q.recursive, q.authz))

\* executeCommand of the descriptor: the implementation runs if the client may write.
executeCommand(authz, c) == IF writeAuthz(authz, c) THEN OK ELSE PERMISSION_DENIED

\* getCommand, then executeCommand. sent is whether the command ran.
ExecuteCommand(q) ==
    LET path == Path(q.jptr)
        commands == {c \in Commands : Descriptors[c].oid = front_as(path.value)}
        c == CHOOSE x \in commands : TRUE
        code == IF path.code # OK THEN path.code
                ELSE IF empty(path.value) \/ ~front_is_string(path.value) THEN INVALID_ARGUMENT
                ELSE IF commands = {} THEN NOT_FOUND
                ELSE IF ~readAuthz(q.authz, c) THEN PERMISSION_DENIED
                ELSE IF ~empty(pop(path.value)) THEN UNIMPLEMENTED
                ELSE executeCommand(q.authz, c)
    IN  /\ q.op = "ExecuteCommand" /\ Reads
        /\ last' = Answer(q, code, IF code = OK THEN <<c>> ELSE <<>>)

\* The application makes a param read-only, or writable.
SetReadOnly(q) ==
    /\ q.op = "SetReadOnly"
    /\ read_only' = [read_only EXCEPT ![q.pd] = q.flag]
    /\ last' = Answer(q, OK, <<>>)
    /\ UNCHANGED <<values, program, languageVars, calls>>

-----------------------------------------------------------------------------
Init ==
    /\ values = FirstValues
    /\ read_only = [d \in DOMAIN Descriptors |-> Descriptors[d].read_only]
    /\ SerializerInit
    /\ last = Silence

\* The answer has been read: last is only there to be looked at.
Forget == last # Silence /\ last' = Silence /\ Reads

Next ==
    \/ /\ last = Silence
       /\ \/ \E q \in Programs[program] :
               SetValue(q) \/ GetValue(q) \/ GetParam(q) \/ ParamInfoRequest(q) \/ ExecuteCommand(q) \/ SetReadOnly(q)
          \/ SerializerNext
    \/ Forget

Spec == Init /\ [][Next]_vars
-----------------------------------------------------------------------------
(* Properties *)

Under(text, parts) == {[x EXCEPT !.at = <<text>> \o @] : x \in parts}
\* The parts of a value that a client may come to, each with its path from there
RECURSIVE Parts(_, _, _)
Parts(v, pd, authz) ==
    LET Sub(f, inner) == LET s == getSubParam(pd, f) IN Under(f, Parts(inner, s, authz))
    IN  IF ~readAuthzScope(authz, getScope(pd)) THEN {}
        ELSE {[at |-> <<>>, pd |-> pd, value |-> v]} \cup
             CASE IsVector(v[1]) -> UNION {Under(Text(i - 1), Parts(v[2][i], pd, authz)) : i \in DOMAIN v[2]}
               [] v[1] = "struct" -> UNION {Sub(f, v[2][f]) : f \in DOMAIN v[2]}
               [] v[1] = "variant" -> Sub(v[2].type, v[2].value)
               [] v[1] = "empty" -> UNION {Sub(f, v) : f \in ToSet(Descriptors[pd].fields)}
               [] OTHER -> {}
PartsOf(vals, top) == Under(Descriptors[top].oid, Parts(vals[top], top, kAuthzDisabled))
Leaves(parts) == {x \in parts : x.value[1] \in {"int32", "float", "string"}}

\* The descriptors from pd up to the top
RECURSIVE Lineage(_)
Lineage(pd) == {pd} \cup (IF Descriptors[pd].parent = "none" THEN {} ELSE Lineage(Descriptors[pd].parent))
MayWrite(authz, pd) == (\A a \in Lineage(pd) : ~read_only[a]) /\ writeAuthzScope(authz, getScope(pd))

\* The descriptors of all that a value of the protocol tells
RECURSIVE Tells(_, _)
Tells(v, pd) ==
    CASE v[1] = "none" -> {}
      [] v[1] = "struct_value" -> {pd} \cup UNION {Tells(v[2][f], getSubParam(pd, f)) : f \in DOMAIN v[2]}
      [] v[1] = "struct_variant_value" -> {pd} \cup Tells(v[2].value, getSubParam(pd, v[2].type))
      [] v[1] \in {Kind[t] : t \in DOMAIN ElemType} -> {pd} \cup UNION {Tells(v[2][i], pd) : i \in DOMAIN v[2]}
      [] OTHER -> {pd}

\* A request that is refused writes nothing, although commitMultiSetValue has appended an
\* element by the time fromProto answers. What an accepted one writes is at descriptors whose
\* scope the client may write and that are read-only neither themselves nor through a
\* descriptor above them, and a command only runs for such a client (validFromProto and
\* executeCommand ask the Authorizer at every level).
OnlyAuthorizedWrites ==
    [][/\ last'.op = "SetValue" =>
            IF last'.code # OK THEN values' = values
            ELSE \A top \in {t \in ToSet(Tops) : values'[t] # values[t]} :
                   \A x \in Leaves(PartsOf(values', top)) \ Leaves(PartsOf(values, top)) : MayWrite(last'.q.authz, x.pd)
       /\ last'.op = "ExecuteCommand" => \A i \in DOMAIN last'.sent : MayWrite(last'.q.authz, last'.sent[i])]_vars

\* No answer has a value, a descriptor or a piece of parameter info that the client's token
\* does not let it read: not inside a struct, an array or a variant, and not in a component
\* of a device request.
OnlyAuthorizedReads ==
    /\ last.op \in {"GetValue", "GetParam"} /\ last.code = OK =>
         LET pd == getParamOf(last.q.jptr, kAuthzDisabled).value.pd
         IN  \A d \in Tells(last.sent.value, pd) \cup last.sent.subs : readAuthz(last.q.authz, d)
    /\ last.op = "ParamInfoRequest" => \A i \in DOMAIN last.sent : readAuthz(last.q.authz, last.sent[i].param.pd)
    /\ \A c \in Serializers : \A i \in DOMAIN calls[c].sent :
         LET x == calls[c].sent[i] IN
         x[1] \in {"params", "commands"} =>
           \A d \in {x[2]} \cup Tells(x[3].value, x[2]) \cup x[3].subs : readAuthz(calls[c].authz, d)

\* Every number and string that the device holds meets its constraint: a value that
\* fromProto let through its range is on a step or at the maximum, a choice is one of the
\* choices. Two exceptions: in a range whose width is itself no int32_t the distance from the
\* minimum may wrap, and NaN passes every range of floats. Looked at between two requests.
Meets(c, v) ==
    CASE c.kind = "none" -> TRUE
      [] isRange(c) -> v[2] \in c.min..c.max /\ (c.step # 0 => (v[2] = c.max \/ (v[2] - c.min) % c.step = 0))
      [] c.kind = "INT_CHOICE" \/ c.strict -> v[2] \in c.choices
      [] OTHER -> TRUE
Wraps(c, distance) == c.kind = "INT_RANGE" /\ distance >= 2^(Width - 1)
ConstraintsHold ==
    last = Silence => \A top \in ToSet(Tops) : \A x \in Leaves(PartsOf(values, top)) :
      LET c == constraint(x.pd)
      IN  \/ Meets(c, x.value)
          \/ isRange(c) /\ Wraps(c, c.max - c.min)
          \/ c.kind = "FLOAT_RANGE" /\ x.value[2] = NaN

\* got is what became of asked: the same, with each number brought into its range. In a range
\* of any width, that is so for each number that is not too far above the minimum.
Brought(c, asked, got) ==
    IF ~isRange(c) \/ asked = NaN THEN got = asked
    ELSE IF asked < c.min THEN got = c.min ELSE IF asked > c.max THEN got = c.max
    ELSE Wraps(c, asked - c.min) \/ got = asked \/ (Meets(c, <<"number", got>>) /\ AbsVal(got - asked) < c.step)
RECURSIVE Became(_, _, _)
Became(asked, got, pd) ==
    CASE got = NoValue -> TRUE
      [] got[1] # asked[1] -> FALSE
      [] got[1] \in {"int32_value", "float32_value"} -> Brought(constraint(pd), asked[2], got[2])
      [] got[1] = "string_value" -> got = asked
      [] got[1] = "struct_value" -> \A f \in DOMAIN got[2] : Became(asked[2][f], got[2][f], getSubParam(pd, f))
      [] got[1] = "struct_variant_value" -> /\ got[2].type = asked[2].type
                                            /\ Became(asked[2].value, got[2].value, getSubParam(pd, got[2].type))
      [] OTHER -> Len(got[2]) = Len(asked[2]) /\ \A i \in DOMAIN got[2] : Became(asked[2][i], got[2][i], pd)

\* The path at which the value of a request is afterwards
WhereSet(jptr) ==
    IF Last(jptr) # "-" THEN jptr
    ELSE LET array == SubSeq(jptr, 1, Len(jptr) - 1) IN Append(array, Text(size(getParamOf(array, kAuthzDisabled).value) - 1))
\* A value that is accepted is what the same client reads there afterwards, but for numbers
\* brought into their range (Brought): validFromProto, fromProto and toProto agree on every type.
SetReadsBack ==
    last.op = "SetValue" /\ last.code = OK =>
      LET got == getValue(WhereSet(last.q.jptr), last.q.authz)
          p == getParamOf(WhereSet(last.q.jptr), last.q.authz)
      IN  got.code = OK /\ Became(last.q.src, got.value, p.value.pd)

\* What clients set is what the device holds and what they get back, within its constraints,
\* but for NaN, which RangeConstraint<float> lets through, and for numbers so far above the
\* minimum of their range that the distance wraps.
ValuesKept == ConstraintsHold /\ SetReadsBack

\* Refuted: "If the value is outside the range, the value will be constrained to be within the
\* range. If the step size is not 0, the value will be constrained to be a multiple of the step
\* size." (RangeConstraint::apply). In a range wider than half of the integers s - min_ wraps.
RangesApplied ==
    last = Silence => \A top \in ToSet(Tops) : \A x \in Leaves(PartsOf(values, top)) :
      LET c == constraint(x.pd) IN c.kind = "INT_RANGE" => Meets(c, x.value)

\* traverseParams comes to every part that the client may read, at the path where getParam
\* finds it, and to each of them once; array elements, the fields of their structs and the
\* current alternative of a variant included. SubscriptionManager and the recursive
\* ParamInfoRequests rely on this.
VisitorSound ==
    last.op = "ParamInfoRequest" /\ last.code = OK /\ last.q.jptr # <<>> =>
      LET p == getParamOf(last.q.jptr, last.q.authz).value
          visits == SelectSeq(traverseParams(p, last.q.jptr, last.q.authz), LAMBDA v : v.kind = "visit")
          at == [i \in DOMAIN visits |-> visits[i].jptr]
      IN  /\ ToSet(at) = {last.q.jptr \o x.at : x \in Parts(ValueOf(p), p.pd, last.q.authz)}
          /\ IsInjective(at)

\* Refuted: the lengths that a ParamInfoResponse gives to an array parameter are the lengths
\* of the array (docs/gRPC/ParamInfoRequest.md). The elements of a string array have the
\* array's descriptor, and updateArrayLengths_ goes by its oid.
ArrayLengthReported ==
    last.op = "ParamInfoRequest" => \A i \in DOMAIN last.sent :
      LET p == last.sent[i].param IN IsVector(p.t) => last.sent[i].length = Len(ValueOf(p)[2])
=============================================================================
