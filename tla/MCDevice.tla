------------------------------- MODULE MCDevice -------------------------------
(* Model-checking instance of Device: a device model with params of every type, *)
(* and programs of requests that each bear on a part of it.                     *)
EXTENDS Device

MCDescriptors ==
    LET D(oid, ty, parent) ==
            [oid |-> oid, type |-> ty, parent |-> parent, fields |-> <<>>, scope |-> "", read_only |-> FALSE, constraint |-> NoConstraint,
             max_length |-> 0, total_length |-> 0, minimal_set |-> FALSE]
    IN
    [num |-> [D("num", "INT32", "none") EXCEPT !.constraint = RangeConstraint("INT_RANGE", -3, 4, 3), !.minimal_set = TRUE],
     wide |-> [D("wide", "INT32", "none") EXCEPT !.constraint = RangeConstraint("INT_RANGE", -8, 4, 3)],
     level |-> [D("level", "FLOAT32", "none") EXCEPT !.constraint = RangeConstraint("FLOAT_RANGE", 1, 6, -2)],
     mode |-> [D("mode", "INT32", "none") EXCEPT !.constraint = ChoiceConstraint("INT_CHOICE", {1, 2}, TRUE)],
     name |-> [D("name", "STRING", "none") EXCEPT !.constraint = ChoiceConstraint("STRING_STRING_CHOICE", {<<"a">>, <<"a", "b", "c">>}, TRUE),
                                                  !.total_length = 2],
     cfg |-> [D("cfg", "STRUCT", "none") EXCEPT !.fields = <<"open", "inner">>, !.scope = "cfg", !.minimal_set = TRUE],
     cfg_open |-> D("open", "INT32", "cfg"),
     cfg_inner |-> [D("inner", "STRUCT", "cfg") EXCEPT !.fields = <<"secret", "plain">>],
     cfg_secret |-> [D("secret", "INT32", "cfg_inner") EXCEPT !.scope = "adm"],
     cfg_plain |-> D("plain", "STRING", "cfg_inner"),
     rows |-> [D("rows", "STRUCT_ARRAY", "none") EXCEPT !.fields = <<"x", "y">>, !.max_length = 2],
     rows_x |-> [D("x", "INT32", "rows") EXCEPT !.constraint = RangeConstraint("INT_RANGE", 0, 2, 0)],
     rows_y |-> [D("y", "FLOAT32_ARRAY", "rows") EXCEPT !.max_length = 1, !.constraint = RangeConstraint("FLOAT_RANGE", 0, 2, 2)],
     texts |-> [D("texts", "STRING_ARRAY", "none") EXCEPT !.total_length = 3],
     nums |-> [D("nums", "INT32_ARRAY", "none") EXCEPT !.constraint = ChoiceConstraint("INT_CHOICE", {1, 2}, TRUE)],
     var |-> [D("var", "STRUCT_VARIANT", "none") EXCEPT !.fields = <<"i", "s">>],
     var_i |-> [D("i", "INT32", "var") EXCEPT !.scope = "adm"],
     var_s |-> [D("s", "STRUCT", "var") EXCEPT !.fields = <<"f">>],
     var_f |-> D("f", "FLOAT32", "var_s"),
     vars |-> [D("vars", "STRUCT_VARIANT_ARRAY", "none") EXCEPT !.fields = <<"i", "e">>],
     vars_i |-> D("i", "INT32", "vars"),
     vars_e |-> D("e", "EMPTY", "vars"),
     blank |-> [D("blank", "EMPTY", "none") EXCEPT !.fields = <<"b">>],
     blank_b |-> D("b", "EMPTY", "blank"),
     run |-> [D("run", "EMPTY", "none") EXCEPT !.fields = <<"arg">>],
     run_arg |-> [D("arg", "INT32", "run") EXCEPT !.scope = "adm"],
     reset |-> [D("reset", "EMPTY", "none") EXCEPT !.scope = "adm", !.read_only = TRUE]]
MCTops == <<"num", "wide", "level", "mode", "name", "cfg", "rows", "texts", "nums", "var", "vars", "blank">>
MCIndexTexts == [t \in {"0", "1", "2", "huge"} |-> CASE t = "0" -> 0 [] t = "1" -> 1 [] t = "2" -> 2 [] OTHER -> kEnd + 1]

i32(n) == <<"int32_value", n>>
f32(n) == <<"float32_value", n>>
str(s) == <<"string_value", s>>
obj(f) == <<"struct_value", f>>
alt(t, v) == <<"struct_variant_value", [type |-> t, value |-> v]>>
MCFirstValues ==
    [num |-> <<"int32", 0>>, wide |-> <<"int32", -8>>, level |-> <<"float", 1>>, mode |-> <<"int32", 1>>, name |-> <<"string", <<"a">>>>,
     cfg |-> <<"struct", [open |-> <<"int32", 0>>,
                          inner |-> <<"struct", [secret |-> <<"int32", 0>>, plain |-> <<"string", <<>>>>]>>]>>,
     rows |-> <<"structs", <<<<"struct", [x |-> <<"int32", 0>>, y |-> <<"floats", <<>>>>]>>>>>>,
     texts |-> <<"strings", <<<<"string", <<"a">>>>>>>>, nums |-> <<"int32s", <<>>>>,
     var |-> <<"variant", [type |-> "i", value |-> <<"int32", 0>>]>>,
     vars |-> <<"variants", <<>>>>, blank |-> <<"empty", 0>>]

Operator == {<<"op", TRUE>>}
Viewer == {<<"op", FALSE>>, <<"cfg", FALSE>>}
Configurer == {<<"op", FALSE>>, <<"cfg", TRUE>>}
Admin == {<<s, w>> : s \in {"op", "cfg", "adm"}, w \in BOOLEAN}
Nobody == {<<"mon", FALSE>>}
Clients == {Operator, Viewer, Configurer, Admin, Nobody, kAuthzDisabled}

Set(jptr, srcs, clients) == {[op |-> "SetValue", jptr |-> jptr, src |-> v, authz |-> a] : v \in srcs, a \in clients}
Get(jptrs, clients) == {[op |-> o, jptr |-> j, authz |-> a] : o \in {"GetValue", "GetParam"}, j \in jptrs, a \in clients}
Info(jptrs, clients) == {[op |-> "ParamInfoRequest", jptr |-> j, recursive |-> r, authz |-> a] : j \in jptrs, r \in BOOLEAN, a \in clients}
Lock(pds) == {[op |-> "SetReadOnly", pd |-> d, flag |-> f] : d \in pds, f \in BOOLEAN}
Run(jptrs, clients) == {[op |-> "ExecuteCommand", jptr |-> j, authz |-> a] : j \in jptrs, a \in clients}

Scalars ==
    Set(<<"num">>, {i32(n) : n \in -8..7} \cup {f32(0)}, {Operator, Viewer})
    \cup Set(<<"level">>, {f32(n) : n \in 0..7 \cup {NaN}}, {Operator}) \cup Set(<<"mode">>, {i32(n) : n \in 0..3}, {Operator})
    \cup Set(<<"name">>, {str(<<"a">>), str(<<"a", "b">>), str(<<"a", "b", "c">>)}, {Operator})
    \cup Set(<<"blank">>, {i32(0)}, {Operator, Nobody}) \cup Set(<<"bad">>, {i32(0)}, {Operator}) \cup Set(<<"num", "0">>, {i32(0)}, {Operator})
    \cup Get({<<"num">>, <<"num", "0">>, <<"level">>, <<"blank">>, <<"blank", "b">>, <<"blank", "0">>, <<"none">>, <<>>, <<"0">>, <<"huge">>,
              <<"bad">>}, {Viewer, Nobody})
\* A range that is wider than half of the integers
Ranges == Set(<<"wide">>, {i32(n) : n \in -8..7}, {Operator}) \cup Get({<<"wide">>}, {Viewer})
InnerV(s, p) == obj([secret |-> i32(s), plain |-> str(p)])
Structs ==
    Set(<<"cfg">>, {obj([open |-> i32(1), inner |-> InnerV(s, <<"a">>)]) : s \in {0, 1}} \cup {obj([open |-> i32(0)]),
                    obj([open |-> i32(1), inner |-> obj([secret |-> i32(1), plain |-> i32(1)])])}, {Configurer, Admin})
    \cup Set(<<"cfg", "inner">>, {InnerV(0, <<>>)}, {Configurer, Admin}) \cup Set(<<"cfg", "inner", "secret">>, {i32(1)}, {Configurer, kAuthzDisabled})
    \cup Set(<<"cfg", "inner", "plain">>, {str(<<"b">>)}, {Viewer, Configurer})
    \cup Get({<<"cfg">>, <<"cfg", "inner">>, <<"cfg", "inner", "secret">>, <<"cfg", "none">>, <<"cfg", "0">>}, {Viewer, Admin, Nobody})
    \cup Info({<<>>, <<"cfg">>, <<"cfg", "inner">>}, {Viewer, Admin}) \cup Lock({"cfg", "cfg_inner", "cfg_plain"})
Row(n, ys) == obj([x |-> i32(n), y |-> <<"float32_array_values", ys>>])
Rows ==
    Set(<<"rows">>, {<<"struct_array_values", r>> : r \in {<<>>, <<Row(3, <<f32(1)>>), Row(1, <<>>)>>, <<Row(1, <<>>), Row(0, <<f32(0), f32(0)>>)>>,
                                                          <<Row(0, <<>>), Row(0, <<>>), Row(0, <<>>)>>}}, {Operator})
    \cup Set(<<"rows", "-">>, {Row(2, <<>>), i32(0)}, {Operator, Viewer}) \cup Set(<<"rows", "1">>, {Row(1, <<f32(2)>>)}, {Operator})
    \cup Set(<<"rows", "0", "y", "-">>, {f32(1)}, {Operator}) \cup Set(<<"rows", "0", "x">>, {i32(2)}, {Operator})
    \cup Get({<<"rows">>, <<"rows", "1">>, <<"rows", "-">>, <<"rows", "0", "y", "0">>, <<"rows", "0", "x", "0">>, <<"rows", "x">>}, {Viewer})
    \cup Info({<<"rows">>, <<"rows", "0">>}, {Viewer})
Lists ==
    Set(<<"texts">>, {<<"string_array_values", t>> : t \in {<<>>, <<str(<<"a", "b">>), str(<<"c">>)>>}}, {Operator})
    \cup Set(<<"texts", "-">>, {str(<<"a", "b">>), str(<<>>)}, {Operator}) \cup Set(<<"texts", "0">>, {str(<<"a">>)}, {Operator})
    \cup Set(<<"nums", "-">>, {i32(2), i32(3)}, {Operator})
    \cup Set(<<"nums">>, {<<"int32_array_values", r>> : r \in {<<>>, <<i32(1), i32(2)>>, <<i32(1), i32(0)>>}}, {Operator})
    \cup Get({<<"texts", "1">>, <<"texts", "0", "0">>, <<"nums", "-">>}, {Viewer}) \cup Info({<<"texts">>, <<"texts", "0">>}, {Viewer})
Variants ==
    Set(<<"var">>, {alt("i", i32(1)), alt("s", obj([f |-> f32(1)])), alt("none", i32(0)), alt("s", i32(0))}, {Operator, Admin})
    \cup Set(<<"var", "s", "f">>, {f32(2)}, {Operator}) \cup Set(<<"var", "i">>, {i32(2)}, {Operator, Admin})
    \cup Set(<<"vars", "-">>, {alt("i", i32(1)), alt("e", <<"none", 0>>)}, {Operator})
    \cup Set(<<"vars">>, {<<"struct_variant_array_values", r>> : r \in {<<>>, <<alt("i", i32(0)), alt("e", <<"none", 0>>)>>}}, {Operator})
    \cup Set(<<"vars", "0", "i">>, {i32(2)}, {Operator})
    \cup Get({<<"var">>, <<"var", "i">>, <<"var", "s", "f">>, <<"vars">>, <<"vars", "0">>, <<"vars", "1", "e">>, <<"var", "0">>}, {Viewer, Admin})
    \cup Info({<<"var">>, <<"vars">>, <<"blank">>}, {Viewer, Admin})
Running ==
    Run({<<"run">>, <<"run", "arg">>, <<"reset">>, <<"none">>, <<>>, <<"0">>, <<"bad">>, <<"huge">>}, Clients) \cup Lock({"run", "reset"})
Add(method, l, w, authz) == [op |-> "AddLanguage", method |-> method, language |-> l, words |-> w, authz |-> authz]
Speaking ==
    {Add(m, l, w, Admin) : m \in {"POST", "PUT"}, l \in {"en", "fr", "es"}, w \in {"v1", "v2"}}
    \cup {Add("gRPC", "fr", "v1", Operator), Add("gRPC", "fr", "unnamed", Admin), Add("gRPC", "en", "v2", Admin)}
    \cup {[op |-> "RemoveLanguage", language |-> l, authz |-> a] : l \in {"en", "fr", "es"}, a \in {Admin, Operator}}
    \cup {[op |-> "LanguagePackRequest", language |-> l] : l \in {"", "en", "fr"}} \cup {[op |-> "ListLanguages"]}
Dev(dl, subscribed, authz) == [op |-> "DeviceRequest", dl |-> dl, subscribed |-> subscribed, authz |-> authz]
Changing ==
    {Add("gRPC", "fr", "v1", Admin), [op |-> "RemoveLanguage", language |-> "fr", authz |-> Admin], Dev("FULL", {}, Nobody)}
Showing ==
    {Dev(dl, s, a) : dl \in {"MINIMAL", "SUBSCRIPTIONS", "COMMANDS", "NONE"}, s \in {{<<"level">>}}, a \in {Viewer, Nobody}}
    \cup Set(<<"cfg">>, {obj([open |-> i32(1), inner |-> InnerV(0, <<>>)])}, {Admin})
MCPrograms ==
    [scalars |-> Scalars, ranges |-> Ranges, structs |-> Structs, rows |-> Rows, lists |-> Lists, variants |-> Variants, running |-> Running,
     speaking |-> Speaking, changing |-> Changing, showing |-> Showing]
===============================================================================
