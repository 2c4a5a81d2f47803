--------------------------- MODULE DeviceSerializer ---------------------------
(***************************************************************************)
(* The language packs of a device of the C++ SDK and its device requests,  *)
(* whose serializer is a coroutine that stands inside the device's maps    *)
(* while the device's mutex is free and languages come and go. What a      *)
(* parameter looks like in the protocol is the business of DeviceParams    *)
(* and a constant operator here.                                           *)
(*                                                                         *)
(* The maps are unordered: an iteration takes the next key it likes.       *)
(***************************************************************************)
EXTENDS DeviceScopes, Functions

CONSTANTS Tops,           \* top-level params, in the order an iteration takes them
          Commands,       \* descriptors of the commands
          Menus, Constraints,   \* names of the menus and of the shared constraints
          Shipped,        \* languages the device is shipped with
          Subscriptions,  \* subscriptions_
          Programs,       \* sets of requests, by name; one of them for each behaviour
          Serializers,    \* device requests that may be in progress
          ParamToProto(_, _, _),  \* a value, its descriptor, a client: what the client is sent
          SubParamsFor(_, _)      \* a descriptor, a client: the descriptors below that the client is sent

ASSUME TopsAssumption == ToSet(Tops) \cup Commands = {d \in DOMAIN Descriptors : Descriptors[d].parent = "none"}

VARIABLES program,     \* the name of the requests of this behaviour
          packs,       \* language_packs_: pointers to LanguagePacks, by language
          added,       \* added_packs_: the ones the device owns
          words,       \* what the LanguagePack at a pointer says
          calls,       \* the device requests
          last         \* the last request and its answer

languageVars == <<packs, added, words>>

Silence == [op |-> "none"]
Answer(q, code, sent) == [op |-> q.op, q |-> q, code |-> code, sent |-> sent]
Reads == UNCHANGED <<values, read_only, program, languageVars, calls>>

-----------------------------------------------------------------------------
(* Language packs. A pack that is replaced is freed when its successor is in place. *)

Other(language) == IF language \in DOMAIN added /\ added[language] = <<language, 1>> THEN <<language, 2>> ELSE <<language, 1>>

\* Iterations over language_packs_ that a new key may disturb: what they still reach is open.
Disturbed(c) == calls[c].map = "packs"

\* REST adds with POST and replaces with PUT; gRPC has one call for both.
AddLanguage(q) ==
    LET has == q.language \in DOMAIN packs
        code == IF (q.method = "POST" /\ has) \/ (q.method = "PUT" /\ ~has) THEN PERMISSION_DENIED
                ELSE IF ~writeAuthzScope(q.authz, "adm") THEN PERMISSION_DENIED
                ELSE IF q.words = "unnamed" THEN INVALID_ARGUMENT
                ELSE IF has /\ q.language \notin DOMAIN added THEN PERMISSION_DENIED ELSE OK
        pack == Other(q.language)
        With(f, v) == [l \in DOMAIN f \cup {q.language} |-> IF l = q.language THEN v ELSE f[l]]
    IN  /\ q.op = "AddLanguage"
        /\ last' = Answer(q, code, <<>>)
        /\ IF code # OK THEN UNCHANGED <<languageVars, calls>>
           ELSE /\ packs' = With(packs, pack) /\ added' = With(added, pack)
                /\ words' = [words EXCEPT ![pack] = q.words]
                /\ \E todo \in [Serializers -> SUBSET DOMAIN packs'] :
                     calls' = [c \in Serializers |-> IF has \/ ~Disturbed(c) THEN calls[c]
                                                     ELSE [calls[c] EXCEPT !.todo = todo[c] \ {calls[c].at}, !.disturbed = TRUE]]
        /\ UNCHANGED <<values, read_only, program>>

removeLanguage(language) ==
    /\ added' = [l \in DOMAIN added \ {language} |-> added[l]]
    /\ packs' = [l \in DOMAIN packs \ {language} |-> packs[l]]
    /\ UNCHANGED words

RemoveLanguage(q) ==
    LET code == IF ~writeAuthzScope(q.authz, "adm") THEN PERMISSION_DENIED
                ELSE IF q.language \in DOMAIN packs /\ q.language \notin DOMAIN added THEN PERMISSION_DENIED
                ELSE IF q.language \notin DOMAIN packs THEN NOT_FOUND ELSE OK
    IN  /\ q.op = "RemoveLanguage"
        /\ last' = Answer(q, code, <<>>)
        /\ IF code # OK THEN UNCHANGED <<languageVars, calls>>
           ELSE /\ removeLanguage(q.language)
                /\ calls' = [c \in Serializers |->
                               IF calls[c].map # "packs" THEN [calls[c] EXCEPT !.packs = @ \ {q.language}]
                               ELSE [calls[c] EXCEPT !.todo = @ \ {q.language}, !.packs = @ \ {q.language},
                                                     !.dangling = @ \/ calls[c].at = q.language]]
        /\ UNCHANGED <<values, read_only, program>>

getLanguagePack(q) ==
    LET code == IF q.language = "" THEN INVALID_ARGUMENT ELSE IF q.language \notin DOMAIN packs THEN NOT_FOUND ELSE OK
    IN  /\ q.op = "LanguagePackRequest" /\ Reads
        /\ last' = Answer(q, code, IF code = OK THEN <<words[packs[q.language]]>> ELSE <<>>)

\* toProto(LanguageList)
ListLanguages(q) == q.op = "ListLanguages" /\ last' = Answer(q, OK, <<DOMAIN packs>>) /\ Reads

-----------------------------------------------------------------------------
(* The device serializer *)

Idle == [map |-> "idle", todo |-> {}, at |-> "none", authz |-> {}, dl |-> "NONE", subscribed |-> {}, sent |-> <<>>, disturbed |-> FALSE,
         packs |-> {}, dangling |-> FALSE]

\* The maps that a detail level goes through, and what it sends of them
MapsOf(dl) ==
    IF dl = "FULL" THEN <<"menus", "packs", "constraints", "commands", "params">>
    ELSE IF dl = "COMMANDS" THEN <<"commands">> ELSE IF dl = "NONE" THEN <<>> ELSE <<"params">>
Keys(map) ==
    [menus |-> Menus, packs |-> DOMAIN packs, constraints |-> Constraints, commands |-> Commands, params |-> ToSet(Tops)][map]
Sends(map, key, call) ==
    /\ map \in {"commands", "params"} => readAuthz(call.authz, key)
    /\ map = "params" => \/ call.dl = "FULL" \/ Descriptors[key].minimal_set
                         \/ call.dl = "SUBSCRIPTIONS" /\ <<Descriptors[key].oid>> \in call.subscribed

\* The component that it makes of the key it stands at
Content(call) ==
    CASE call.map = "params" -> ParamToProto(values[call.at], call.at, call.authz).value
      [] call.map = "commands" -> [value |-> NoValue, subs |-> SubParamsFor(call.at, call.authz)]
      [] call.map = "packs" -> words[packs[call.at]]
      [] OTHER -> 0
Component(call) == IF call.map = "start" THEN <<"device", "", 0>> ELSE <<call.map, call.at, Content(call)>>

\* The maps after the one it is in that have something to send, by their places in the sequence
Ahead(call) ==
    LET maps == MapsOf(call.dl)
    IN  {j \in DOMAIN maps : (\A i \in DOMAIN maps : maps[i] = call.map => i < j) /\ \E k \in Keys(maps[j]) : Sends(maps[j], k, call)}
NextMap(call) == MapsOf(call.dl)[CHOOSE j \in Ahead(call) : \A k \in Ahead(call) : j <= k]

\* Mutant of Onwards: the rest of a map is left out when its last key has been sent.
OnwardsShort(call) ==
    IF Ahead(call) = {} THEN {[call EXCEPT !.map = "done", !.todo = {}, !.at = "none"]}
    ELSE {[call EXCEPT !.map = NextMap(call), !.at = k, !.todo = {}] : k \in {x \in Keys(NextMap(call)) : Sends(NextMap(call), x, call)}}

\* Where it can stand next: at another key of the map, in a later map, or at the end
Onwards(call) ==
    LET here == {k \in call.todo : Sends(call.map, k, call)}
        map == NextMap(call)
    IN  IF here # {} THEN {[call EXCEPT !.at = k, !.todo = @ \ {k}] : k \in here}
        ELSE IF Ahead(call) = {} THEN {[call EXCEPT !.map = "done", !.todo = {}, !.at = "none"]}
        ELSE {[call EXCEPT !.map = map, !.at = k, !.todo = Keys(map) \ {k}] : k \in {x \in Keys(map) : Sends(map, x, call)}}

\* getComponentSerializer: the coroutine is suspended at its start.
DeviceRequest(q, c) ==
    /\ q.op = "DeviceRequest" /\ calls[c].map = "idle"
    /\ IF q.dl = "SUBSCRIPTIONS" /\ ~Subscriptions
       THEN last' = Answer(q, INVALID_ARGUMENT, <<>>) /\ UNCHANGED calls
       ELSE /\ last' = Answer(q, OK, <<>>)
            /\ calls' = [calls EXCEPT ![c] = [Idle EXCEPT !.map = "start", !.authz = q.authz, !.dl = q.dl, !.subscribed = q.subscribed,
                                                          !.packs = DOMAIN packs]]
    /\ UNCHANGED <<values, read_only, program, languageVars>>

\* getNext. A coroutine that stood at a pack that has been erased uses freed memory.
GetNext(c) ==
    /\ calls[c].map \notin {"idle", "done", "crashed"}
    /\ IF calls[c].dangling THEN calls' = [calls EXCEPT ![c] = [Idle EXCEPT !.map = "crashed", !.at = calls[c].at, !.dangling = TRUE]]
       ELSE \E call \in Onwards(calls[c]) :
              calls' = [calls EXCEPT ![c] = [call EXCEPT !.sent = Append(@, Component(calls[c]))]]
    /\ last' = Silence
    /\ UNCHANGED <<values, read_only, program, languageVars>>

\* The call has been answered.
Finish(c) ==
    /\ calls[c].map = "done" /\ calls' = [calls EXCEPT ![c] = Idle] /\ last' = Silence
    /\ UNCHANGED <<values, read_only, program, languageVars>>

-----------------------------------------------------------------------------
Languages == Shipped \cup UNION {{q.language : q \in {x \in Programs[p] : x.op = "AddLanguage"}} : p \in DOMAIN Programs}

SerializerInit ==
    /\ program \in DOMAIN Programs
    /\ packs = [l \in Shipped |-> <<l, 0>>] /\ added = [l \in {} |-> <<l, 0>>]
    /\ words = [p \in Languages \X (0..2) |-> "shipped"]
    /\ calls = [c \in Serializers |-> Idle]

SerializerNext ==
    \/ \E q \in Programs[program] :
         \/ AddLanguage(q) \/ RemoveLanguage(q) \/ getLanguagePack(q) \/ ListLanguages(q)
         \/ \E c \in Serializers : DeviceRequest(q, c)
    \/ \E c \in Serializers : GetNext(c) \/ Finish(c)

\* All other requests leave these variables alone, and may do with the parameters what they like.
SerializerSpec == SerializerInit /\ [][SerializerNext]_<<program, languageVars, calls>>
-----------------------------------------------------------------------------
(* Properties *)

\* A language pack that clients are shown is either the one the device was shipped with,
\* unchanged, or one the device still owns: no pointer of language_packs_ outlives the
\* shared_ptr in added_packs_.
LanguagesOwned ==
    /\ \A l \in DOMAIN packs : IF l \in Shipped THEN packs[l] = <<l, 0>> ELSE l \in DOMAIN added /\ added[l] = packs[l]
    /\ DOMAIN added \cup Shipped = DOMAIN packs
    /\ \A l \in Shipped : words[packs[l]] = "shipped"

\* What the request of a serializer asks for.
Due(call) ==
    {<<"device", "">>}
    \cup (IF call.dl # "FULL" THEN {} ELSE ({"menus"} \X Menus) \cup ({"constraints"} \X Constraints) \cup ({"packs"} \X call.packs))
    \cup (IF call.dl \notin {"FULL", "COMMANDS"} THEN {} ELSE {"commands"} \X {k \in Commands : readAuthz(call.authz, k)})
    \cup {x \in {"params"} \X ToSet(Tops) :
            /\ readAuthz(call.authz, x[2])
            /\ \/ call.dl = "FULL"
               \/ call.dl \notin {"COMMANDS", "NONE"} /\ Descriptors[x[2]].minimal_set
               \/ call.dl = "SUBSCRIPTIONS" /\ <<Descriptors[x[2]].oid>> \in call.subscribed}

\* A device request that is done has sent the device and after it each menu, constraint,
\* command and parameter of its detail level that the client may read, and each language
\* pack that was there all the time, exactly once, whatever other requests did while its
\* coroutine was suspended; and the language packs are sound. Two exceptions: a new
\* language may disturb the iteration over the packs; and a request that removes the pack at
\* which the coroutine stands leaves it with an iterator into freed memory. That is the only
\* way in which a call may crash, and it takes a pack the device was not shipped with.
SerializedComplete ==
    /\ LanguagesOwned
    /\ \A c \in Serializers : calls[c].map = "done" /\ ~calls[c].disturbed =>
         LET sent == [i \in DOMAIN calls[c].sent |-> <<calls[c].sent[i][1], calls[c].sent[i][2]>>]
         IN  /\ IsInjective(sent) /\ sent[1] = <<"device", "">>
             /\ Due(calls[c]) \subseteq ToSet(sent)
             /\ ToSet(sent) \ Due(calls[c]) \subseteq {"packs"} \X Languages
    /\ \A c \in Serializers : calls[c].map = "crashed" => calls[c].dangling /\ calls[c].at \notin Shipped
=============================================================================
