---------------------------- MODULE MultiSetValue ----------------------------
(***************************************************************************)
(* The MultiSetValue and SetValue calls on a device of the C++ SDK:        *)
(* Device::tryMultiSetValue validates every entry of a request without     *)
(* changing a value, Device::commitMultiSetValue then writes them one      *)
(* after the other and cannot take one back. The controllers hold the      *)
(* device's mutex over both. A step is the whole of the first, or one      *)
(* turn of the loop of the second.                                         *)
(*                                                                         *)
(* A value is abstracted to its length, which is what the limits are       *)
(* about: a string parameter is a sequence of one length, an array         *)
(* parameter the sequence of the lengths of its elements (for an array     *)
(* whose elements are not strings the lengths are all 0).                  *)
(***************************************************************************)
EXTENDS Integers, Sequences, FiniteSets

CONSTANTS Params,          \* the top-level parameters of the device
          Arrays,          \* those that are arrays; the others are strings
          NamePrefix,      \* <<p, q>>: p's name is a proper prefix of q's
          MaxLength,       \* max_length() of each parameter
          TotalLength,     \* total_length() of each parameter
          MultiSetEnabled, \* multi_set_enabled_
          Lengths,         \* lengths of the strings clients send
          MaxEntries,      \* bound on the number of entries of a request
          MaxIndex         \* bound on the indices in a request, and on the
                           \* size of the arrays in it

kEnd == -1
kNone == kEnd - 2

ASSUME ParamsAssumption == Arrays \subseteq Params /\ NamePrefix \subseteq Params \X Params
ASSUME LimitsAssumption ==
    /\ MaxLength \in [Params -> Nat]
    /\ TotalLength \in [Params -> Nat]
ASSUME RequestsAssumption == Lengths \subseteq Nat /\ {MaxEntries, MaxIndex} \subseteq Nat
ASSUME SwitchAssumption == MultiSetEnabled \in BOOLEAN

VARIABLES
    value,   \* the value of each parameter
    phase,   \* "idle", "commit", "done" or "crashed"
    src,     \* the request, a sequence of entries
    next,    \* the entry commitMultiSetValue is about to write
    before,  \* the values when the request was validated
    shared   \* the arrays of which one request wrote two elements

vars == <<value, phase, src, next, before, shared>>

\* The oids a client may name: a parameter, one of its elements, or its end.
Indices == {kNone, kEnd} \cup 0..MaxIndex

\* The values: a string (one length), or a whole array of them.
Strings == {<<n>> : n \in Lengths}
WholeArrays == UNION {[1..n -> Lengths] : n \in 0..MaxIndex}
Entries == [param : Params, index : Indices, whole : {FALSE}, value : Strings]
      \cup [param : Params, index : Indices, whole : {TRUE}, value : WholeArrays]

\* total length of the strings of s
Total(s) == LET sum[i \in 0..Len(s)] == IF i = 0 THEN 0 ELSE sum[i - 1] + s[i]
            IN  sum[Len(s)]

-----------------------------------------------------------------------------
(* tryMultiSetValue *)

\* The oid of d is a prefix of the oid of e, as strings. (No index is longer
\* than one digit here: "/p/1" is also a prefix of "/p/10".)
StartsWith(e, d) ==
    \/ e.param = d.param /\ d.index \in {kNone, e.index}
    \/ d.index = kNone /\ <<d.param, e.param>> \in NamePrefix

\* Mutant of Overlapping: overlapping entries are let through.
NeverOverlapping(d, e) == FALSE

\* Two entries that may not be in one request. Two appends are exempt.
Overlapping(d, e) ==
    /\ ~ (d.index = kEnd /\ e.index = kEnd)
    /\ StartsWith(d, e) \/ StartsWith(e, d)

\* s after e has been written to it; an element is appended at its end.
Written(s, e) ==
    IF e.index = kNone THEN e.value
    ELSE IF e.index = kEnd THEN s \o e.value
    ELSE [s EXCEPT ![e.index + 1] = e.value[1]]

\* What validateSetValue_ and validFromProto check of lengths.
WithinLimits(p, s) ==
    IF p \in Arrays THEN Len(s) <= MaxLength[p] /\ Total(s) <= TotalLength[p]
                    ELSE s[1] <= MaxLength[p] /\ s[1] <= TotalLength[p]

\* The index fits the parameter and the kind of value. The size of an array is
\* the one it has now: copy() gives every entry trackers of its own.
IndexApplies(e) ==
    IF e.param \notin Arrays THEN e.index = kNone /\ ~e.whole
    ELSE IF e.whole THEN e.index = kNone
    ELSE e.index = kEnd \/ e.index \in 0..(Len(value[e.param]) - 1)

\* validateSetValue
ValidateSetValue(e, a) ==
    /\ IndexApplies(e)
    /\ e.param \in a
    /\ WithinLimits(e.param, Written(value[e.param], e))

\* tryMultiSetValue returns true.
Accepted(s, a) ==
    /\ Len(s) > 1 => MultiSetEnabled
    /\ \A i \in DOMAIN s : ValidateSetValue(s[i], a)
    /\ \A i, j \in DOMAIN s : i < j => ~Overlapping(s[i], s[j])

\* The arrays that s writes more than one element of
WrittenTwice(s) ==
    {p \in Arrays : \E i, j \in DOMAIN s : i < j /\ s[i].param = p /\ s[j].param = p}

\* A client that may write the parameters a sends s. A request that is not
\* accepted is answered with an error and nothing has changed.
TryMultiSetValue(s, a) ==
    /\ phase = "idle"
    /\ IF Accepted(s, a)
       THEN /\ phase' = "commit"
            /\ src' = s /\ next' = 1
            /\ before' = value
            /\ shared' = shared \cup WrittenTwice(s)
            /\ UNCHANGED value
       ELSE UNCHANGED vars

-----------------------------------------------------------------------------
(* commitMultiSetValue *)

\* Mutant of RoomAtTheEnd: the capacity is not looked at.
AlwaysRoom(p) == TRUE

\* addBack finds room for another element.
RoomAtTheEnd(p) == Len(value[p]) < MaxLength[p]

\* Without room addBack returns nullptr, which commitMultiSetValue uses.
AppendFails(e) == e.index = kEnd /\ ~RoomAtTheEnd(e.param)

\* The value is set and valueSetByClient_ emitted. fromProto and addBack check
\* again, with the same authorizer, what tryMultiSetValue has checked.
CommitEntry ==
    /\ phase = "commit" /\ next \in DOMAIN src
    /\ ~AppendFails(src[next])
    /\ value' = [value EXCEPT ![src[next].param] = Written(@, src[next])]
    /\ next' = next + 1
    /\ UNCHANGED <<phase, src, before, shared>>

CommitCrashes ==
    /\ phase = "commit" /\ next \in DOMAIN src
    /\ AppendFails(src[next])
    /\ phase' = "crashed"
    /\ UNCHANGED <<value, src, next, before, shared>>

CommitReturns ==
    /\ phase = "commit" /\ next > Len(src)
    /\ phase' = "done"
    /\ UNCHANGED <<value, src, next, before, shared>>

\* The controller has its answer: it releases the device's mutex.
Unlock ==
    /\ phase = "done"
    /\ phase' = "idle"
    /\ src' = <<>> /\ next' = 1
    /\ before' = value
    /\ UNCHANGED <<value, shared>>

-----------------------------------------------------------------------------
\* popBack, called by the device's own logic
PopBack(p) ==
    /\ phase = "idle"
    /\ p \in Arrays /\ value[p] # <<>>
    /\ value' = [value EXCEPT ![p] = SubSeq(@, 1, Len(@) - 1)]
    /\ before' = value'
    /\ UNCHANGED <<phase, src, next, shared>>

Init ==
    /\ value = [p \in Params |-> IF p \in Arrays THEN <<>> ELSE <<0>>]
    /\ phase = "idle"
    /\ src = <<>> /\ next = 1
    /\ before = value
    /\ shared = {}

Next ==
    \/ \E n \in 0..MaxEntries : \E s \in [1..n -> Entries] : \E a \in SUBSET Params :
          TryMultiSetValue(s, a)
    \/ CommitEntry
    \/ CommitCrashes
    \/ CommitReturns
    \/ Unlock
    \/ \E p \in Params : PopBack(p)

Spec == Init /\ [][Next]_vars

-----------------------------------------------------------------------------
(* Properties *)

\* The types of the variables
TypeOK ==
    /\ value \in [Params -> Seq(Lengths \cup {0})]
    /\ phase \in {"idle", "commit", "done", "crashed"}
    /\ src \in Seq(Entries)
    /\ next \in 1..(Len(src) + 1)
    /\ before \in [Params -> Seq(Lengths \cup {0})]
    /\ shared \subseteq Arrays

\* No sequence of requests takes an array beyond its max_length or a string
\* beyond its limits, whatever the entries of a request assume of each other.
MaxLengthRespected ==
    \A p \in Params : IF p \in Arrays THEN Len(value[p]) <= MaxLength[p]
                                      ELSE WithinLimits(p, value[p])

\* An array of strings stays within total_length, unless some request wrote two
\* of its elements: each of the two is validated as if the other did not exist.
TotalLengthRespected ==
    \A p \in Arrays \ shared : Total(value[p]) <= TotalLength[p]

\* Whatever requests follow each other, lengths stay within the limits of the descriptors.
LengthsRespected == TypeOK /\ MaxLengthRespected /\ TotalLengthRespected

\* A validated request is written to the end, unless it appends twice to an
\* array.
CommitsWhatItAccepts ==
    phase = "crashed" =>
        \E i, j \in DOMAIN src : /\ i < j
                                 /\ src[i].param = src[j].param
                                 /\ src[i].index = kEnd /\ src[j].index = kEnd

\* Those of the first n entries of the request whose oid is index k of p
Naming(p, k, n) == {i \in 1..n : src[i].param = p /\ src[i].index = k}

\* p is what the first n entries make of it: its whole replacement if there is
\* one, else its elements, each with its replacement if there is one, and then
\* what is appended, in the order of the request.
HasTaken(p, n) ==
    IF Naming(p, kNone, n) # {}
    THEN \A i \in Naming(p, kNone, n) : value[p] = src[i].value
    ELSE /\ Len(value[p]) = Len(before[p]) + Cardinality(Naming(p, kEnd, n))
         /\ \A k \in 1..Len(before[p]) :
               IF Naming(p, k - 1, n) = {}
               THEN value[p][k] = before[p][k]
               ELSE \A i \in Naming(p, k - 1, n) : value[p][k] = src[i].value[1]
         /\ \A i \in Naming(p, kEnd, n) :
               value[p][Len(before[p]) + Cardinality(Naming(p, kEnd, i))] = src[i].value[1]

\* A request that is answered with success has had the effect of each of its
\* entries, the later ones included, and no other effect.
AppliesEveryEntry ==
    phase = "done" => \A p \in Params : HasTaken(p, Len(src))

\* What tryMultiSetValue accepts, commitMultiSetValue does, all of it and nothing else.
DoesWhatItAccepts == CommitsWhatItAccepts /\ AppliesEveryEntry

\* "Then ensure the request will go through if fromProto is called."
AcceptedRequestsGoThrough == phase # "crashed"
=============================================================================
