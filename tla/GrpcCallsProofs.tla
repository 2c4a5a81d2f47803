--------------------------- MODULE GrpcCallsProofs ---------------------------
(***************************************************************************)
(* Theorems about GrpcCalls, for any number of calls, any number of        *)
(* responses and any RPCs served together: the registry stays sound, what  *)
(* a stream has sent when it ends with OK is complete, and the service     *)
(* implements RpcService.                                                  *)
(***************************************************************************)
EXTENDS GrpcCalls, FiniteSetTheorems, SequenceTheorems, TLAPS

\* What an object is before it has a client
Fresh(o) == parts[o] = 0 /\ current[o] = 1 /\ sent[o] = <<>> /\ reply[o] = "none"

\* What the place of an object's thread and its operation say about its state
LifeOf(o) ==
    /\ status[o] = "unborn" <=> rpc[o] = "none" /\ status[o] # "gone"
    /\ status[o] \in {"unborn", "gone", "kProcess"} => Fresh(o)
    /\ ~Alive(o) \/ op[o] = "request" => o \notin cancelled
    /\ op[o] = "request" => status[o] = "kProcess"
    /\ Alive(o) /\ op[o] = "write" => status[o] \in {"kWrite", "kPostWrite"} \/ o \in cancelled
    /\ Alive(o) /\ op[o] = "write" => status[o] # "kProcess"
    /\ Alive(o) /\ op[o] = "finish" => reply[o] # "none"
    /\ at[o] \in {"offer", "process"} => status[o] = "kProcess"
    /\ at[o] = "write" => rpc[o] = "ParamInfoRequest" /\ status[o] \in {"kWrite", "kPostWrite"}
    /\ at[o] = "write" \/ (status[o] = "kWrite" /\ rpc[o] # "Connect") => reply[o] = "none"
    /\ status[o] = "kWrite" /\ reply[o] # "none" => o \in stopped
    /\ at[o] = "cancelled" /\ o \notin cancelled => status[o] = "kProcess" /\ serverDown
    /\ status[o] = "kProcess" /\ at[o] = "cancelled" => o \notin cancelled
    /\ status[o] = "kFinish" /\ reply[o] = "none" /\ o \notin cancelled
          => at[o] = "send" \/ (serverDown /\ parts[o] = 0)
    /\ at[o] \in {"lock", "block", "wait", "send"} =>
          rpc[o] = "Connect" /\ status[o] \in {"kWrite", "kFinish"}
    /\ at[o] = "send" /\ status[o] = "kFinish" => o \in cancelled \/ o \in stopped
    /\ at[o] \in {"lock", "block", "wait"} /\ status[o] = "kFinish" => o \in cancelled
    /\ hand[o] # "none" => rpc[o] = "Connect" /\ status[o] \in {"kWrite", "kFinish", "gone"}
Life == \A o \in Objects : LifeOf(o)

\* Nobody but the thread that goes on after its write holds the device's mutex.
Mutex ==
    /\ trailing = {o \in Objects : deviceMutex = o}
    /\ \A o \in trailing : rpc[o] = "ParamInfoRequest"

\* The positions sent by a stream that moves its iterator before it writes
OrderlyOf(o) ==
    /\ \A i \in 1..Len(sent[o]) : sent[o][i] = i
    /\ status[o] = "kWrite" => Len(sent[o]) = current[o] - 1
    /\ status[o] = "kWrite" /\ rpc[o] # "Connect" => current[o] <= parts[o]
    /\ status[o] = "kPostWrite" \/ reply[o] = "OK" => Len(sent[o]) = parts[o]
Orderly == \A o \in Objects : rpc[o] \notin {"ParamInfoRequest", "UpdateSubscriptions"} => OrderlyOf(o)

\* Those of UpdateSubscriptions, which passes over some
SelectiveOf(o) ==
    /\ status[o] # "kPostWrite"
    /\ \A i \in 1..Len(sent[o]) : sent[o][i] < current[o] /\ sent[o][i] <= parts[o]
    /\ \A i, j \in 1..Len(sent[o]) : i < j => sent[o][i] < sent[o][j]
Selective == \A o \in Objects : rpc[o] = "UpdateSubscriptions" => SelectiveOf(o)

\* Those of ParamInfoRequest, whose thread goes on after it has started a write:
\* in the meantime the position is behind, and the next thread may have decided
\* to write although the response was the last.
RepeatingOf(o) ==
    LET n == Len(sent[o]) IN
    /\ \A i \in 1..n : sent[o][i] = IF i <= parts[o] THEN i ELSE parts[o]
    /\ n <= parts[o] + 1
    /\ reply[o] # "none" => status[o] \in {"kFinish", "kPostWrite"}
    /\ reply[o] = "error" => parts[o] = 0
    /\ reply[o] = "OK" => n >= parts[o] /\ current[o] = parts[o]
    /\ status[o] = "kWrite" => current[o] <= parts[o]
                               /\ n = IF o \in trailing THEN current[o] ELSE current[o] - 1
    /\ status[o] = "kPostWrite" => current[o] = parts[o] /\ n >= parts[o]
                                   /\ (o \in trailing => n = parts[o] + 1)
    /\ at[o] = "write" /\ status[o] = "kPostWrite" => n = parts[o] /\ o \notin trailing
    /\ o \in trailing /\ Alive(o) =>
          /\ status[o] \in {"kWrite", "kPostWrite", "kFinish"}
          /\ current[o] <= parts[o]
          /\ n = current[o] \/ (current[o] = parts[o] /\ n = parts[o] + 1)
          /\ reply[o] = "OK" => n = parts[o] + 1
Repeating == \A o \in Objects : rpc[o] = "ParamInfoRequest" => RepeatingOf(o)

\* The object that waits for the next client of its RPC, or was waiting when the
\* server went down, or has just got its client and is to create the next one
Taking(o) == status[o] = "kProcess" /\ at[o] \in {"switch", "offer"}
Held(o) == Taking(o) \/ WasOffered(o)
OfferUnique == \A o, p \in Objects : Held(o) /\ Held(p) /\ rpc[o] = rpc[p] => o = p
OfferExists ==
    ~serverDown => \A q \in Objects : rpc[q] # "none"
                       => \E o \in Objects : rpc[o] = rpc[q] /\ Waiting(o)
\* The bound on the calls leaves an object for each client that has been accepted.
Takers == {o \in Objects : Taking(o)}
Room == Cardinality(Takers) <= Cardinality(Unborn)

\* processEvents leaves its loop when the server is down, and returns when no
\* object is left.
Ending ==
    /\ cqDown => serverDown
    /\ events = "drain" => cqDown
    /\ events = "returned" => serverDown /\ Registry = {}

IInv ==
    /\ TypeOK /\ DrivenByOne /\ Life /\ Mutex
    /\ Orderly /\ Selective /\ Repeating
    /\ OfferUnique /\ OfferExists /\ Room /\ Ending

-----------------------------------------------------------------------------
(* Lemmas about a step of one object *)

\* All that is known of one object
Driving(o) ==
    /\ Alive(o) => (op[o] # "none") # (at[o] # "idle")
    /\ Alive(o) /\ hand[o] = "proceed" => rpc[o] = "Connect" /\ o \in cancelled
    /\ ~Alive(o) => at[o] = "idle" /\ (op[o] # "none" => rpc[o] = "Connect" /\ op[o] # "request")
Own(o) ==
    /\ Driving(o) /\ LifeOf(o)
    /\ rpc[o] \notin {"ParamInfoRequest", "UpdateSubscriptions"} => OrderlyOf(o)
    /\ rpc[o] = "UpdateSubscriptions" => SelectiveOf(o)
    /\ rpc[o] = "ParamInfoRequest" => RepeatingOf(o)

\* A step leaves object p alone.
SameFor(p) ==
    /\ rpc'[p] = rpc[p] /\ status'[p] = status[p] /\ op'[p] = op[p] /\ at'[p] = at[p]
    /\ parts'[p] = parts[p] /\ current'[p] = current[p] /\ sent'[p] = sent[p]
    /\ reply'[p] = reply[p]
    /\ p \in cancelled' <=> p \in cancelled
    /\ p \in trailing' <=> p \in trailing
    /\ hand'[p] = hand[p] /\ (p \in stopped => p \in stopped')

\* The parts of the invariant that speak of one object at a time.
LEMMA OwnParts ==
    DrivenByOne /\ Life /\ Orderly /\ Selective /\ Repeating <=> \A o \in Objects : Own(o)
  BY DEF DrivenByOne, Driving, Life, Orderly, Selective, Repeating, Own

\* What is known of an object stays true when the object is left alone.
LEMMA OwnKept ==
    ASSUME NEW p \in Objects, Own(p), SameFor(p), serverDown => serverDown'
    PROVE  Own(p)'
  <1>1. Driving(p)'
    BY DEF Own, Driving, Alive, SameFor
  <1>2. LifeOf(p)'
    BY DEF Own, LifeOf, Fresh, Alive, SameFor
  <1>3. rpc'[p] \notin {"ParamInfoRequest", "UpdateSubscriptions"} => OrderlyOf(p)'
    BY DEF Own, OrderlyOf, SameFor
  <1>4. rpc'[p] = "UpdateSubscriptions" => SelectiveOf(p)'
    BY DEF Own, SelectiveOf, SameFor
  <1>5. rpc'[p] = "ParamInfoRequest" => RepeatingOf(p)'
    BY DEF Own, RepeatingOf, Alive, SameFor
  <1> QED
    BY <1>1, <1>2, <1>3, <1>4, <1>5 DEF Own

\* A step is one of RpcService, or leaves all that it speaks of unchanged.
Refined == Abstract!Next \/ UNCHANGED Abstract!vars

\* The phases after a step that concerns object o alone.
LEMMA PhasesMove ==
    ASSUME NEW o \in Objects, \A p \in Objects \ {o} : SameFor(p)
    PROVE  /\ Phases' = [Phases EXCEPT ![o] = Phase(o)']
           /\ Phases[o] = Phase(o) /\ DOMAIN Phases = Objects
  <1>1. \A p \in Objects \ {o} : Phase(p)' = Phase(p)
    BY DEF SameFor, Phase, WasOffered, Alive
  <1> QED
    BY <1>1 DEF Phases

\* A step within a phase, that sends nothing, is none of RpcService.
LEMMA SamePhases ==
    ASSUME NEW o \in Objects, \A p \in Objects \ {o} : SameFor(p), Phase(o)' = Phase(o),
           UNCHANGED <<rpc, sent, cancelled, serverDown, events>>
    PROVE  Refined
  <1>1. Phases' = Phases
    BY PhasesMove DEF Phases
  <1> QED
    BY <1>1 DEF Refined, Abstract!vars

\* What a sequence holds after an element has been appended.
LEMMA AppendAt ==
    ASSUME NEW S, NEW s \in Seq(S), NEW x \in S
    PROVE  /\ Len(Append(s, x)) = Len(s) + 1 /\ Len(s) \in Nat
           /\ \A i \in 1..Len(s) + 1 : Append(s, x)[i] = IF i <= Len(s) THEN s[i] ELSE x
  OBVIOUS

\* A stream that moves its iterator first stays orderly while it sends nothing.
LEMMA OrderlyKept ==
    ASSUME NEW o, OrderlyOf(o), rpc'[o] = rpc[o],
           sent'[o] = sent[o], parts'[o] = parts[o], current'[o] = current[o],
           status'[o] = "kWrite" => /\ Len(sent[o]) = current[o] - 1
                                    /\ rpc[o] # "Connect" => current[o] <= parts[o],
           status'[o] = "kPostWrite" \/ reply'[o] = "OK" => Len(sent[o]) = parts[o]
    PROVE  OrderlyOf(o)'
  BY DEF OrderlyOf

\* Objects is a finite set, and so are its subsets.
LEMMA ObjectsFinite == IsFiniteSet(Objects) /\ Nobody \notin Objects
  BY BoundsAssumption, NobodyAssumption, FS_Interval DEF Objects

\* The accepted clients still have an object each if none is added.
LEMMA RoomKept ==
    ASSUME Room, Takers' \subseteq Takers, Unborn' = Unborn
    PROVE  Room'
  <1>1. IsFiniteSet(Takers) /\ IsFiniteSet(Unborn)
    BY ObjectsFinite, FS_Subset DEF Takers, Unborn
  <1>2. IsFiniteSet(Takers') /\ Cardinality(Takers') <= Cardinality(Takers)
    BY <1>1, FS_Subset
  <1>3. Cardinality(Takers) \in Nat /\ Cardinality(Takers') \in Nat /\ Cardinality(Unborn) \in Nat
    BY <1>1, <1>2, FS_CardinalityType
  <1> QED
    BY <1>2, <1>3 DEF Room

\* The invariant is kept by a step that concerns object o alone and neither makes
\* it the one on offer nor takes the offer back.
LEMMA OneObject ==
    ASSUME IInv, NEW o \in Objects, \A p \in Objects \ {o} : SameFor(p),
           TypeOK', Own(o)', Mutex', rpc'[o] = rpc[o],
           Held(o)' => Held(o),
           serverDown \/ (Waiting(o) => Waiting(o)'),
           Room' \/ (Taking(o)' => Taking(o)),
           status'[o] = "unborn" <=> status[o] = "unborn",
           events = "returned" => ~Alive(o)',
           UNCHANGED <<serverDown, cqDown, events>>
    PROVE  IInv'
  <1>1. \A p \in Objects : Own(p)'
    <2> SUFFICES ASSUME NEW p \in Objects, p # o PROVE Own(p)'
      OBVIOUS
    <2>1. Own(p)
      BY OwnParts DEF IInv
    <2> QED
      BY <2>1, OwnKept
  <1>2. (DrivenByOne /\ Life /\ Orderly /\ Selective /\ Repeating)'
    BY <1>1 DEF DrivenByOne, Driving, Life, Orderly, Selective, Repeating, Own
  <1>3. \A p \in Objects : rpc'[p] = rpc[p] /\ (Held(p)' => Held(p))
    BY DEF SameFor, Held, Taking, WasOffered, Alive
  <1>4. OfferUnique'
    BY <1>3 DEF IInv, OfferUnique
  <1>5. OfferExists'
    <2>1. \A p \in Objects : serverDown \/ (Waiting(p) => Waiting(p)')
      BY DEF SameFor, Waiting
    <2> QED
      BY <1>3, <2>1 DEF IInv, OfferExists
  <1>6. Room'
    <2>1. CASE Taking(o)' => Taking(o)
      <3>1. Takers' \subseteq Takers
        BY <2>1 DEF SameFor, Taking, Takers
      <3>2. Unborn' = Unborn
        BY DEF SameFor, Unborn
      <3> QED
        BY <3>1, <3>2, RoomKept DEF IInv
    <2> QED
      BY <2>1
  <1>7. Ending'
    BY DEF IInv, Ending, Registry, Alive, SameFor
  <1> QED
    BY <1>2, <1>4, <1>5, <1>6, <1>7 DEF IInv

\* Finish of a call that has not been finished: OK only for a call that has sent
\* everything, unless it passes over responses.
LEMMA FinishStep ==
    ASSUME IInv, NEW o \in Objects, NEW rc, FinishWith(o, rc), reply[o] = "none",
           at[o] = "process" \/ (at[o] = "switch" /\ status[o] \in {"kWrite", "kPostWrite"}),
           rc = "OK" /\ rpc[o] # "UpdateSubscriptions" => at[o] = "process" \/ status[o] = "kPostWrite",
           rpc[o] = "ParamInfoRequest" => \/ at[o] = "process" /\ rc # "OK"
                                          \/ status[o] = "kPostWrite" /\ rc = "OK"
    PROVE  IInv' /\ Refined
  <1> USE DEF FinishWith, otherVars, connectVars, serverVars, objVars
  <1>1. TypeOK /\ Mutex /\ Own(o)
    BY OwnParts DEF IInv
  <1>2. TypeOK'
    BY <1>1, BoundsAssumption DEF TypeOK
  <1>3. \A p \in Objects \ {o} : SameFor(p)
    BY <1>1 DEF TypeOK, SameFor
  <1>4. Own(o)'
    <2>1. Driving(o)'
      BY <1>1, <1>2, BoundsAssumption DEF Own, Driving, Alive, TypeOK, LifeOf
    <2>2. LifeOf(o)'
      BY <1>1, <1>2, BoundsAssumption DEF Own, Driving, LifeOf, Fresh, Alive, TypeOK, RepeatingOf, Mutex
    <2>3. rpc'[o] \notin {"ParamInfoRequest", "UpdateSubscriptions"} => OrderlyOf(o)'
      <3> SUFFICES ASSUME rpc[o] \notin {"ParamInfoRequest", "UpdateSubscriptions"}
                   PROVE  OrderlyOf(o)'
        BY <1>1 DEF TypeOK
      <3>1. OrderlyOf(o)
        BY <1>1 DEF Own
      <3>2. /\ rpc'[o] = rpc[o] /\ sent'[o] = sent[o] /\ parts'[o] = parts[o]
            /\ current'[o] = current[o]
        BY <1>1 DEF TypeOK
      <3>3. status'[o] = "kWrite" => /\ Len(sent[o]) = current[o] - 1
                                     /\ rpc[o] # "Connect" => current[o] <= parts[o]
        BY <1>1, <3>1 DEF TypeOK, OrderlyOf, Own, LifeOf, Fresh
      <3>4. status'[o] = "kPostWrite" \/ reply'[o] = "OK" => Len(sent[o]) = parts[o]
        BY <1>1, <3>1 DEF TypeOK, OrderlyOf, Own, LifeOf, Fresh
      <3> QED
        BY <3>1, <3>2, <3>3, <3>4, OrderlyKept
    <2>4. rpc'[o] = "UpdateSubscriptions" => SelectiveOf(o)'
      BY <1>1, <1>2, BoundsAssumption DEF Own, SelectiveOf, TypeOK, LifeOf, Fresh, Alive, Mutex
    <2>5. rpc'[o] = "ParamInfoRequest" => RepeatingOf(o)'
      <3> SUFFICES ASSUME rpc[o] = "ParamInfoRequest" PROVE RepeatingOf(o)'
        BY <1>1 DEF TypeOK
      <3>1. CASE at[o] = "process"
        <4>1. parts[o] = 0 /\ sent[o] = <<>> /\ rc # "OK" /\ o \notin trailing
          BY <1>1, <3>1 DEF Own, LifeOf, Fresh, RepeatingOf, Alive
        <4> QED
          BY <1>1, <3>1, <4>1 DEF RepeatingOf, TypeOK
      <3>2. CASE status[o] = "kPostWrite"
        <4>1. /\ RepeatingOf(o) /\ rc = "OK" /\ trailing' = trailing
              /\ sent'[o] = sent[o] /\ parts'[o] = parts[o] /\ current'[o] = current[o]
              /\ status'[o] = "kFinish" /\ reply'[o] = "OK" /\ at'[o] = "idle"
          BY <1>1, <3>2 DEF Own, TypeOK, LifeOf
        <4> QED
          BY <3>2, <4>1 DEF RepeatingOf, Alive
      <3> QED
        BY <3>1, <3>2
    <2> QED
      BY <2>1, <2>2, <2>3, <2>4, <2>5 DEF Own
  <1>5. Mutex'
    BY <1>1, ObjectsFinite DEF Mutex, TypeOK
  <1>6. Held(o)' => Held(o)
    BY <1>1 DEF Held, Taking, WasOffered, Own, Driving, LifeOf, Alive, TypeOK
  <1>7. /\ serverDown \/ (Waiting(o) => Waiting(o)')
        /\ Taking(o)' => Taking(o)
        /\ status'[o] = "unborn" <=> status[o] = "unborn"
        /\ events = "returned" => ~Alive(o)'
        /\ rpc'[o] = rpc[o]
        /\ UNCHANGED <<serverDown, cqDown, events>>
    BY <1>1 DEF Waiting, Taking, Own, Driving, LifeOf, Alive, TypeOK, IInv, Ending, Registry
  <1>8. Refined
    <2>1. Phase(o) = "open" /\ Phase(o)' = "answered"
      BY <1>1 DEF Phase, WasOffered, Own, Driving, LifeOf, Fresh, Alive, TypeOK
    <2>2. Phases' = [Phases EXCEPT ![o] = Phase(o)'] /\ Phases[o] = Phase(o) /\ DOMAIN Phases = Objects
      BY <1>3, PhasesMove
    <2> QED
      BY <2>1, <2>2 DEF Refined, Abstract!Next, Abstract!Answer, Abstract!Move
  <1> QED
    BY <1>2, <1>3, <1>4, <1>5, <1>6, <1>7, <1>8, OneObject

\* A stream begins.
LEMMA BeginStep ==
    ASSUME IInv, NEW o \in Objects, NEW n \in 0..MaxParts, BeginStream(o, n), rpc[o] # "Connect",
           n = 0 => rpc[o] = "UpdateSubscriptions"
    PROVE  IInv' /\ Refined
  <1> USE DEF BeginStream, otherVars, connectVars, serverVars, objVars
  <1>1. TypeOK /\ Mutex /\ Own(o)
    BY OwnParts DEF IInv
  <1>2. TypeOK'
    BY <1>1, BoundsAssumption DEF TypeOK
  <1>3. \A p \in Objects \ {o} : SameFor(p)
    BY <1>1 DEF TypeOK, SameFor
  <1>4. Own(o)'
    <2>1. Driving(o)'
      BY <1>1, <1>2, BoundsAssumption DEF Own, Driving, Alive, TypeOK, LifeOf
    <2>2. LifeOf(o)'
      BY <1>1, <1>2, BoundsAssumption DEF Own, Driving, LifeOf, Fresh, Alive, TypeOK, RepeatingOf, Mutex
    <2>3. rpc'[o] \notin {"ParamInfoRequest", "UpdateSubscriptions"} => OrderlyOf(o)'
      BY <1>1, <1>2, BoundsAssumption DEF Own, OrderlyOf, TypeOK, LifeOf, Fresh, Alive, Mutex
    <2>4. rpc'[o] = "UpdateSubscriptions" => SelectiveOf(o)'
      BY <1>1, <1>2, BoundsAssumption DEF Own, SelectiveOf, TypeOK, LifeOf, Fresh, Alive, Mutex
    <2>5. rpc'[o] = "ParamInfoRequest" => RepeatingOf(o)'
      BY <1>1, <1>2, BoundsAssumption DEF Own, RepeatingOf, TypeOK, LifeOf, Fresh, Driving, Alive, Mutex
    <2> QED
      BY <2>1, <2>2, <2>3, <2>4, <2>5 DEF Own
  <1>5. Mutex'
    BY <1>1, ObjectsFinite DEF Mutex, TypeOK
  <1>6. Held(o)' => Held(o)
    BY <1>1 DEF Held, Taking, WasOffered, Own, Driving, LifeOf, Alive, TypeOK
  <1>7. /\ serverDown \/ (Waiting(o) => Waiting(o)')
        /\ Taking(o)' => Taking(o)
        /\ status'[o] = "unborn" <=> status[o] = "unborn"
        /\ events = "returned" => ~Alive(o)'
        /\ rpc'[o] = rpc[o]
        /\ UNCHANGED <<serverDown, cqDown, events>>
    BY <1>1 DEF Waiting, Taking, Own, Driving, LifeOf, Alive, TypeOK, IInv, Ending, Registry
  <1>8. Refined
    <2>1. Phase(o)' = Phase(o)
      BY <1>1 DEF Phase, WasOffered, Own, Driving, LifeOf, Fresh, Alive, TypeOK, RepeatingOf, Mutex
    <2> QED
      BY <1>3, <2>1, SamePhases
  <1> QED
    BY <1>2, <1>3, <1>4, <1>5, <1>6, <1>7, <1>8, OneObject

\* A stream sends its next response.
LEMMA SendNextStep ==
    ASSUME IInv, NEW o \in Objects, SendNext(o), at[o] = "switch", status[o] = "kWrite",
           rpc[o] \notin {"Connect", "UpdateSubscriptions", "ParamInfoRequest"}
    PROVE  IInv' /\ Refined
  <1> USE DEF SendNext, WritePart, otherVars, connectVars, serverVars, objVars
  <1>1. TypeOK /\ Mutex /\ Own(o)
    BY OwnParts DEF IInv
  <1>2. TypeOK'
    <2>1. /\ current[o] \in 1..MaxParts /\ current[o] + 1 \in 1..MaxParts + 1
          /\ sent[o] \in Seq(1..MaxParts) /\ Append(sent[o], current[o]) \in Seq(1..MaxParts)
      BY <1>1, BoundsAssumption DEF TypeOK
    <2>2. /\ current' = [current EXCEPT ![o] = current[o] + 1]
          /\ sent' = [sent EXCEPT ![o] = Append(sent[o], current[o])]
          /\ status' \in {[status EXCEPT ![o] = "kWrite"], [status EXCEPT ![o] = "kPostWrite"]}
      OBVIOUS
    <2>3. current' \in [Objects -> 1..MaxParts + 1] /\ sent' \in [Objects -> Seq(1..MaxParts)]
      BY <1>1, <2>1, <2>2 DEF TypeOK
    <2>4. status' \in [Objects -> {"unborn", "kProcess", "kWrite", "kPostWrite", "kFinish", "gone"}]
      BY <1>1, <2>2 DEF TypeOK
    <2> QED
      BY <1>1, <2>3, <2>4 DEF TypeOK
  <1>3. \A p \in Objects \ {o} : SameFor(p)
    BY <1>1 DEF TypeOK, SameFor
  <1>4. Own(o)'
    <2>1. Driving(o)'
      BY <1>1, <1>2, BoundsAssumption DEF Own, Driving, Alive, TypeOK, LifeOf
    <2>2. LifeOf(o)'
      BY <1>1, <1>2, BoundsAssumption DEF Own, Driving, LifeOf, Fresh, Alive, TypeOK, RepeatingOf, Mutex
    <2>3. rpc'[o] \notin {"ParamInfoRequest", "UpdateSubscriptions"} => OrderlyOf(o)'
      <3>1. sent'[o] = Append(sent[o], current[o]) /\ sent[o] \in Seq(1..MaxParts) /\ current[o] \in 1..MaxParts
        BY <1>1, BoundsAssumption DEF TypeOK
      <3>2. /\ Len(sent'[o]) = Len(sent[o]) + 1 /\ Len(sent[o]) \in Nat
            /\ \A j \in 1..Len(sent[o]) + 1 :
                  sent'[o][j] = IF j <= Len(sent[o]) THEN sent[o][j] ELSE current[o]
        BY <3>1, AppendAt
      <3>3. OrderlyOf(o) /\ current'[o] = current[o] + 1 /\ reply'[o] = reply[o] /\ reply[o] = "none"
            /\ rpc'[o] = rpc[o] /\ parts'[o] = parts[o] /\ parts[o] \in Nat /\ current[o] \in Nat
            /\ status'[o] = IF current[o] < parts[o] THEN "kWrite" ELSE "kPostWrite"
        BY <1>1 DEF TypeOK, Own, LifeOf
      <3>4. Len(sent[o]) = current[o] - 1 /\ current[o] <= parts[o]
        BY <1>1, <3>3 DEF OrderlyOf
      <3> QED
        BY <3>2, <3>3, <3>4 DEF OrderlyOf
    <2>4. rpc'[o] = "UpdateSubscriptions" => SelectiveOf(o)'
      BY <1>1, <1>2, BoundsAssumption DEF Own, SelectiveOf, TypeOK, LifeOf, Fresh, Alive, Mutex
    <2>5. rpc'[o] = "ParamInfoRequest" => RepeatingOf(o)'
      BY <1>1, <1>2, BoundsAssumption DEF Own, RepeatingOf, TypeOK, LifeOf, Fresh, Driving, Alive, Mutex
    <2> QED
      BY <2>1, <2>2, <2>3, <2>4, <2>5 DEF Own
  <1>5. Mutex'
    BY <1>1, ObjectsFinite DEF Mutex, TypeOK
  <1>6. Held(o)' => Held(o)
    BY <1>1 DEF Held, Taking, WasOffered, Own, Driving, LifeOf, Alive, TypeOK
  <1>7. /\ serverDown \/ (Waiting(o) => Waiting(o)')
        /\ Taking(o)' => Taking(o)
        /\ status'[o] = "unborn" <=> status[o] = "unborn"
        /\ events = "returned" => ~Alive(o)'
        /\ rpc'[o] = rpc[o]
        /\ UNCHANGED <<serverDown, cqDown, events>>
    BY <1>1 DEF Waiting, Taking, Own, Driving, LifeOf, Alive, TypeOK, IInv, Ending, Registry
  <1>8. Refined
    <2>1. Phase(o) = "open" /\ Phase(o)' = "open"
      BY <1>1 DEF Phase, WasOffered, Own, Driving, LifeOf, Fresh, Alive, TypeOK, RepeatingOf
    <2>2. Phases' = [Phases EXCEPT ![o] = Phase(o)'] /\ Phases[o] = Phase(o) /\ DOMAIN Phases = Objects
      BY <1>3, PhasesMove
    <2>3. Phases' = Phases
      BY <2>1, <2>2 DEF Phases
    <2>4. /\ sent' = [sent EXCEPT ![o] = Append(sent[o], current[o])] /\ current[o] \in 1..MaxParts
          /\ sent[o] \in Seq(1..MaxParts)
      BY <1>1, BoundsAssumption DEF TypeOK, Own, LifeOf, RepeatingOf
    <2>5. \A j \in DOMAIN sent[o] : sent[o][j] <= current[o]
      <3>1. /\ DOMAIN sent[o] = 1..Len(sent[o]) /\ Len(sent[o]) \in Nat
            /\ \A j \in 1..Len(sent[o]) : sent[o][j] \in Nat
        BY <2>4, BoundsAssumption
      <3>2. /\ OrderlyOf(o) /\ current[o] \in Nat /\ parts[o] \in Nat
            /\ status[o] \in {"kWrite", "kPostWrite"}
        BY <1>1 DEF Own, TypeOK, LifeOf
      <3>3. Len(sent[o]) < current[o]
        BY <1>1, <3>1, <3>2, ObjectsFinite DEF OrderlyOf, Mutex
      <3> QED
        BY <2>4, <3>1, <3>2, <3>3, BoundsAssumption DEF OrderlyOf
    <2> QED
      BY <2>1, <2>2, <2>3, <2>4, <2>5 DEF Refined, Abstract!Next, Abstract!Send
  <1> QED
    BY <1>2, <1>3, <1>4, <1>5, <1>6, <1>7, <1>8, OneObject

\* UpdateSubscriptions sends a response further on.
LEMMA SelectStep ==
    ASSUME IInv, NEW o \in Objects, NEW i \in current[o]..parts[o], WritePart(o, i, "kWrite"),
           at[o] = "switch", status[o] = "kWrite", rpc[o] = "UpdateSubscriptions"
    PROVE  IInv' /\ Refined
  <1> USE DEF WritePart, otherVars, connectVars, serverVars, objVars
  <1>1. TypeOK /\ Mutex /\ Own(o)
    BY OwnParts DEF IInv
  <1>2. TypeOK'
    BY <1>1, BoundsAssumption DEF TypeOK
  <1>3. \A p \in Objects \ {o} : SameFor(p)
    BY <1>1 DEF TypeOK, SameFor
  <1>4. Own(o)'
    <2>1. Driving(o)'
      BY <1>1, <1>2, BoundsAssumption DEF Own, Driving, Alive, TypeOK, LifeOf
    <2>2. LifeOf(o)'
      BY <1>1, <1>2, BoundsAssumption DEF Own, Driving, LifeOf, Fresh, Alive, TypeOK, RepeatingOf, Mutex
    <2>3. rpc'[o] \notin {"ParamInfoRequest", "UpdateSubscriptions"} => OrderlyOf(o)'
      BY <1>1, <1>2, BoundsAssumption DEF Own, OrderlyOf, TypeOK, LifeOf, Fresh, Alive, Mutex
    <2>4. rpc'[o] = "UpdateSubscriptions" => SelectiveOf(o)'
      <3>1. sent'[o] = Append(sent[o], i) /\ sent[o] \in Seq(1..MaxParts) /\ i \in 1..MaxParts
        BY <1>1, BoundsAssumption DEF TypeOK
      <3>2. /\ Len(sent'[o]) = Len(sent[o]) + 1 /\ Len(sent[o]) \in Nat
            /\ \A j \in 1..Len(sent[o]) + 1 :
                  sent'[o][j] = IF j <= Len(sent[o]) THEN sent[o][j] ELSE i
        BY <3>1, AppendAt
      <3>3. SelectiveOf(o) /\ current'[o] = i + 1 /\ parts'[o] = parts[o] /\ parts[o] \in Nat
            /\ status'[o] = "kWrite" /\ current[o] \in Nat /\ i \in Nat
        BY <1>1 DEF TypeOK, Own
      <3>4. \A j \in 1..Len(sent[o]) : sent[o][j] \in Nat
        BY <3>1, BoundsAssumption
      <3> QED
        <4>1. \A j \in 1..Len(sent'[o]) : sent'[o][j] < current'[o] /\ sent'[o][j] <= parts'[o]
          BY <3>2, <3>3, <3>4 DEF SelectiveOf
        <4>2. \A j, k \in 1..Len(sent'[o]) : j < k => sent'[o][j] < sent'[o][k]
          BY <3>2, <3>3, <3>4 DEF SelectiveOf
        <4> QED
          BY <3>3, <4>1, <4>2 DEF SelectiveOf
    <2>5. rpc'[o] = "ParamInfoRequest" => RepeatingOf(o)'
      BY <1>1, <1>2, BoundsAssumption DEF Own, RepeatingOf, TypeOK, LifeOf, Fresh, Driving, Alive, Mutex
    <2> QED
      BY <2>1, <2>2, <2>3, <2>4, <2>5 DEF Own
  <1>5. Mutex'
    BY <1>1, ObjectsFinite DEF Mutex, TypeOK
  <1>6. Held(o)' => Held(o)
    BY <1>1 DEF Held, Taking, WasOffered, Own, Driving, LifeOf, Alive, TypeOK
  <1>7. /\ serverDown \/ (Waiting(o) => Waiting(o)')
        /\ Taking(o)' => Taking(o)
        /\ status'[o] = "unborn" <=> status[o] = "unborn"
        /\ events = "returned" => ~Alive(o)'
        /\ rpc'[o] = rpc[o]
        /\ UNCHANGED <<serverDown, cqDown, events>>
    BY <1>1 DEF Waiting, Taking, Own, Driving, LifeOf, Alive, TypeOK, IInv, Ending, Registry
  <1>8. Refined
    <2>1. Phase(o) = "open" /\ Phase(o)' = "open"
      BY <1>1 DEF Phase, WasOffered, Own, Driving, LifeOf, Fresh, Alive, TypeOK, RepeatingOf
    <2>2. Phases' = [Phases EXCEPT ![o] = Phase(o)'] /\ Phases[o] = Phase(o) /\ DOMAIN Phases = Objects
      BY <1>3, PhasesMove
    <2>3. Phases' = Phases
      BY <2>1, <2>2 DEF Phases
    <2>4. /\ sent' = [sent EXCEPT ![o] = Append(sent[o], i)] /\ i \in 1..MaxParts
          /\ sent[o] \in Seq(1..MaxParts)
      BY <1>1, BoundsAssumption DEF TypeOK, Own, LifeOf, RepeatingOf
    <2>5. \A j \in DOMAIN sent[o] : sent[o][j] <= i
      <3>1. /\ DOMAIN sent[o] = 1..Len(sent[o]) /\ Len(sent[o]) \in Nat
            /\ \A j \in 1..Len(sent[o]) : sent[o][j] \in Nat
        BY <2>4, BoundsAssumption
      <3>2. /\ SelectiveOf(o) /\ current[o] \in Nat /\ parts[o] \in Nat
            /\ status[o] \in {"kWrite", "kPostWrite"}
        BY <1>1 DEF Own, TypeOK, LifeOf
      <3>3. current[o] <= i
        BY <1>1, <3>1, <3>2, ObjectsFinite DEF SelectiveOf, Mutex
      <3> QED
        BY <2>4, <3>1, <3>2, <3>3, BoundsAssumption DEF SelectiveOf
    <2> QED
      BY <2>1, <2>2, <2>3, <2>4, <2>5 DEF Refined, Abstract!Next, Abstract!Send
  <1> QED
    BY <1>2, <1>3, <1>4, <1>5, <1>6, <1>7, <1>8, OneObject

\* A thread of ParamInfoRequest has read status_.
LEMMA EnterWriteStep ==
    ASSUME IInv, NEW o \in Objects, EnterWrite(o)
    PROVE  IInv' /\ Refined
  <1> USE DEF EnterWrite, In, otherVars, connectVars, serverVars, objVars
  <1>1. TypeOK /\ Mutex /\ Own(o)
    BY OwnParts DEF IInv
  <1>2. TypeOK'
    BY <1>1, BoundsAssumption DEF TypeOK
  <1>3. \A p \in Objects \ {o} : SameFor(p)
    BY <1>1 DEF TypeOK, SameFor
  <1>4. Own(o)'
    <2>1. Driving(o)'
      BY <1>1, <1>2, BoundsAssumption DEF Own, Driving, Alive, TypeOK, LifeOf
    <2>2. LifeOf(o)'
      BY <1>1, <1>2, BoundsAssumption DEF Own, Driving, LifeOf, Fresh, Alive, TypeOK, RepeatingOf, Mutex
    <2>3. rpc'[o] \notin {"ParamInfoRequest", "UpdateSubscriptions"} => OrderlyOf(o)'
      BY <1>1, <1>2, BoundsAssumption DEF Own, OrderlyOf, TypeOK, LifeOf, Fresh, Alive, Mutex
    <2>4. rpc'[o] = "UpdateSubscriptions" => SelectiveOf(o)'
      BY <1>1, <1>2, BoundsAssumption DEF Own, SelectiveOf, TypeOK, LifeOf, Fresh, Alive, Mutex
    <2>5. rpc'[o] = "ParamInfoRequest" => RepeatingOf(o)'
      BY <1>1, <1>2, BoundsAssumption DEF Own, RepeatingOf, TypeOK, LifeOf, Fresh, Driving, Alive, Mutex
    <2> QED
      BY <2>1, <2>2, <2>3, <2>4, <2>5 DEF Own
  <1>5. Mutex'
    BY <1>1, ObjectsFinite DEF Mutex, TypeOK
  <1>6. Held(o)' => Held(o)
    BY <1>1 DEF Held, Taking, WasOffered, Own, Driving, LifeOf, Alive, TypeOK
  <1>7. /\ serverDown \/ (Waiting(o) => Waiting(o)')
        /\ Taking(o)' => Taking(o)
        /\ status'[o] = "unborn" <=> status[o] = "unborn"
        /\ events = "returned" => ~Alive(o)'
        /\ rpc'[o] = rpc[o]
        /\ UNCHANGED <<serverDown, cqDown, events>>
    BY <1>1 DEF Waiting, Taking, Own, Driving, LifeOf, Alive, TypeOK, IInv, Ending, Registry
  <1>8. Refined
    <2>1. Phase(o)' = Phase(o)
      BY <1>1 DEF Phase, WasOffered, Own, Driving, LifeOf, Fresh, Alive, TypeOK, RepeatingOf, Mutex
    <2> QED
      BY <1>3, <2>1, SamePhases
  <1> QED
    BY <1>2, <1>3, <1>4, <1>5, <1>6, <1>7, <1>8, OneObject

\* It starts a write, perhaps of the last response again.
LEMMA StartWriteStep ==
    ASSUME IInv, NEW o \in Objects, StartWrite(o)
    PROVE  IInv' /\ Refined
  <1> USE DEF StartWrite, otherVars, connectVars, serverVars, objVars
  <1>1. TypeOK /\ Mutex /\ Own(o)
    BY OwnParts DEF IInv
  <1>2. TypeOK'
    BY <1>1, BoundsAssumption DEF TypeOK, Own, LifeOf, RepeatingOf
  <1>3. \A p \in Objects \ {o} : SameFor(p)
    BY <1>1 DEF TypeOK, SameFor
  <1>4. Own(o)'
    <2>1. Driving(o)'
      BY <1>1, <1>2, BoundsAssumption DEF Own, Driving, Alive, TypeOK, LifeOf
    <2>2. LifeOf(o)'
      BY <1>1, <1>2, BoundsAssumption DEF Own, Driving, LifeOf, Fresh, Alive, TypeOK, RepeatingOf, Mutex
    <2>3. rpc'[o] \notin {"ParamInfoRequest", "UpdateSubscriptions"} => OrderlyOf(o)'
      BY <1>1, <1>2, BoundsAssumption DEF Own, OrderlyOf, TypeOK, LifeOf, Fresh, Alive, Mutex
    <2>4. rpc'[o] = "UpdateSubscriptions" => SelectiveOf(o)'
      BY <1>1, <1>2, BoundsAssumption DEF Own, SelectiveOf, TypeOK, LifeOf, Fresh, Alive, Mutex
    <2>5. rpc'[o] = "ParamInfoRequest" => RepeatingOf(o)'
      <3>1. sent'[o] = Append(sent[o], current[o]) /\ sent[o] \in Seq(1..MaxParts) /\ current[o] \in 1..MaxParts
        BY <1>1, BoundsAssumption DEF TypeOK, Own, LifeOf, RepeatingOf
      <3>2. /\ Len(sent'[o]) = Len(sent[o]) + 1 /\ Len(sent[o]) \in Nat
            /\ \A j \in 1..Len(sent[o]) + 1 :
                  sent'[o][j] = IF j <= Len(sent[o]) THEN sent[o][j] ELSE current[o]
        BY <3>1, AppendAt
      <3>3. RepeatingOf(o) /\ o \notin trailing /\ trailing' = trailing \cup {o} /\ at'[o] = "idle"
            /\ current'[o] = current[o] /\ reply'[o] = reply[o] /\ reply[o] = "none"
            /\ status'[o] = status[o] /\ parts'[o] = parts[o] /\ rpc'[o] = rpc[o]
            /\ parts[o] \in Nat /\ current[o] \in Nat
        BY <1>1, ObjectsFinite DEF TypeOK, Own, LifeOf, Mutex
      <3>4. /\ status[o] \in {"kWrite", "kPostWrite"} /\ current[o] <= parts[o]
            /\ status[o] = "kWrite" => Len(sent[o]) = current[o] - 1
            /\ status[o] = "kPostWrite" => Len(sent[o]) = parts[o] /\ current[o] = parts[o]
        BY <1>1, <3>3 DEF RepeatingOf, Own, LifeOf
      <3>5. \A j \in 1..Len(sent'[o]) : sent'[o][j] = IF j <= parts[o] THEN j ELSE parts[o]
        BY SMTT(40), <3>2, <3>3, <3>4 DEF RepeatingOf
      <3> QED
        BY <3>2, <3>3, <3>4, <3>5 DEF RepeatingOf, Alive
    <2> QED
      BY <2>1, <2>2, <2>3, <2>4, <2>5 DEF Own
  <1>5. Mutex'
    BY <1>1, ObjectsFinite DEF Mutex, TypeOK, Own, LifeOf
  <1>6. Held(o)' => Held(o)
    BY <1>1 DEF Held, Taking, WasOffered, Own, Driving, LifeOf, Alive, TypeOK
  <1>7. /\ serverDown \/ (Waiting(o) => Waiting(o)')
        /\ Taking(o)' => Taking(o)
        /\ status'[o] = "unborn" <=> status[o] = "unborn"
        /\ events = "returned" => ~Alive(o)'
        /\ rpc'[o] = rpc[o]
        /\ UNCHANGED <<serverDown, cqDown, events>>
    BY <1>1 DEF Waiting, Taking, Own, Driving, LifeOf, Alive, TypeOK, IInv, Ending, Registry
  <1>8. Refined
    <2>1. Phase(o) = "open" /\ Phase(o)' = "open"
      BY <1>1 DEF Phase, WasOffered, Own, Driving, LifeOf, Fresh, Alive, TypeOK, RepeatingOf
    <2>2. Phases' = [Phases EXCEPT ![o] = Phase(o)'] /\ Phases[o] = Phase(o) /\ DOMAIN Phases = Objects
      BY <1>3, PhasesMove
    <2>3. Phases' = Phases
      BY <2>1, <2>2 DEF Phases
    <2>4. /\ sent' = [sent EXCEPT ![o] = Append(sent[o], current[o])] /\ current[o] \in 1..MaxParts
          /\ sent[o] \in Seq(1..MaxParts)
      BY <1>1, BoundsAssumption DEF TypeOK, Own, LifeOf, RepeatingOf
    <2>5. \A j \in DOMAIN sent[o] : sent[o][j] <= current[o]
      <3>1. /\ DOMAIN sent[o] = 1..Len(sent[o]) /\ Len(sent[o]) \in Nat
            /\ \A j \in 1..Len(sent[o]) : sent[o][j] \in Nat
        BY <2>4, BoundsAssumption
      <3>2. /\ RepeatingOf(o) /\ current[o] \in Nat /\ parts[o] \in Nat
            /\ status[o] \in {"kWrite", "kPostWrite"}
        BY <1>1 DEF Own, TypeOK, LifeOf
      <3>3. \/ Len(sent[o]) < current[o]
            \/ current[o] = parts[o] /\ Len(sent[o]) = parts[o]
        BY <1>1, <3>1, <3>2, ObjectsFinite DEF RepeatingOf, Mutex
      <3> QED
        BY SMTT(40), <2>4, <3>1, <3>2, <3>3, BoundsAssumption DEF RepeatingOf
    <2> QED
      BY <2>1, <2>2, <2>3, <2>4, <2>5 DEF Refined, Abstract!Next, Abstract!Send
  <1> QED
    BY <1>2, <1>3, <1>4, <1>5, <1>6, <1>7, <1>8, OneObject

\* It goes on after the write, whatever has happened to the object.
LEMMA AfterWriteStep ==
    ASSUME IInv, NEW o \in Objects, AfterWrite(o)
    PROVE  IInv' /\ Refined
  <1> USE DEF AfterWrite, otherVars, connectVars, serverVars, objVars
  <1>1. TypeOK /\ Mutex /\ Own(o)
    BY OwnParts DEF IInv
  <1>2. TypeOK'
    <2>1. dangling' \in BOOLEAN
      BY <1>1, Zenon DEF TypeOK
    <2>2. current' \in [Objects -> 1..MaxParts + 1]
      <3>1. (IF current[o] < parts[o] THEN current[o] + 1 ELSE current[o]) \in 1..MaxParts + 1
        BY <1>1, BoundsAssumption DEF TypeOK
      <3>2. \/ current' = current
            \/ current' = [current EXCEPT ![o] = IF current[o] < parts[o] THEN current[o] + 1 ELSE current[o]]
        OBVIOUS
      <3> QED
        <4>1. current \in [Objects -> 1..MaxParts + 1]
          BY <1>1 DEF TypeOK
        <4> QED
          BY <3>1, <3>2, <4>1
    <2>3. status' \in [Objects -> {"unborn", "kProcess", "kWrite", "kPostWrite", "kFinish", "gone"}]
      BY <1>1 DEF TypeOK
    <2> QED
      BY <1>1, <2>1, <2>2, <2>3, BoundsAssumption DEF TypeOK
  <1>3. \A p \in Objects \ {o} : SameFor(p)
    BY <1>1 DEF TypeOK, SameFor
  <1>4. Own(o)'
    <2>1. Driving(o)'
      BY <1>1, <1>2, BoundsAssumption DEF Own, Driving, Alive, TypeOK, LifeOf
    <2>2. LifeOf(o)'
      BY <1>1, <1>2, BoundsAssumption DEF Own, Driving, LifeOf, Fresh, Alive, TypeOK, RepeatingOf, Mutex
    <2>3. rpc'[o] \notin {"ParamInfoRequest", "UpdateSubscriptions"} => OrderlyOf(o)'
      BY <1>1, <1>2, BoundsAssumption DEF Own, OrderlyOf, TypeOK, LifeOf, Fresh, Alive, Mutex
    <2>4. rpc'[o] = "UpdateSubscriptions" => SelectiveOf(o)'
      BY <1>1, <1>2, BoundsAssumption DEF Own, SelectiveOf, TypeOK, LifeOf, Fresh, Alive, Mutex
    <2>5. rpc'[o] = "ParamInfoRequest" => RepeatingOf(o)'
      BY <1>1, <1>2, BoundsAssumption DEF Own, RepeatingOf, TypeOK, LifeOf, Fresh, Driving, Alive, Mutex
    <2> QED
      BY <2>1, <2>2, <2>3, <2>4, <2>5 DEF Own
  <1>5. Mutex'
    BY <1>1, ObjectsFinite DEF Mutex, TypeOK
  <1>6. Held(o)' => Held(o)
    BY <1>1 DEF Held, Taking, WasOffered, Own, Driving, LifeOf, Alive, TypeOK
  <1>7. /\ serverDown \/ (Waiting(o) => Waiting(o)')
        /\ Taking(o)' => Taking(o)
        /\ status'[o] = "unborn" <=> status[o] = "unborn"
        /\ events = "returned" => ~Alive(o)'
        /\ rpc'[o] = rpc[o]
        /\ UNCHANGED <<serverDown, cqDown, events>>
    BY <1>1 DEF Waiting, Taking, Own, Driving, LifeOf, Alive, TypeOK, IInv, Ending, Registry, RepeatingOf, Mutex
  <1>8. Refined
    <2>1. Phase(o)' = Phase(o)
      BY <1>1 DEF Phase, WasOffered, Own, Driving, LifeOf, Fresh, Alive, TypeOK, RepeatingOf, Mutex
    <2> QED
      BY <1>3, <2>1, SamePhases
  <1> QED
    BY <1>2, <1>3, <1>4, <1>5, <1>6, <1>7, <1>8, OneObject

\* A Connect call is connected to shutdownSignal_.
LEMMA ConnectSignalStep ==
    ASSUME IInv, NEW o \in Objects, ConnectSignal(o)
    PROVE  IInv' /\ Refined
  <1> USE DEF ConnectSignal, In, otherVars, connectVars, serverVars, objVars
  <1>1. TypeOK /\ Mutex /\ Own(o)
    BY OwnParts DEF IInv
  <1>2. TypeOK'
    BY <1>1, BoundsAssumption DEF TypeOK
  <1>3. \A p \in Objects \ {o} : SameFor(p)
    BY <1>1 DEF TypeOK, SameFor
  <1>4. Own(o)'
    <2>1. Driving(o)'
      BY <1>1, <1>2, BoundsAssumption DEF Own, Driving, Alive, TypeOK, LifeOf
    <2>2. LifeOf(o)'
      BY <1>1, <1>2, BoundsAssumption DEF Own, Driving, LifeOf, Fresh, Alive, TypeOK, RepeatingOf, Mutex
    <2>3. rpc'[o] \notin {"ParamInfoRequest", "UpdateSubscriptions"} => OrderlyOf(o)'
      BY <1>1, <1>2, BoundsAssumption DEF Own, OrderlyOf, TypeOK, LifeOf, Fresh, Alive, Mutex
    <2>4. rpc'[o] = "UpdateSubscriptions" => SelectiveOf(o)'
      BY <1>1, <1>2, BoundsAssumption DEF Own, SelectiveOf, TypeOK, LifeOf, Fresh, Alive, Mutex
    <2>5. rpc'[o] = "ParamInfoRequest" => RepeatingOf(o)'
      BY <1>1, <1>2, BoundsAssumption DEF Own, RepeatingOf, TypeOK, LifeOf, Fresh, Driving, Alive, Mutex
    <2> QED
      BY <2>1, <2>2, <2>3, <2>4, <2>5 DEF Own
  <1>5. Mutex'
    BY <1>1, ObjectsFinite DEF Mutex, TypeOK
  <1>6. Held(o)' => Held(o)
    BY <1>1 DEF Held, Taking, WasOffered, Own, Driving, LifeOf, Alive, TypeOK
  <1>7. /\ serverDown \/ (Waiting(o) => Waiting(o)')
        /\ Taking(o)' => Taking(o)
        /\ status'[o] = "unborn" <=> status[o] = "unborn"
        /\ events = "returned" => ~Alive(o)'
        /\ rpc'[o] = rpc[o]
        /\ UNCHANGED <<serverDown, cqDown, events>>
    BY <1>1 DEF Waiting, Taking, Own, Driving, LifeOf, Alive, TypeOK, IInv, Ending, Registry
  <1>8. Refined
    <2>1. Phase(o)' = Phase(o)
      BY <1>1 DEF Phase, WasOffered, Own, Driving, LifeOf, Fresh, Alive, TypeOK, RepeatingOf, Mutex
    <2> QED
      BY <1>3, <2>1, SamePhases
  <1> QED
    BY <1>2, <1>3, <1>4, <1>5, <1>6, <1>7, <1>8, OneObject

\* A Connect call writes the list of slots.
LEMMA ConnectFirstWriteStep ==
    ASSUME IInv, NEW o \in Objects, ConnectFirstWrite(o), rpc[o] = "Connect"
    PROVE  IInv' /\ Refined
  <1> USE DEF ConnectFirstWrite, otherVars, connectVars, serverVars, objVars
  <1>1. TypeOK /\ Mutex /\ Own(o)
    BY OwnParts DEF IInv
  <1>2. TypeOK'
    BY <1>1, BoundsAssumption DEF TypeOK
  <1>3. \A p \in Objects \ {o} : SameFor(p)
    BY <1>1 DEF TypeOK, SameFor
  <1>4. Own(o)'
    <2>1. Driving(o)'
      BY <1>1, <1>2, BoundsAssumption DEF Own, Driving, Alive, TypeOK, LifeOf
    <2>2. LifeOf(o)'
      BY <1>1, <1>2, BoundsAssumption DEF Own, Driving, LifeOf, Fresh, Alive, TypeOK, RepeatingOf, Mutex
    <2>3. rpc'[o] \notin {"ParamInfoRequest", "UpdateSubscriptions"} => OrderlyOf(o)'
      <3> SUFFICES ASSUME rpc[o] \notin {"ParamInfoRequest", "UpdateSubscriptions"}
                   PROVE  OrderlyOf(o)'
        BY <1>1 DEF TypeOK
      <3>1. OrderlyOf(o)
        BY <1>1 DEF Own
      <3>2. /\ rpc'[o] = rpc[o] /\ sent'[o] = sent[o] /\ parts'[o] = parts[o]
            /\ current'[o] = current[o]
        BY <1>1 DEF TypeOK
      <3>3. status'[o] = "kWrite" => /\ Len(sent[o]) = current[o] - 1
                                     /\ rpc[o] # "Connect" => current[o] <= parts[o]
        BY <1>1, <3>1 DEF TypeOK, OrderlyOf, Own, LifeOf, Fresh
      <3>4. status'[o] = "kPostWrite" \/ reply'[o] = "OK" => Len(sent[o]) = parts[o]
        BY <1>1, <3>1 DEF TypeOK, OrderlyOf, Own, LifeOf, Fresh
      <3> QED
        BY <3>1, <3>2, <3>3, <3>4, OrderlyKept
    <2>4. rpc'[o] = "UpdateSubscriptions" => SelectiveOf(o)'
      BY <1>1, <1>2, BoundsAssumption DEF Own, SelectiveOf, TypeOK, LifeOf, Fresh, Alive, Mutex
    <2>5. rpc'[o] = "ParamInfoRequest" => RepeatingOf(o)'
      BY <1>1, <1>2, BoundsAssumption DEF Own, RepeatingOf, TypeOK, LifeOf, Fresh, Driving, Alive, Mutex
    <2> QED
      BY <2>1, <2>2, <2>3, <2>4, <2>5 DEF Own
  <1>5. Mutex'
    BY <1>1, ObjectsFinite DEF Mutex, TypeOK
  <1>6. Held(o)' => Held(o)
    BY <1>1 DEF Held, Taking, WasOffered, Own, Driving, LifeOf, Alive, TypeOK
  <1>7. /\ serverDown \/ (Waiting(o) => Waiting(o)')
        /\ Taking(o)' => Taking(o)
        /\ status'[o] = "unborn" <=> status[o] = "unborn"
        /\ events = "returned" => ~Alive(o)'
        /\ rpc'[o] = rpc[o]
        /\ UNCHANGED <<serverDown, cqDown, events>>
    BY <1>1 DEF Waiting, Taking, Own, Driving, LifeOf, Alive, TypeOK, IInv, Ending, Registry
  <1>8. Refined
    <2>1. Phase(o)' = Phase(o)
      BY <1>1 DEF Phase, WasOffered, Own, Driving, LifeOf, Fresh, Alive, TypeOK, RepeatingOf, Mutex
    <2> QED
      BY <1>3, <2>1, SamePhases
  <1> QED
    BY <1>2, <1>3, <1>4, <1>5, <1>6, <1>7, <1>8, OneObject

\* Its thread waits for an update,
LEMMA ConnectGoesStep ==
    ASSUME IInv, NEW o \in Objects, rpc[o] = "Connect",
           ConnectEnters(o) \/ ConnectFindsNothing(o) \/ ConnectWaits(o) \/ Wakes(o) \/ ConnectGivesUp(o)
    PROVE  IInv' /\ Refined
  <1> USE DEF ConnectEnters, ConnectFindsNothing, ConnectWaits, Wakes, ConnectGivesUp, Goes, In, otherVars, connectVars, serverVars, objVars
  <1>1. TypeOK /\ Mutex /\ Own(o)
    BY OwnParts DEF IInv
  <1>2. TypeOK'
    BY <1>1, BoundsAssumption DEF TypeOK
  <1>3. \A p \in Objects \ {o} : SameFor(p)
    BY <1>1 DEF TypeOK, SameFor
  <1>4. Own(o)'
    <2>1. Driving(o)'
      BY <1>1, <1>2, BoundsAssumption DEF Own, Driving, Alive, TypeOK, LifeOf
    <2>2. LifeOf(o)'
      <3>1. /\ LifeOf(o) /\ Driving(o)
            /\ at'[o] = "send" => at[o] = "send"
            /\ at'[o] = "switch" => at[o] = "send" /\ o \in cancelled
            /\ at'[o] \in {"lock", "block", "wait", "switch"}
            /\ at[o] \in {"switch", "lock", "block", "wait", "send"}
            /\ at[o] = "switch" => status[o] = "kWrite"
            /\ UNCHANGED <<rpc, status, op, parts, current, sent, reply, cancelled, stopped, hand, serverDown>>
        BY <1>1 DEF TypeOK, Own
      <3> QED
        BY <3>1 DEF LifeOf, Driving, Fresh, Alive
    <2>3. rpc'[o] \notin {"ParamInfoRequest", "UpdateSubscriptions"} => OrderlyOf(o)'
      <3> SUFFICES ASSUME rpc[o] \notin {"ParamInfoRequest", "UpdateSubscriptions"}
                   PROVE  OrderlyOf(o)'
        BY <1>1 DEF TypeOK
      <3>1. OrderlyOf(o)
        BY <1>1 DEF Own
      <3>2. /\ rpc'[o] = rpc[o] /\ sent'[o] = sent[o] /\ parts'[o] = parts[o]
            /\ current'[o] = current[o]
        BY <1>1 DEF TypeOK
      <3>3. status'[o] = "kWrite" => /\ Len(sent[o]) = current[o] - 1
                                     /\ rpc[o] # "Connect" => current[o] <= parts[o]
        BY <1>1, <3>1 DEF TypeOK, OrderlyOf, Own, LifeOf, Fresh
      <3>4. status'[o] = "kPostWrite" \/ reply'[o] = "OK" => Len(sent[o]) = parts[o]
        BY <1>1, <3>1 DEF TypeOK, OrderlyOf, Own, LifeOf, Fresh
      <3> QED
        BY <3>1, <3>2, <3>3, <3>4, OrderlyKept
    <2>4. rpc'[o] = "UpdateSubscriptions" => SelectiveOf(o)'
      BY <1>1, <1>2, BoundsAssumption DEF Own, SelectiveOf, TypeOK, LifeOf, Fresh, Alive, Mutex
    <2>5. rpc'[o] = "ParamInfoRequest" => RepeatingOf(o)'
      BY <1>1, <1>2, BoundsAssumption DEF Own, RepeatingOf, TypeOK, LifeOf, Fresh, Driving, Alive, Mutex
    <2> QED
      BY <2>1, <2>2, <2>3, <2>4, <2>5 DEF Own
  <1>5. Mutex'
    BY <1>1, ObjectsFinite DEF Mutex, TypeOK
  <1>6. Held(o)' => Held(o)
    BY <1>1 DEF Held, Taking, WasOffered, Own, Driving, LifeOf, Alive, TypeOK
  <1>7. /\ serverDown \/ (Waiting(o) => Waiting(o)')
        /\ Taking(o)' => Taking(o)
        /\ status'[o] = "unborn" <=> status[o] = "unborn"
        /\ events = "returned" => ~Alive(o)'
        /\ rpc'[o] = rpc[o]
        /\ UNCHANGED <<serverDown, cqDown, events>>
    BY <1>1 DEF Waiting, Taking, Own, Driving, LifeOf, Alive, TypeOK, IInv, Ending, Registry
  <1>8. Refined
    <2>1. Phase(o)' = Phase(o)
      BY <1>1 DEF Phase, WasOffered, Own, Driving, LifeOf, Fresh, Alive, TypeOK, RepeatingOf, Mutex
    <2> QED
      BY <1>3, <2>1, SamePhases
  <1> QED
    BY <1>2, <1>3, <1>4, <1>5, <1>6, <1>7, <1>8, OneObject

\* finds one,
LEMMA ConnectJudgesStep ==
    ASSUME IInv, NEW o \in Objects, rpc[o] = "Connect", ConnectJudges(o)
    PROVE  IInv' /\ Refined
  <1> USE DEF ConnectJudges, Goes, otherVars, connectVars, serverVars, objVars
  <1>1. TypeOK /\ Mutex /\ Own(o)
    BY OwnParts DEF IInv
  <1>2. TypeOK'
    BY <1>1, BoundsAssumption DEF TypeOK
  <1>3. \A p \in Objects \ {o} : SameFor(p)
    BY <1>1 DEF TypeOK, SameFor
  <1>4. Own(o)'
    <2>1. Driving(o)'
      BY <1>1, <1>2, BoundsAssumption DEF Own, Driving, Alive, TypeOK, LifeOf
    <2>2. LifeOf(o)'
      BY <1>1, <1>2, BoundsAssumption DEF Own, Driving, LifeOf, Fresh, Alive, TypeOK, RepeatingOf, Mutex
    <2>3. rpc'[o] \notin {"ParamInfoRequest", "UpdateSubscriptions"} => OrderlyOf(o)'
      <3> SUFFICES ASSUME rpc[o] \notin {"ParamInfoRequest", "UpdateSubscriptions"}
                   PROVE  OrderlyOf(o)'
        BY <1>1 DEF TypeOK
      <3>1. OrderlyOf(o)
        BY <1>1 DEF Own
      <3>2. /\ rpc'[o] = rpc[o] /\ sent'[o] = sent[o] /\ parts'[o] = parts[o]
            /\ current'[o] = current[o]
        BY <1>1 DEF TypeOK
      <3>3. status'[o] = "kWrite" => /\ Len(sent[o]) = current[o] - 1
                                     /\ rpc[o] # "Connect" => current[o] <= parts[o]
        BY <1>1, <3>1 DEF TypeOK, OrderlyOf, Own, LifeOf, Fresh
      <3>4. status'[o] = "kPostWrite" \/ reply'[o] = "OK" => Len(sent[o]) = parts[o]
        BY <1>1, <3>1 DEF TypeOK, OrderlyOf, Own, LifeOf, Fresh
      <3> QED
        BY <3>1, <3>2, <3>3, <3>4, OrderlyKept
    <2>4. rpc'[o] = "UpdateSubscriptions" => SelectiveOf(o)'
      BY <1>1, <1>2, BoundsAssumption DEF Own, SelectiveOf, TypeOK, LifeOf, Fresh, Alive, Mutex
    <2>5. rpc'[o] = "ParamInfoRequest" => RepeatingOf(o)'
      BY <1>1, <1>2, BoundsAssumption DEF Own, RepeatingOf, TypeOK, LifeOf, Fresh, Driving, Alive, Mutex
    <2> QED
      BY <2>1, <2>2, <2>3, <2>4, <2>5 DEF Own
  <1>5. Mutex'
    BY <1>1, ObjectsFinite DEF Mutex, TypeOK
  <1>6. Held(o)' => Held(o)
    BY <1>1 DEF Held, Taking, WasOffered, Own, Driving, LifeOf, Alive, TypeOK
  <1>7. /\ serverDown \/ (Waiting(o) => Waiting(o)')
        /\ Taking(o)' => Taking(o)
        /\ status'[o] = "unborn" <=> status[o] = "unborn"
        /\ events = "returned" => ~Alive(o)'
        /\ rpc'[o] = rpc[o]
        /\ UNCHANGED <<serverDown, cqDown, events>>
    BY <1>1 DEF Waiting, Taking, Own, Driving, LifeOf, Alive, TypeOK, IInv, Ending, Registry
  <1>8. Refined
    <2>1. Phase(o)' = Phase(o)
      BY <1>1 DEF Phase, WasOffered, Own, Driving, LifeOf, Fresh, Alive, TypeOK, RepeatingOf, Mutex
    <2> QED
      BY <1>3, <2>1, SamePhases
  <1> QED
    BY <1>2, <1>3, <1>4, <1>5, <1>6, <1>7, <1>8, OneObject

\* and starts a write, or a finish of what has not been finished.
LEMMA ConnectStartsStep ==
    ASSUME IInv, NEW o \in Objects, rpc[o] = "Connect", NEW operation, NEW s,
           ConnectStarts(o, operation, s),
           (operation = "finish" /\ reply[o] = "none") \/ (operation = "write" /\ o \notin stopped),
           (s = status[o] /\ (operation = "finish" => o \in stopped)) \/ (s = "kFinish" /\ operation = "finish")
    PROVE  IInv' /\ Refined
  <1> USE DEF ConnectStarts, otherVars, connectVars, serverVars, objVars
  <1>1. TypeOK /\ Mutex /\ Own(o)
    BY OwnParts DEF IInv
  <1>2. TypeOK'
    BY <1>1, BoundsAssumption DEF TypeOK
  <1>3. \A p \in Objects \ {o} : SameFor(p)
    BY <1>1 DEF TypeOK, SameFor
  <1>4. Own(o)'
    <2>1. Driving(o)'
      BY <1>1, <1>2, BoundsAssumption DEF Own, Driving, Alive, TypeOK, LifeOf
    <2>2. LifeOf(o)'
      BY <1>1, <1>2, BoundsAssumption DEF Own, Driving, LifeOf, Fresh, Alive, TypeOK, RepeatingOf, Mutex
    <2>3. rpc'[o] \notin {"ParamInfoRequest", "UpdateSubscriptions"} => OrderlyOf(o)'
      <3> SUFFICES ASSUME rpc[o] \notin {"ParamInfoRequest", "UpdateSubscriptions"}
                   PROVE  OrderlyOf(o)'
        BY <1>1 DEF TypeOK
      <3>1. OrderlyOf(o)
        BY <1>1 DEF Own
      <3>2. /\ rpc'[o] = rpc[o] /\ sent'[o] = sent[o] /\ parts'[o] = parts[o]
            /\ current'[o] = current[o]
        BY <1>1 DEF TypeOK
      <3>3. status'[o] = "kWrite" => /\ Len(sent[o]) = current[o] - 1
                                     /\ rpc[o] # "Connect" => current[o] <= parts[o]
        BY <1>1, <3>1 DEF TypeOK, OrderlyOf, Own, LifeOf, Fresh
      <3>4. status'[o] = "kPostWrite" \/ reply'[o] = "OK" => Len(sent[o]) = parts[o]
        BY <1>1, <3>1 DEF TypeOK, OrderlyOf, Own, LifeOf, Fresh
      <3> QED
        BY <3>1, <3>2, <3>3, <3>4, OrderlyKept
    <2>4. rpc'[o] = "UpdateSubscriptions" => SelectiveOf(o)'
      BY <1>1, <1>2, BoundsAssumption DEF Own, SelectiveOf, TypeOK, LifeOf, Fresh, Alive, Mutex
    <2>5. rpc'[o] = "ParamInfoRequest" => RepeatingOf(o)'
      BY <1>1, <1>2, BoundsAssumption DEF Own, RepeatingOf, TypeOK, LifeOf, Fresh, Driving, Alive, Mutex
    <2> QED
      BY <2>1, <2>2, <2>3, <2>4, <2>5 DEF Own
  <1>5. Mutex'
    BY <1>1, ObjectsFinite DEF Mutex, TypeOK
  <1>6. Held(o)' => Held(o)
    BY <1>1 DEF Held, Taking, WasOffered, Own, Driving, LifeOf, Alive, TypeOK
  <1>7. /\ serverDown \/ (Waiting(o) => Waiting(o)')
        /\ Taking(o)' => Taking(o)
        /\ status'[o] = "unborn" <=> status[o] = "unborn"
        /\ events = "returned" => ~Alive(o)'
        /\ rpc'[o] = rpc[o]
        /\ UNCHANGED <<serverDown, cqDown, events>>
    BY <1>1 DEF Waiting, Taking, Own, Driving, LifeOf, Alive, TypeOK, IInv, Ending, Registry
  <1>8. Refined
    <2>1. /\ Phase(o) = IF reply[o] = "none" THEN "open" ELSE "answered"
          /\ Phase(o)' = IF reply'[o] = "none" THEN "open" ELSE "answered"
      BY <1>1 DEF Phase, WasOffered, Own, Driving, LifeOf, Alive, TypeOK
    <2>2. Phases' = [Phases EXCEPT ![o] = Phase(o)'] /\ Phases[o] = Phase(o) /\ DOMAIN Phases = Objects
      BY <1>3, PhasesMove
    <2>3. CASE operation = "finish"
      <3>1. Phase(o) = "open" /\ Phase(o)' = "answered"
        BY <1>1, <2>1, <2>3 DEF TypeOK
      <3> QED
        BY <2>2, <3>1 DEF Refined, Abstract!Next, Abstract!Answer, Abstract!Move
    <2>4. CASE operation = "write"
      BY <1>1, <1>3, <2>1, <2>4, SamePhases DEF TypeOK
    <2> QED
      BY <2>3, <2>4
  <1> QED
    BY <1>2, <1>3, <1>4, <1>5, <1>6, <1>7, <1>8, OneObject

\* It goes on beside the operation.
LEMMA HandLooksStep ==
    ASSUME IInv, NEW o \in Objects, rpc[o] = "Connect", HandLooks(o) \/ HandFindsNothing(o)
    PROVE  IInv' /\ Refined
  <1> USE DEF HandLooks, HandFindsNothing, otherVars, connectVars, serverVars, objVars
  <1>1. TypeOK /\ Mutex /\ Own(o)
    BY OwnParts DEF IInv
  <1>2. TypeOK'
    <2>1. dangling' \in BOOLEAN
      BY <1>1, Zenon DEF TypeOK
    <2> QED
      BY <1>1, <2>1, BoundsAssumption DEF TypeOK
  <1>3. \A p \in Objects \ {o} : SameFor(p)
    BY <1>1 DEF TypeOK, SameFor
  <1>4. Own(o)'
    <2>1. Driving(o)'
      BY <1>1, <1>2, BoundsAssumption DEF Own, Driving, Alive, TypeOK, LifeOf
    <2>2. LifeOf(o)'
      BY <1>1, <1>2, BoundsAssumption DEF Own, Driving, LifeOf, Fresh, Alive, TypeOK, RepeatingOf, Mutex
    <2>3. rpc'[o] \notin {"ParamInfoRequest", "UpdateSubscriptions"} => OrderlyOf(o)'
      <3> SUFFICES ASSUME rpc[o] \notin {"ParamInfoRequest", "UpdateSubscriptions"}
                   PROVE  OrderlyOf(o)'
        BY <1>1 DEF TypeOK
      <3>1. OrderlyOf(o)
        BY <1>1 DEF Own
      <3>2. /\ rpc'[o] = rpc[o] /\ sent'[o] = sent[o] /\ parts'[o] = parts[o]
            /\ current'[o] = current[o]
        BY <1>1 DEF TypeOK
      <3>3. status'[o] = "kWrite" => /\ Len(sent[o]) = current[o] - 1
                                     /\ rpc[o] # "Connect" => current[o] <= parts[o]
        BY <1>1, <3>1 DEF TypeOK, OrderlyOf, Own, LifeOf, Fresh
      <3>4. status'[o] = "kPostWrite" \/ reply'[o] = "OK" => Len(sent[o]) = parts[o]
        BY <1>1, <3>1 DEF TypeOK, OrderlyOf, Own, LifeOf, Fresh
      <3> QED
        BY <3>1, <3>2, <3>3, <3>4, OrderlyKept
    <2>4. rpc'[o] = "UpdateSubscriptions" => SelectiveOf(o)'
      BY <1>1, <1>2, BoundsAssumption DEF Own, SelectiveOf, TypeOK, LifeOf, Fresh, Alive, Mutex
    <2>5. rpc'[o] = "ParamInfoRequest" => RepeatingOf(o)'
      BY <1>1, <1>2, BoundsAssumption DEF Own, RepeatingOf, TypeOK, LifeOf, Fresh, Driving, Alive, Mutex
    <2> QED
      BY <2>1, <2>2, <2>3, <2>4, <2>5 DEF Own
  <1>5. Mutex'
    BY <1>1, ObjectsFinite DEF Mutex, TypeOK
  <1>6. Held(o)' => Held(o)
    BY <1>1 DEF Held, Taking, WasOffered, Own, Driving, LifeOf, Alive, TypeOK
  <1>7. /\ serverDown \/ (Waiting(o) => Waiting(o)')
        /\ Taking(o)' => Taking(o)
        /\ status'[o] = "unborn" <=> status[o] = "unborn"
        /\ events = "returned" => ~Alive(o)'
        /\ rpc'[o] = rpc[o]
        /\ UNCHANGED <<serverDown, cqDown, events>>
    BY <1>1 DEF Waiting, Taking, Own, Driving, LifeOf, Alive, TypeOK, IInv, Ending, Registry
  <1>8. Refined
    <2>1. Phase(o)' = Phase(o)
      BY <1>1 DEF Phase, WasOffered, Own, Driving, LifeOf, Fresh, Alive, TypeOK, RepeatingOf, Mutex
    <2> QED
      BY <1>3, <2>1, SamePhases
  <1> QED
    BY <1>2, <1>3, <1>4, <1>5, <1>6, <1>7, <1>8, OneObject

\* proceed(false) by hand finds that the client has gone,
LEMMA HandJudgesStep ==
    ASSUME IInv, NEW o \in Objects, rpc[o] = "Connect", HandJudges(o)
    PROVE  IInv' /\ Refined
  <1> USE DEF HandJudges, otherVars, connectVars, serverVars, objVars
  <1>1. TypeOK /\ Mutex /\ Own(o)
    BY OwnParts DEF IInv
  <1>2. TypeOK'
    BY <1>1, BoundsAssumption DEF TypeOK
  <1>3. \A p \in Objects \ {o} : SameFor(p)
    BY <1>1 DEF TypeOK, SameFor
  <1>4. Own(o)'
    <2>1. Driving(o)'
      BY <1>1, <1>2, BoundsAssumption DEF Own, Driving, Alive, TypeOK, LifeOf
    <2>2. LifeOf(o)'
      BY <1>1, <1>2, BoundsAssumption DEF Own, Driving, LifeOf, Fresh, Alive, TypeOK, RepeatingOf, Mutex
    <2>3. rpc'[o] \notin {"ParamInfoRequest", "UpdateSubscriptions"} => OrderlyOf(o)'
      <3> SUFFICES ASSUME rpc[o] \notin {"ParamInfoRequest", "UpdateSubscriptions"}
                   PROVE  OrderlyOf(o)'
        BY <1>1 DEF TypeOK
      <3>1. OrderlyOf(o)
        BY <1>1 DEF Own
      <3>2. /\ rpc'[o] = rpc[o] /\ sent'[o] = sent[o] /\ parts'[o] = parts[o]
            /\ current'[o] = current[o]
        BY <1>1 DEF TypeOK
      <3>3. status'[o] = "kWrite" => /\ Len(sent[o]) = current[o] - 1
                                     /\ rpc[o] # "Connect" => current[o] <= parts[o]
        BY <1>1, <3>1 DEF TypeOK, OrderlyOf, Own, LifeOf, Fresh
      <3>4. status'[o] = "kPostWrite" \/ reply'[o] = "OK" => Len(sent[o]) = parts[o]
        BY <1>1, <3>1 DEF TypeOK, OrderlyOf, Own, LifeOf, Fresh
      <3> QED
        BY <3>1, <3>2, <3>3, <3>4, OrderlyKept
    <2>4. rpc'[o] = "UpdateSubscriptions" => SelectiveOf(o)'
      BY <1>1, <1>2, BoundsAssumption DEF Own, SelectiveOf, TypeOK, LifeOf, Fresh, Alive, Mutex
    <2>5. rpc'[o] = "ParamInfoRequest" => RepeatingOf(o)'
      BY <1>1, <1>2, BoundsAssumption DEF Own, RepeatingOf, TypeOK, LifeOf, Fresh, Driving, Alive, Mutex
    <2> QED
      BY <2>1, <2>2, <2>3, <2>4, <2>5 DEF Own
  <1>5. Mutex'
    BY <1>1, ObjectsFinite DEF Mutex, TypeOK
  <1>6. Held(o)' => Held(o)
    BY <1>1 DEF Held, Taking, WasOffered, Own, Driving, LifeOf, Alive, TypeOK
  <1>7. /\ serverDown \/ (Waiting(o) => Waiting(o)')
        /\ Taking(o)' => Taking(o)
        /\ status'[o] = "unborn" <=> status[o] = "unborn"
        /\ events = "returned" => ~Alive(o)'
        /\ rpc'[o] = rpc[o]
        /\ UNCHANGED <<serverDown, cqDown, events>>
    BY <1>1 DEF Waiting, Taking, Own, Driving, LifeOf, Alive, TypeOK, IInv, Ending, Registry
  <1>8. Refined
    <2>1. Phase(o)' = Phase(o)
      BY <1>1 DEF Phase, WasOffered, Own, Driving, LifeOf, Fresh, Alive, TypeOK, RepeatingOf, Mutex
    <2> QED
      BY <1>3, <2>1, SamePhases
  <1> QED
    BY <1>2, <1>3, <1>4, <1>5, <1>6, <1>7, <1>8, OneObject

\* proceed(false) begins.
LEMMA CancelledStep ==
    ASSUME IInv, NEW o \in Objects, ProceedCancelled(o)
    PROVE  IInv' /\ Refined
  <1> USE DEF ProceedCancelled, SetAndNotify, otherVars, connectVars, serverVars, objVars
  <1>1. TypeOK /\ Mutex /\ Own(o)
    BY OwnParts DEF IInv
  <1>2. TypeOK'
    BY <1>1, BoundsAssumption DEF TypeOK
  <1>3. \A p \in Objects \ {o} : SameFor(p)
    BY <1>1 DEF TypeOK, SameFor
  <1>4. Own(o)'
    <2>1. Driving(o)'
      BY <1>1, <1>2, BoundsAssumption DEF Own, Driving, Alive, TypeOK, LifeOf
    <2>2. LifeOf(o)'
      BY <1>1, <1>2, BoundsAssumption DEF Own, Driving, LifeOf, Fresh, Alive, TypeOK, RepeatingOf, Mutex
    <2>3. rpc'[o] \notin {"ParamInfoRequest", "UpdateSubscriptions"} => OrderlyOf(o)'
      <3> SUFFICES ASSUME rpc[o] \notin {"ParamInfoRequest", "UpdateSubscriptions"}
                   PROVE  OrderlyOf(o)'
        BY <1>1 DEF TypeOK
      <3>1. OrderlyOf(o)
        BY <1>1 DEF Own
      <3>2. /\ rpc'[o] = rpc[o] /\ sent'[o] = sent[o] /\ parts'[o] = parts[o]
            /\ current'[o] = current[o]
        BY <1>1 DEF TypeOK
      <3>3. status'[o] = "kWrite" => /\ Len(sent[o]) = current[o] - 1
                                     /\ rpc[o] # "Connect" => current[o] <= parts[o]
        BY <1>1, <3>1 DEF TypeOK, OrderlyOf, Own, LifeOf, Fresh
      <3>4. status'[o] = "kPostWrite" \/ reply'[o] = "OK" => Len(sent[o]) = parts[o]
        BY <1>1, <3>1 DEF TypeOK, OrderlyOf, Own, LifeOf, Fresh
      <3> QED
        BY <3>1, <3>2, <3>3, <3>4, OrderlyKept
    <2>4. rpc'[o] = "UpdateSubscriptions" => SelectiveOf(o)'
      BY <1>1, <1>2, BoundsAssumption DEF Own, SelectiveOf, TypeOK, LifeOf, Fresh, Alive, Mutex
    <2>5. rpc'[o] = "ParamInfoRequest" => RepeatingOf(o)'
      BY <1>1, <1>2, BoundsAssumption DEF Own, RepeatingOf, TypeOK, LifeOf, Fresh, Driving, Alive, Mutex
    <2> QED
      BY <2>1, <2>2, <2>3, <2>4, <2>5 DEF Own
  <1>5. Mutex'
    BY <1>1, ObjectsFinite DEF Mutex, TypeOK
  <1>6. Held(o)' => Held(o)
    BY <1>1 DEF Held, Taking, WasOffered, Own, Driving, LifeOf, Alive, TypeOK
  <1>7. /\ serverDown \/ (Waiting(o) => Waiting(o)')
        /\ Taking(o)' => Taking(o)
        /\ status'[o] = "unborn" <=> status[o] = "unborn"
        /\ events = "returned" => ~Alive(o)'
        /\ rpc'[o] = rpc[o]
        /\ UNCHANGED <<serverDown, cqDown, events>>
    BY <1>1 DEF Waiting, Taking, Own, Driving, LifeOf, Alive, TypeOK, IInv, Ending, Registry
  <1>8. Refined
    <2>1. Phase(o)' = Phase(o)
      BY <1>1 DEF Phase, WasOffered, Own, Driving, LifeOf, Fresh, Alive, TypeOK, RepeatingOf, Mutex
    <2> QED
      BY <1>3, <2>1, SamePhases
  <1> QED
    BY <1>2, <1>3, <1>4, <1>5, <1>6, <1>7, <1>8, OneObject

\* An object is destroyed.
LEMMA DeregisterStep ==
    ASSUME IInv, NEW o \in Objects, Deregister(o)
    PROVE  IInv' /\ Refined
  <1> USE DEF Deregister, Destroy, otherVars, connectVars, serverVars, objVars
  <1>1. TypeOK /\ Mutex /\ Own(o)
    BY OwnParts DEF IInv
  <1>2. TypeOK'
    BY <1>1, BoundsAssumption DEF TypeOK
  <1>3. \A p \in Objects \ {o} : SameFor(p)
    BY <1>1 DEF TypeOK, SameFor
  <1>4. Own(o)'
    <2>1. Driving(o)'
      BY <1>1, <1>2, BoundsAssumption DEF Own, Driving, Alive, TypeOK, LifeOf
    <2>2. LifeOf(o)'
      BY <1>1, <1>2, BoundsAssumption DEF Own, Driving, LifeOf, Fresh, Alive, TypeOK, RepeatingOf, Mutex
    <2>3. rpc'[o] \notin {"ParamInfoRequest", "UpdateSubscriptions"} => OrderlyOf(o)'
      BY <1>1, <1>2, BoundsAssumption DEF Own, OrderlyOf, TypeOK, LifeOf, Fresh, Alive, Mutex
    <2>4. rpc'[o] = "UpdateSubscriptions" => SelectiveOf(o)'
      BY <1>1, <1>2, BoundsAssumption DEF Own, SelectiveOf, TypeOK, LifeOf, Fresh, Alive, Mutex
    <2>5. rpc'[o] = "ParamInfoRequest" => RepeatingOf(o)'
      BY <1>1, <1>2, BoundsAssumption DEF Own, RepeatingOf, TypeOK, LifeOf, Fresh, Driving, Alive, Mutex
    <2> QED
      BY <2>1, <2>2, <2>3, <2>4, <2>5 DEF Own
  <1>5. Mutex'
    BY <1>1, ObjectsFinite DEF Mutex, TypeOK
  <1>6. Held(o)' => Held(o)
    BY <1>1 DEF Held, Taking, WasOffered, Own, Driving, LifeOf, Alive, TypeOK
  <1>7. /\ serverDown \/ (Waiting(o) => Waiting(o)')
        /\ Taking(o)' => Taking(o)
        /\ status'[o] = "unborn" <=> status[o] = "unborn"
        /\ events = "returned" => ~Alive(o)'
        /\ rpc'[o] = rpc[o]
        /\ UNCHANGED <<serverDown, cqDown, events>>
    BY <1>1 DEF Waiting, Taking, Own, Driving, LifeOf, Alive, TypeOK, IInv, Ending, Registry
  <1>8. Refined
    <2>1. Phase(o)' = "gone"
      <3>1. status'[o] = "gone"
        BY <1>1 DEF TypeOK
      <3> QED
        BY <3>1 DEF Phase, Alive
    <2>2. Phases' = [Phases EXCEPT ![o] = Phase(o)'] /\ Phases[o] = Phase(o) /\ DOMAIN Phases = Objects
      BY <1>3, PhasesMove
    <2>3. \/ Phase(o) = "answered"
          \/ o \in cancelled /\ Phase(o) = "open"
          \/ serverDown /\ Phase(o) = "offered"
      BY <1>1 DEF Phase, WasOffered, Own, LifeOf, Alive, TypeOK
    <2> QED
      BY <2>1, <2>2, <2>3 DEF Refined, Abstract!Next, Abstract!End, Abstract!Move
  <1> QED
    BY <1>2, <1>3, <1>4, <1>5, <1>6, <1>7, <1>8, OneObject

\* and destroys the object.
LEMMA HandDestroysStep ==
    ASSUME IInv, NEW o \in Objects, HandDestroys(o)
    PROVE  IInv' /\ Refined
  <1> USE DEF HandDestroys, Destroy, otherVars, connectVars, serverVars, objVars
  <1>1. TypeOK /\ Mutex /\ Own(o)
    BY OwnParts DEF IInv
  <1>2. TypeOK'
    <2>1. dangling' \in BOOLEAN
      BY <1>1, Zenon DEF TypeOK
    <2> QED
      BY <1>1, <2>1, BoundsAssumption DEF TypeOK
  <1>3. \A p \in Objects \ {o} : SameFor(p)
    BY <1>1 DEF TypeOK, SameFor
  <1>4. Own(o)'
    <2>1. Driving(o)'
      BY <1>1, <1>2, BoundsAssumption DEF Own, Driving, Alive, TypeOK, LifeOf
    <2>2. LifeOf(o)'
      BY <1>1, <1>2, BoundsAssumption DEF Own, Driving, LifeOf, Fresh, Alive, TypeOK, RepeatingOf, Mutex
    <2>3. rpc'[o] \notin {"ParamInfoRequest", "UpdateSubscriptions"} => OrderlyOf(o)'
      BY <1>1, <1>2, BoundsAssumption DEF Own, OrderlyOf, TypeOK, LifeOf, Fresh, Alive, Mutex
    <2>4. rpc'[o] = "UpdateSubscriptions" => SelectiveOf(o)'
      BY <1>1, <1>2, BoundsAssumption DEF Own, SelectiveOf, TypeOK, LifeOf, Fresh, Alive, Mutex
    <2>5. rpc'[o] = "ParamInfoRequest" => RepeatingOf(o)'
      BY <1>1, <1>2, BoundsAssumption DEF Own, RepeatingOf, TypeOK, LifeOf, Fresh, Driving, Alive, Mutex
    <2> QED
      BY <2>1, <2>2, <2>3, <2>4, <2>5 DEF Own
  <1>5. Mutex'
    BY <1>1, ObjectsFinite DEF Mutex, TypeOK
  <1>6. Held(o)' => Held(o)
    BY <1>1 DEF Held, Taking, WasOffered, Own, Driving, LifeOf, Alive, TypeOK
  <1>7. /\ serverDown \/ (Waiting(o) => Waiting(o)')
        /\ Taking(o)' => Taking(o)
        /\ status'[o] = "unborn" <=> status[o] = "unborn"
        /\ events = "returned" => ~Alive(o)'
        /\ rpc'[o] = rpc[o]
        /\ UNCHANGED <<serverDown, cqDown, events>>
    BY <1>1 DEF Waiting, Taking, Own, Driving, LifeOf, Alive, TypeOK, IInv, Ending, Registry
  <1>8. Refined
    <2>1. Phase(o)' = "gone"
      <3>1. status'[o] = "gone"
        BY <1>1 DEF TypeOK
      <3> QED
        BY <3>1 DEF Phase, Alive
    <2>2. Phases' = [Phases EXCEPT ![o] = Phase(o)'] /\ Phases[o] = Phase(o) /\ DOMAIN Phases = Objects
      BY <1>3, PhasesMove
    <2>3. \/ Phase(o) = "answered"
          \/ o \in cancelled /\ Phase(o) = "open"
          \/ serverDown /\ Phase(o) = "offered"
      BY <1>1 DEF Phase, WasOffered, Own, Driving, LifeOf, Alive, TypeOK
    <2> QED
      BY <2>1, <2>2, <2>3 DEF Refined, Abstract!Next, Abstract!End, Abstract!Move
  <1> QED
    BY <1>2, <1>3, <1>4, <1>5, <1>6, <1>7, <1>8, OneObject

\* An operation completes.
LEMMA CompletesStep ==
    ASSUME IInv, NEW o \in Objects, OperationCompletes(o)
    PROVE  IInv' /\ Refined
  <1> USE DEF OperationCompletes, GotEvent, otherVars, connectVars, serverVars, objVars
  <1>1. TypeOK /\ Mutex /\ Own(o)
    BY OwnParts DEF IInv
  <1>2. TypeOK'
    <2>1. dangling' \in BOOLEAN
      BY <1>1, Zenon DEF TypeOK
    <2> QED
      BY <1>1, <2>1, BoundsAssumption DEF TypeOK
  <1>3. \A p \in Objects \ {o} : SameFor(p)
    BY <1>1 DEF TypeOK, SameFor
  <1>4. Own(o)'
    <2>1. Driving(o)'
      <3>1. op'[o] = "none" /\ status'[o] = status[o] /\ hand'[o] = hand[o] /\ cancelled' = cancelled
            /\ rpc'[o] = rpc[o] /\ (Alive(o) => at'[o] # "idle") /\ (~Alive(o) => at'[o] = "idle")
        BY <1>1 DEF TypeOK
      <3> QED
        BY <1>1, <3>1 DEF Own, Driving, Alive
    <2>2. LifeOf(o)'
      BY <1>1, <1>2, BoundsAssumption DEF Own, Driving, LifeOf, Fresh, Alive, TypeOK, RepeatingOf, Mutex
    <2>3. rpc'[o] \notin {"ParamInfoRequest", "UpdateSubscriptions"} => OrderlyOf(o)'
      BY <1>1, <1>2, BoundsAssumption DEF Own, OrderlyOf, TypeOK, LifeOf, Fresh, Alive, Mutex
    <2>4. rpc'[o] = "UpdateSubscriptions" => SelectiveOf(o)'
      BY <1>1, <1>2, BoundsAssumption DEF Own, SelectiveOf, TypeOK, LifeOf, Fresh, Alive, Mutex
    <2>5. rpc'[o] = "ParamInfoRequest" => RepeatingOf(o)'
      BY <1>1, <1>2, BoundsAssumption DEF Own, RepeatingOf, TypeOK, LifeOf, Fresh, Driving, Alive, Mutex
    <2> QED
      BY <2>1, <2>2, <2>3, <2>4, <2>5 DEF Own
  <1>5. Mutex'
    BY <1>1, ObjectsFinite DEF Mutex, TypeOK
  <1>6. Held(o)' => Held(o)
    <2>1. CASE op[o] = "request"
      BY <1>1, <2>1 DEF Held, WasOffered, Own, LifeOf, Fresh, Alive, TypeOK
    <2>2. CASE op[o] \in {"write", "finish"}
      BY <1>1, <2>2 DEF Held, Taking, WasOffered, Own, Driving, LifeOf, Fresh, Alive, TypeOK
    <2> QED
      BY <2>1, <2>2
  <1>7. /\ serverDown \/ (Waiting(o) => Waiting(o)')
        /\ Taking(o)' => Taking(o)
        /\ status'[o] = "unborn" <=> status[o] = "unborn"
        /\ events = "returned" => ~Alive(o)'
        /\ rpc'[o] = rpc[o]
        /\ UNCHANGED <<serverDown, cqDown, events>>
    BY <1>1 DEF Waiting, Taking, Own, Driving, LifeOf, Alive, TypeOK, IInv, Ending, Registry, Fresh
  <1>8. Refined
    <2>1. Phase(o)' = Phase(o)
      BY <1>1 DEF Phase, WasOffered, Own, Driving, LifeOf, Fresh, Alive, TypeOK, RepeatingOf, Mutex
    <2> QED
      BY <1>3, <2>1, SamePhases
  <1> QED
    BY <1>2, <1>3, <1>4, <1>5, <1>6, <1>7, <1>8, OneObject

\* A client goes away.
LEMMA GoesAwayStep ==
    ASSUME IInv, NEW o \in Objects, ClientGoesAway(o)
    PROVE  IInv' /\ Refined
  <1> USE DEF ClientGoesAway, Accepted, otherVars, connectVars, serverVars, objVars
  <1>1. TypeOK /\ Mutex /\ Own(o)
    BY OwnParts DEF IInv
  <1>2. TypeOK'
    BY <1>1, BoundsAssumption DEF TypeOK
  <1>3. \A p \in Objects \ {o} : SameFor(p)
    BY <1>1 DEF TypeOK, SameFor
  <1>4. Own(o)'
    <2>1. Driving(o)'
      BY <1>1, <1>2, BoundsAssumption DEF Own, Driving, Alive, TypeOK, LifeOf
    <2>2. LifeOf(o)'
      BY <1>1, <1>2, BoundsAssumption DEF Own, Driving, LifeOf, Fresh, Alive, TypeOK, RepeatingOf, Mutex
    <2>3. rpc'[o] \notin {"ParamInfoRequest", "UpdateSubscriptions"} => OrderlyOf(o)'
      BY <1>1, <1>2, BoundsAssumption DEF Own, OrderlyOf, TypeOK, LifeOf, Fresh, Alive, Mutex
    <2>4. rpc'[o] = "UpdateSubscriptions" => SelectiveOf(o)'
      BY <1>1, <1>2, BoundsAssumption DEF Own, SelectiveOf, TypeOK, LifeOf, Fresh, Alive, Mutex
    <2>5. rpc'[o] = "ParamInfoRequest" => RepeatingOf(o)'
      BY <1>1, <1>2, BoundsAssumption DEF Own, RepeatingOf, TypeOK, LifeOf, Fresh, Driving, Alive, Mutex
    <2> QED
      BY <2>1, <2>2, <2>3, <2>4, <2>5 DEF Own
  <1>5. Mutex'
    BY <1>1, ObjectsFinite DEF Mutex, TypeOK
  <1>6. Held(o)' => Held(o)
    BY <1>1 DEF Held, Taking, WasOffered, Own, Driving, LifeOf, Alive, TypeOK
  <1>7. /\ serverDown \/ (Waiting(o) => Waiting(o)')
        /\ Taking(o)' => Taking(o)
        /\ status'[o] = "unborn" <=> status[o] = "unborn"
        /\ events = "returned" => ~Alive(o)'
        /\ rpc'[o] = rpc[o]
        /\ UNCHANGED <<serverDown, cqDown, events>>
    BY <1>1 DEF Waiting, Taking, Own, Driving, LifeOf, Alive, TypeOK, IInv, Ending, Registry
  <1>8. Refined
    <2>1. Phase(o) \in {"open", "answered"} /\ Phase(o)' = Phase(o)
      BY <1>1 DEF Phase, WasOffered, Own, Driving, LifeOf, Fresh, Alive, TypeOK
    <2>2. Phases' = [Phases EXCEPT ![o] = Phase(o)'] /\ Phases[o] = Phase(o) /\ DOMAIN Phases = Objects
      BY <1>3, PhasesMove
    <2>3. Phases' = Phases
      BY <2>1, <2>2 DEF Phases
    <2> QED
      BY <2>1, <2>2, <2>3 DEF Refined, Abstract!Next, Abstract!Abandon
  <1> QED
    BY <1>2, <1>3, <1>4, <1>5, <1>6, <1>7, <1>8, OneObject

-----------------------------------------------------------------------------
(* The steps that concern more than one object, or none *)

\* Invariant under a step that leaves the objects alone.
LEMMA QuietStep ==
    ASSUME IInv, UNCHANGED <<objVars, trailing, deviceMutex, cancelled, hand>>,
           stopped \subseteq stopped',
           TypeOK', Ending', serverDown => serverDown'
    PROVE  IInv'
  <1> USE DEF objVars
  <1>1. \A p \in Objects : Own(p)'
    <2> SUFFICES ASSUME NEW p \in Objects PROVE Own(p)'
      OBVIOUS
    <2>1. Own(p) /\ SameFor(p)
      BY OwnParts DEF IInv, SameFor
    <2> QED
      BY <2>1, OwnKept
  <1>2. (DrivenByOne /\ Life /\ Orderly /\ Selective /\ Repeating)'
    BY <1>1 DEF DrivenByOne, Driving, Life, Orderly, Selective, Repeating, Own
  <1>3. Mutex' /\ OfferUnique'
    BY DEF IInv, Mutex, OfferUnique, Held, Taking, WasOffered, Alive
  <1>4. OfferExists'
    BY DEF IInv, OfferExists, Waiting
  <1>5. Room'
    BY RoomKept DEF IInv, Takers, Taking, Unborn
  <1> QED
    BY <1>2, <1>3, <1>4, <1>5 DEF IInv

\* An open Connect call is signalled.
LEMMA SignalledStep ==
    ASSUME IInv, NEW o \in Objects, ConnectSignalled(o)
    PROVE  IInv' /\ Refined
  <1> USE DEF ConnectSignalled, SetAndNotify, objVars, connectVars, serverVars
  <1>1. TypeOK'
    BY DEF IInv, TypeOK
  <1>2. Ending' /\ (serverDown => serverDown') /\ stopped \subseteq stopped'
    BY DEF IInv, Ending, Registry, Alive, TypeOK
  <1>3. Refined
    <2>1. Phases' = Phases
      BY DEF Phases, Phase, WasOffered, Alive
    <2> QED
      BY <2>1 DEF Refined, Abstract!vars
  <1> QED
    BY <1>1, <1>2, <1>3, QuietStep

\* The service shuts down and returns; threads leave; gRPC aborts the process.
LEMMA ServiceStep ==
    ASSUME IInv, ServerShutdown \/ CqShutdown \/ GotShutdown \/ ProcessEventsReturns
    PROVE  IInv' /\ Refined
  <1> USE DEF ServerShutdown, CqShutdown, GotShutdown, ProcessEventsReturns, objVars, connectVars
  <1>1. UNCHANGED <<objVars, trailing, leaving, deviceMutex, cancelled, connectVars, dangling>>
    OBVIOUS
  <1>2. TypeOK'
    BY <1>1 DEF IInv, TypeOK
  <1>3. Ending' /\ (serverDown => serverDown')
    BY <1>1 DEF IInv, Ending, Registry, Alive, TypeOK
  <1>4. Phases' = Phases /\ DOMAIN Phases = Objects
    BY <1>1 DEF Phases, Phase, WasOffered, Alive
  <1>5. rpc' = rpc /\ sent' = sent /\ cancelled' = cancelled
    BY <1>1
  <1>6. ASSUME ServerShutdown PROVE Refined
    <2>1. serverDown' = TRUE /\ (events' = "returned") = (events = "returned")
      BY <1>6
    <2> QED
      BY <1>4, <1>5, <2>1 DEF Refined, Abstract!Next, Abstract!Close
  <1>7. ASSUME CqShutdown \/ GotShutdown PROVE Refined
    <2>1. serverDown' = serverDown /\ (events' = "returned") = (events = "returned")
      BY <1>7
    <2> QED
      BY <1>4, <1>5, <2>1 DEF Refined, Abstract!vars
  <1>8. ASSUME ProcessEventsReturns PROVE Refined
    <2>1. serverDown' = serverDown /\ serverDown /\ (events' = "returned") = TRUE
      BY <1>8 DEF IInv, Ending
    <2>2. \A o \in Objects : ~Alive(o)
      BY <1>8 DEF Registry
    <2>3. \A o \in Objects : Phases[o] \in {"unborn", "gone"}
      BY <2>2 DEF Phases, Phase, Alive
    <2> QED
      BY <1>4, <1>5, <2>1, <2>3 DEF Refined, Abstract!Next, Abstract!Return
  <1> QED
    BY <1>1, <1>2, <1>3, <1>6, <1>7, <1>8, QuietStep

\* A thread leaves deregisterItem.
LEMMA LeaveStep ==
    ASSUME IInv, NEW o \in Objects, Leave(o)
    PROVE  IInv' /\ Refined
  <1> USE DEF Leave, objVars, connectVars, serverVars
  <1>1. TypeOK'
    BY DEF IInv, TypeOK
  <1>2. Ending' /\ (serverDown => serverDown')
    BY DEF IInv, Ending, Registry, Alive, TypeOK
  <1>3. Refined
    <2>1. Phases' = Phases
      BY DEF Phases, Phase, WasOffered, Alive
    <2> QED
      BY <2>1 DEF Refined, Abstract!vars
  <1> QED
    BY <1>1, <1>2, <1>3, QuietStep

\* The second Finish of a call.
LEMMA FinishTwiceStep ==
    ASSUME IInv, NEW o \in Objects, FinishTwice(o), Alive(o)
    PROVE  IInv' /\ Refined
  <1> USE DEF FinishTwice, objVars, connectVars, serverVars
  <1>1. TypeOK'
    BY DEF IInv, TypeOK
  <1>2. Ending' /\ (serverDown => serverDown')
    BY DEF IInv, Ending, TypeOK
  <1>3. events # "returned"
    BY DEF IInv, Ending, Registry
  <1>4. Refined
    <2>1. Phases' = Phases
      BY DEF Phases, Phase, WasOffered, Alive
    <2>2. (events' = "returned") = (events = "returned")
      BY <1>3
    <2> QED
      BY <2>1, <2>2 DEF Refined, Abstract!vars
  <1> QED
    BY <1>1, <1>2, <1>4, QuietStep

\* A client is accepted: the guard on the number of calls leaves an object for
\* the next one.
LEMMA ClientCallsStep ==
    ASSUME IInv, NEW o \in Objects, ClientCalls(o)
    PROVE  IInv' /\ Refined
  <1> USE DEF ClientCalls, GotEvent, connectVars, serverVars
  <1>1. TypeOK /\ Mutex /\ Own(o)
    BY OwnParts DEF IInv
  <1>2. TypeOK' /\ Mutex'
    BY <1>1 DEF TypeOK, Mutex
  <1>3. \A p \in Objects \ {o} : SameFor(p)
    BY <1>1 DEF TypeOK, SameFor
  <1>4. status[o] = "kProcess" /\ at[o] = "idle" /\ Alive(o) /\ Fresh(o) /\ o \notin cancelled
    BY <1>1 DEF Own, Driving, LifeOf, Alive
  <1>5. Own(o)'
    <2>1. Driving(o)' /\ LifeOf(o)'
      BY <1>1, <1>4 DEF Own, Driving, LifeOf, Fresh, Alive, TypeOK
    <2>2. rpc'[o] \notin {"ParamInfoRequest", "UpdateSubscriptions"} => OrderlyOf(o)'
      BY <1>1, <1>4 DEF Own, OrderlyOf, TypeOK
    <2>3. rpc'[o] = "UpdateSubscriptions" => SelectiveOf(o)'
      BY <1>1, <1>4 DEF Own, SelectiveOf, TypeOK
    <2>4. rpc'[o] = "ParamInfoRequest" => RepeatingOf(o)'
      BY <1>1, <1>4 DEF Own, RepeatingOf, TypeOK, Alive
    <2> QED
      BY <2>1, <2>2, <2>3, <2>4 DEF Own
  <1>6. Held(o) /\ Waiting(o)'
    BY <1>1, <1>4 DEF Held, WasOffered, Waiting, Fresh, TypeOK
  <1>7. Room'
    <2>1. Cardinality(Unborn) > Cardinality(Takers)
      BY DEF Takers, Taking
    <2>2. Takers' \subseteq Takers \cup {o}
      BY <1>3 DEF Takers, Taking, SameFor
    <2>3. IsFiniteSet(Takers) /\ IsFiniteSet(Unborn) /\ Unborn' = Unborn
      BY ObjectsFinite, FS_Subset DEF Takers, Unborn
    <2>4. IsFiniteSet(Takers \cup {o}) /\ Cardinality(Takers \cup {o}) <= Cardinality(Takers) + 1
      <3>1. /\ IsFiniteSet(Takers \cup {o}) /\ Cardinality(Takers) \in Nat
            /\ Cardinality(Takers \cup {o}) = IF o \in Takers THEN Cardinality(Takers)
                                                              ELSE Cardinality(Takers) + 1
        BY <2>3, FS_AddElement, FS_CardinalityType
      <3> QED
        BY <3>1
    <2>5. IsFiniteSet(Takers') /\ Cardinality(Takers') <= Cardinality(Takers \cup {o})
      BY <2>2, <2>4, FS_Subset
    <2>6. /\ Cardinality(Takers) \in Nat /\ Cardinality(Takers') \in Nat
          /\ Cardinality(Takers \cup {o}) \in Nat /\ Cardinality(Unborn) \in Nat
      BY <2>3, <2>4, <2>5, FS_CardinalityType
    <2> QED
      BY <2>1, <2>3, <2>4, <2>5, <2>6 DEF Room
  <1>8. /\ rpc'[o] = rpc[o] /\ (status'[o] = "unborn" <=> status[o] = "unborn")
        /\ events = "returned" => ~Alive(o)'
        /\ UNCHANGED <<serverDown, cqDown, events>>
    BY DEF Alive
  <1>9. Refined
    <2>1. Phase(o) = "offered" /\ Phase(o)' = "open"
      BY <1>1, <1>4 DEF Phase, WasOffered, Fresh, Alive, TypeOK
    <2>2. Phases' = [Phases EXCEPT ![o] = Phase(o)'] /\ Phases[o] = Phase(o) /\ DOMAIN Phases = Objects
      BY <1>3, PhasesMove
    <2> QED
      BY <2>1, <2>2 DEF Refined, Abstract!Next, Abstract!Accept, Abstract!Move
  <1> QED
    BY <1>2, <1>3, <1>5, <1>6, <1>7, <1>8, <1>9, OneObject

\* The next object of the class takes the place of the one that has a client.
LEMMA OfferStep ==
    ASSUME IInv, NEW o \in Objects, NEW from \in {"switch", "offer"}, Offer(o, from)
    PROVE  IInv' /\ Refined
  <1>1. TypeOK /\ Mutex /\ Own(o) /\ Room
    BY OwnParts DEF IInv
  <1>2. Taking(o) /\ IsFiniteSet(Takers) /\ IsFiniteSet(Unborn) /\ o \in Takers
    BY ObjectsFinite, FS_Subset DEF Takers, Unborn, Offer, Taking
  <1>3. Unborn # {}
    <2>1. Cardinality(Takers) \in Nat /\ Cardinality(Unborn) \in Nat
      BY <1>2, FS_CardinalityType
    <2>2. Cardinality(Takers) # 0
      BY <1>2, FS_EmptySet
    <2>3. Cardinality(Unborn) # 0
      BY <1>1, <2>1, <2>2 DEF Room
    <2> QED
      BY <1>2, <2>3, FS_EmptySet
  <1>4. PICK n \in Unborn :
        /\ rpc' = [rpc EXCEPT ![n] = rpc[o]] /\ op' = [op EXCEPT ![n] = "request"]
        /\ status' = [status EXCEPT ![n] = "kProcess"] /\ at' = [at EXCEPT ![o] = "process"]
        /\ UNCHANGED <<parts, current, sent, reply, trailing, leaving, deviceMutex>>
        /\ UNCHANGED <<cancelled, listening, stopped, hasUpdate, missed, hand, serverDown, cqDown, events, dangling>>
    BY <1>3 DEF Offer, Construct, otherVars, connectVars, serverVars
  <1>5. n \in Objects /\ status[n] = "unborn" /\ n # o /\ Own(n)
    BY <1>2, OwnParts DEF Unborn, Taking, IInv
  <1>6. TypeOK' /\ Mutex'
    <2>1. TypeOK'
      BY <1>1, <1>4, <1>5 DEF TypeOK
    <2>2. rpc[n] # "ParamInfoRequest"
      BY <1>5 DEF Own, LifeOf
    <2> QED
      BY <1>1, <1>4, <1>5, <2>1, <2>2 DEF TypeOK, Mutex
  <1>7. \A p \in Objects : Own(p)'
    <2>1. ASSUME NEW p \in Objects \ {o, n} PROVE Own(p)'
      <3>1. Own(p) /\ SameFor(p)
        BY <1>1, <1>4, <1>5, OwnParts DEF IInv, SameFor, TypeOK
      <3> QED
        BY <1>4, <3>1, OwnKept
    <2>2. Own(o)'
      <3>1. status[o] = "kProcess" /\ at[o] = from /\ op[o] = "none" /\ Fresh(o)
        BY <1>1 DEF Own, Driving, LifeOf, Offer, TypeOK, Alive
      <3>2. Driving(o)' /\ LifeOf(o)'
        BY <1>1, <1>4, <1>5, <3>1 DEF Own, Driving, LifeOf, Fresh, Alive, TypeOK
      <3>3. rpc'[o] \notin {"ParamInfoRequest", "UpdateSubscriptions"} => OrderlyOf(o)'
        BY <1>1, <1>4, <1>5, <3>1 DEF Own, OrderlyOf, TypeOK
      <3>4. rpc'[o] = "UpdateSubscriptions" => SelectiveOf(o)'
        BY <1>1, <1>4, <1>5, <3>1 DEF Own, SelectiveOf, TypeOK
      <3>5. rpc'[o] = "ParamInfoRequest" => RepeatingOf(o)'
        BY <1>1, <1>4, <1>5, <3>1 DEF Own, RepeatingOf, TypeOK, Alive
      <3> QED
        BY <3>2, <3>3, <3>4, <3>5 DEF Own
    <2>3. Own(n)'
      <3>1. /\ status'[n] = "kProcess" /\ op'[n] = "request" /\ at'[n] = "idle" /\ Fresh(n)'
            /\ rpc'[n] # "none" /\ n \notin cancelled' /\ n \notin trailing' /\ hand'[n] = "none"
        BY <1>1, <1>2, <1>4, <1>5 DEF Own, Driving, LifeOf, Fresh, Alive, TypeOK, Mutex, Taking
      <3>2. Driving(n)' /\ LifeOf(n)'
        BY <3>1 DEF Driving, LifeOf, Fresh, Alive
      <3>3. OrderlyOf(n)' /\ SelectiveOf(n)' /\ RepeatingOf(n)'
        BY <3>1 DEF Fresh, OrderlyOf, SelectiveOf, RepeatingOf, Alive
      <3> QED
        BY <3>2, <3>3 DEF Own
    <2> QED
      BY <2>1, <2>2, <2>3
  <1>8. (DrivenByOne /\ Life /\ Orderly /\ Selective /\ Repeating)'
    BY <1>7 DEF DrivenByOne, Driving, Life, Orderly, Selective, Repeating, Own
  <1>9. OfferUnique'
    <2>1. \A x \in Objects : Held(x)' => x = n \/ (x # o /\ x # n /\ Held(x))
      <3>1. status[o] = "kProcess" /\ op[o] = "none"
        BY <1>1, <1>2 DEF Own, Driving, Taking, Alive, TypeOK
      <3>2. ~Held(o)'
        BY <1>1, <1>4, <1>5, <3>1 DEF Held, Taking, WasOffered, TypeOK
      <3>3. \A x \in Objects \ {o, n} : Held(x)' => Held(x)
        BY <1>1, <1>4, <1>5 DEF Held, Taking, WasOffered, Alive, TypeOK
      <3> QED
        BY <3>2, <3>3
    <2>2. \A x \in Objects : Held(x) /\ rpc[x] = rpc[o] => x = o
      BY <1>2 DEF Held, IInv, OfferUnique
    <2>3. \A x, y \in Objects : Held(x) /\ Held(y) /\ rpc[x] = rpc[y] => x = y
      BY DEF IInv, OfferUnique
    <2>4. rpc'[n] = rpc[o] /\ \A x \in Objects \ {n} : rpc'[x] = rpc[x]
      BY <1>1, <1>4, <1>5 DEF TypeOK
    <2> QED
      BY <1>5, <2>1, <2>2, <2>3, <2>4 DEF OfferUnique
  <1>10. OfferExists'
    <2> SUFFICES ASSUME ~serverDown, NEW q \in Objects, rpc'[q] # "none"
                 PROVE  \E x \in Objects : rpc'[x] = rpc'[q] /\ Waiting(x)'
      BY <1>4 DEF OfferExists
    <2>1. rpc'[n] = rpc[o] /\ Waiting(n)' /\ \A x \in Objects \ {n} : rpc'[x] = rpc[x]
      BY <1>1, <1>4, <1>5 DEF TypeOK, Waiting
    <2>2. CASE rpc'[q] = rpc[o]
      BY <1>5, <2>1, <2>2
    <2>3. CASE rpc'[q] # rpc[o]
      <3>1. q # n /\ rpc'[q] = rpc[q]
        BY <2>1, <2>3
      <3>2. PICK x \in Objects : rpc[x] = rpc[q] /\ Waiting(x)
        BY <3>1 DEF IInv, OfferExists
      <3>3. x # o /\ x # n
        BY <1>5, <2>3, <3>1, <3>2 DEF Waiting
      <3>4. rpc'[x] = rpc[x] /\ Waiting(x)'
        BY <1>1, <1>4, <3>2, <3>3 DEF Waiting, TypeOK
      <3> QED
        BY <3>1, <3>2, <3>4
    <2> QED
      BY <2>2, <2>3
  <1>11. Room'
    <2>1. Takers' = Takers \ {o}
      <3>1. at[n] = "idle" /\ at'[n] = "idle" /\ ~Taking(o)'
        BY <1>1, <1>4, <1>5 DEF Own, Driving, Alive, Taking, TypeOK
      <3>2. \A x \in Objects \ {o, n} : Taking(x)' <=> Taking(x)
        BY <1>1, <1>4, <1>5 DEF Taking, TypeOK
      <3> QED
        BY <1>5, <3>1, <3>2 DEF Takers, Taking
    <2>2. Unborn' = Unborn \ {n} /\ n \in Unborn
      BY <1>1, <1>4, <1>5 DEF Unborn, TypeOK
    <2>3. /\ Cardinality(Takers') = Cardinality(Takers) - 1
          /\ Cardinality(Unborn') = Cardinality(Unborn) - 1
      BY <1>2, <2>1, <2>2, FS_RemoveElement
    <2> QED
      BY <1>1, <1>2, <2>3, FS_CardinalityType DEF Room
  <1>12. Ending'
    BY <1>2, <1>4 DEF IInv, Ending, Registry, Alive, Taking
  <1>13. Refined
    <2>1. status[o] = "kProcess" /\ op[o] = "none" /\ reply[o] = "none" /\ at[o] \in {"switch", "offer"}
      BY <1>1, <1>2 DEF Own, Driving, LifeOf, Fresh, Taking, Alive, TypeOK
    <2>2. Phase(o) = "open" /\ Phase(o)' = "open"
      BY <1>1, <1>4, <1>5, <2>1 DEF Phase, WasOffered, Alive, TypeOK
    <2>3. Phase(n) = "unborn" /\ Phase(n)' = "offered"
      BY <1>1, <1>4, <1>5 DEF Phase, WasOffered, Alive, TypeOK, Own, LifeOf, Fresh
    <2>4. \A p \in Objects \ {n, o} : Phase(p)' = Phase(p)
      BY <1>1, <1>4, <1>5 DEF Phase, WasOffered, Alive, TypeOK
    <2>5. Phases' = [Phases EXCEPT ![n] = "offered"] /\ DOMAIN Phases = Objects
      BY <1>5, <2>2, <2>3, <2>4 DEF Phases
    <2>6. \A p \in Objects : Phases[p] = "offered" => rpc[p] # rpc[o]
      <3> SUFFICES ASSUME NEW p \in Objects, Phase(p) = "offered", rpc[p] = rpc[o] PROVE FALSE
        BY DEF Phases
      <3>1. Held(p) /\ Held(o)
        BY <1>2 DEF Held, Phase, WasOffered, Alive, IInv, TypeOK
      <3>2. p = o
        BY <3>1 DEF IInv, OfferUnique
      <3> QED
        BY <2>2, <3>2
    <2>7. Phases[n] = "unborn" /\ Phases[o] = "open"
      BY <1>5, <2>2, <2>3 DEF Phases
    <2>8. Abstract!Offer(n, rpc[o])
      BY <1>4, <1>5, <2>5, <2>6, <2>7 DEF Abstract!Offer, Abstract!Offered, Abstract!Move
    <2> QED
      BY <1>5, <2>5, <2>8 DEF Refined, Abstract!Next
  <1> QED
    BY <1>6, <1>8, <1>9, <1>10, <1>11, <1>12, <1>13 DEF IInv

-----------------------------------------------------------------------------
(* The controllers *)

\* An error found before the device is asked.
LEMMA RefuseStep ==
    ASSUME IInv, NEW o \in Objects, NEW errors, Refuse(o, errors),
           rpc[o] = "ParamInfoRequest" => "OK" \notin errors
    PROVE  IInv' /\ Refined
  <1>1. reply[o] = "none"
    BY OwnParts DEF IInv, Own, LifeOf, Fresh, Refuse
  <1>2. PICK rc \in errors : FinishWith(o, rc)
    BY DEF Refuse
  <1>3. at[o] = "process"
    BY DEF Refuse
  <1> QED
    BY <1>1, <1>2, <1>3, FinishStep

\* The answer of the device ends the call.
LEMMA AnswerStep ==
    ASSUME IInv, NEW o \in Objects, NEW results, Answer(o, results), rpc[o] # "ParamInfoRequest"
    PROVE  IInv' /\ Refined
  <1>1. reply[o] = "none"
    BY OwnParts DEF IInv, Own, LifeOf, Fresh, Answer
  <1>2. PICK rc \in results : FinishWith(o, rc)
    BY DEF Answer
  <1>3. at[o] = "process"
    BY DEF Answer
  <1> QED
    BY <1>1, <1>2, <1>3, FinishStep

\* The stream has been sent.
LEMMA PostWriteStep ==
    ASSUME IInv, NEW o \in Objects, NEW r, PostWrite(o, r)
    PROVE  IInv' /\ Refined
  BY FinishStep DEF PostWrite, In

\* A call with one response.
LEMMA UnaryStep ==
    ASSUME IInv, NEW o \in Objects, NEW r, NEW errors, NEW results, Unary(o, r, errors, results),
           r # "ParamInfoRequest"
    PROVE  IInv' /\ Refined
  BY OfferStep, RefuseStep, AnswerStep, DeregisterStep DEF Unary

\* A stream ends with an error, or with OK if it passes over what is left.
LEMMA BreakStep ==
    ASSUME IInv, NEW o \in Objects, NEW rc, FinishWith(o, rc), at[o] = "switch", status[o] = "kWrite",
           rpc[o] \notin {"ParamInfoRequest", "Connect"}, rc = "OK" => rpc[o] = "UpdateSubscriptions"
    PROVE  IInv' /\ Refined
  <1>1. reply[o] = "none"
    BY OwnParts DEF IInv, Own, LifeOf
  <1> QED
    BY <1>1, FinishStep

\* Every step of every proceed().
LEMMA ProceedStep ==
    ASSUME IInv, NEW o \in Objects, Proceed(o)
    PROVE  IInv' /\ Refined
  <1> USE DEF SlotErrors, TokenErrors, DeviceErrors
  <1>1. CASE \/ GetValue(o) \/ GetParam(o) \/ SetValue(o) \/ MultiSetValue(o)
             \/ AddLanguage(o) \/ ListLanguages(o) \/ LanguagePackRequest(o)
    BY <1>1, UnaryStep DEF GetValue, GetParam, SetValue, MultiSetValue, AddLanguage,
       ListLanguages, LanguagePackRequest
  <1>2. CASE GetPopulatedSlots(o)
    BY <1>2, OfferStep, RefuseStep, DeregisterStep DEF GetPopulatedSlots
  <1>3. CASE DeviceRequest(o)
    BY <1>3, OfferStep, RefuseStep, BeginStep, SendNextStep, BreakStep, PostWriteStep, DeregisterStep,
       BoundsAssumption DEF DeviceRequest, In
  <1>4. CASE ExecuteCommand(o)
    BY <1>4, OfferStep, RefuseStep, BeginStep, SendNextStep, BreakStep, PostWriteStep, DeregisterStep,
       BoundsAssumption DEF ExecuteCommand, In
  <1>5. CASE ExternalObjectRequest(o)
    BY <1>5, OfferStep, RefuseStep, BeginStep, SendNextStep, PostWriteStep, DeregisterStep,
       BoundsAssumption DEF ExternalObjectRequest, In
  <1>6. CASE UpdateSubscriptions(o)
    BY <1>6, OfferStep, RefuseStep, BeginStep, SelectStep, BreakStep, DeregisterStep
       DEF UpdateSubscriptions, In
  <1>7. CASE ParamInfoRequest(o)
    <2>1. CASE In(o, "ParamInfoRequest", "kPostWrite") /\ FinishTwice(o)
      BY <2>1, FinishTwiceStep DEF In, Alive
    <2> QED
      BY <1>7, <2>1, OfferStep, RefuseStep, BeginStep, EnterWriteStep, StartWriteStep, AfterWriteStep,
         PostWriteStep, DeregisterStep, BoundsAssumption DEF ParamInfoRequest
  <1>8. CASE Connect(o)
    <2>1. CASE ConnectSignal(o) \/ Offer(o, "offer") \/ Deregister(o)
      BY <2>1, ConnectSignalStep, OfferStep, DeregisterStep
    <2>2. CASE Refuse(o, TokenErrors \cup {"RESOURCE_EXHAUSTED"})
      BY <1>8, <2>2, RefuseStep DEF Connect
    <2>3. CASE ConnectFirstWrite(o)
      BY <1>8, <2>3, ConnectFirstWriteStep DEF Connect
    <2>4. CASE \/ ConnectEnters(o) \/ ConnectFindsNothing(o) \/ ConnectWaits(o) \/ ConnectWakes(o)
               \/ ConnectGivesUp(o)
      BY <1>8, <2>4, ConnectGoesStep DEF Connect, ConnectWakes
    <2>5. CASE ConnectJudges(o)
      BY <1>8, <2>5, ConnectJudgesStep DEF Connect
    <2>6. CASE ConnectSends(o)
      <3>1. at[o] = "send" => Alive(o)
        BY OwnParts DEF IInv, Own, LifeOf, Alive
      <3>2. ~(o \in stopped) /\ at[o] = "send" /\ o \notin cancelled => status[o] = "kWrite"
        BY OwnParts DEF IInv, Own, LifeOf
      <3>3. rpc[o] = "Connect"
        BY <1>8 DEF Connect
      <3>4. CASE o \in stopped /\ reply[o] = "none" /\ ConnectStarts(o, "finish", status[o])
        BY <3>3, <3>4, ConnectStartsStep
      <3>5. CASE at[o] = "send" /\ FinishTwice(o)
        BY <3>1, <3>5, FinishTwiceStep
      <3>6. CASE o \notin stopped /\ ConnectStarts(o, "finish", "kFinish")
        <4>1. reply[o] = "none"
          BY <3>2, <3>6, OwnParts DEF IInv, Own, LifeOf, ConnectStarts
        <4> QED
          BY <3>3, <3>6, <4>1, ConnectStartsStep
      <3>7. CASE o \notin stopped /\ ConnectStarts(o, "write", status[o])
        BY <3>3, <3>7, ConnectStartsStep
      <3> QED
        BY <2>6, <3>4, <3>5, <3>6, <3>7 DEF ConnectSends
    <2>7. CASE Hand(o)
      BY <1>8, <2>7, HandLooksStep, HandJudgesStep, HandDestroysStep DEF Hand, Connect
    <2> QED
      BY <1>8, <2>1, <2>2, <2>3, <2>4, <2>5, <2>6, <2>7 DEF Connect
  <1>9. CASE ProceedCancelled(o)
    BY <1>9, CancelledStep
  <1> QED
    BY <1>1, <1>2, <1>3, <1>4, <1>5, <1>6, <1>7, <1>8, <1>9 DEF Proceed

\* A thread that waits may wake for no reason.
LEMMA WakesStep ==
    ASSUME IInv, NEW o \in Objects, Wakes(o)
    PROVE  IInv' /\ Refined
  <1>1. rpc[o] = "Connect"
    BY OwnParts DEF IInv, Own, LifeOf, Wakes, Goes
  <1> QED
    BY <1>1, ConnectGoesStep

\* The invariant is inductive.
LEMMA InvStep == IInv /\ [Next]_vars => IInv' /\ Refined
  <1> SUFFICES ASSUME IInv, [Next]_vars PROVE IInv' /\ Refined
    OBVIOUS
  <1>1. CASE Next
    BY <1>1, ProceedStep, LeaveStep, CompletesStep, ClientCallsStep, GoesAwayStep, ServiceStep,
       WakesStep, SignalledStep DEF Next, Progress
  <1>2. CASE UNCHANGED vars
    <2> USE <1>2 DEF vars, objVars, connectVars, serverVars
    <2>1. TypeOK'
      BY DEF IInv, TypeOK
    <2>2. Ending'
      BY DEF IInv, Ending, Registry, Alive
    <2>3. Refined
      <3>1. Phases' = Phases
        BY DEF Phases, Phase, WasOffered, Alive
      <3> QED
        BY <3>1 DEF Refined, Abstract!vars
    <2> QED
      BY <2>1, <2>2, <2>3, QuietStep
  <1> QED
    BY <1>1, <1>2

\* init() establishes it.
LEMMA InvInit == Init => IInv
  <1> SUFFICES ASSUME Init PROVE IInv
    OBVIOUS
  <1>0. PICK served \in ServedTogether :
          /\ rpc = [o \in Objects |-> IF o \in DOMAIN served.rpcs THEN served.rpcs[o] ELSE "none"]
          /\ status = [o \in Objects |-> IF o \in DOMAIN served.rpcs THEN "kProcess"
                                         ELSE IF o <= Len(served.rpcs) + served.calls THEN "unborn" ELSE "gone"]
          /\ op = [o \in Objects |-> IF o \in DOMAIN served.rpcs THEN "request" ELSE "none"]
    BY DEF Init
  <1> DEFINE created == served.rpcs
  <1> DEFINE last == Len(served.rpcs) + served.calls
  <1>1. /\ rpc = [o \in Objects |-> IF o \in DOMAIN created THEN created[o] ELSE "none"]
        /\ status = [o \in Objects |-> IF o \in DOMAIN created THEN "kProcess"
                                       ELSE IF o <= last THEN "unborn" ELSE "gone"]
        /\ op = [o \in Objects |-> IF o \in DOMAIN created THEN "request" ELSE "none"]
    BY <1>0
  <1>2. /\ created \in Seq(Rpcs) /\ Len(created) \in 1..MaxServed /\ DOMAIN created = 1..Len(created)
        /\ \A i, j \in DOMAIN created : created[i] = created[j] => i = j
        /\ \A i \in DOMAIN created : created[i] \in Rpcs
        /\ "none" \notin Rpcs
    BY ServedAssumption, BoundsAssumption DEF Rpcs
  <1> HIDE DEF created, last
  <1> HIDE DEF Rpcs
  <1>3. TypeOK
    <2>1. /\ rpc \in [Objects -> Rpcs \cup {"none"}]
          /\ status \in [Objects -> {"unborn", "kProcess", "kWrite", "kPostWrite", "kFinish", "gone"}]
          /\ op \in [Objects -> {"none", "request", "write", "finish"}]
      BY <1>1, <1>2
    <2>2. parts \in [Objects -> 0..MaxParts] /\ current \in [Objects -> 1..MaxParts + 1]
      BY BoundsAssumption DEF Init
    <2>3. sent \in [Objects -> Seq(1..MaxParts)]
      BY DEF Init
    <2> QED
      BY <2>1, <2>2, <2>3 DEF Init, TypeOK
  <1>4. \A o \in Objects : Own(o)
    <2> SUFFICES ASSUME NEW o \in Objects PROVE Own(o)
      OBVIOUS
    <2>1. /\ Fresh(o) /\ at[o] = "idle" /\ hand[o] = "none" /\ o \notin cancelled /\ o \notin trailing
          /\ status[o] \in {"kProcess", "unborn", "gone"}
          /\ status[o] = "kProcess" <=> op[o] = "request"
          /\ op[o] \in {"request", "none"}
          /\ status[o] = "kProcess" => rpc[o] # "none"
          /\ status[o] # "kProcess" => rpc[o] = "none"
      BY <1>1, <1>2 DEF Init, Fresh
    <2> QED
      BY <2>1 DEF Own, Driving, LifeOf, Fresh, Alive, OrderlyOf, SelectiveOf, RepeatingOf
  <1>5. DrivenByOne /\ Life /\ Orderly /\ Selective /\ Repeating
    BY <1>4, OwnParts
  <1>6. Mutex
    BY ObjectsFinite DEF Init, Mutex
  <1>7. \A o \in Objects : (Held(o) \/ Waiting(o) <=> o \in DOMAIN created) /\ (Waiting(o) <=> o \in DOMAIN created)
    BY <1>1, <1>2 DEF Init, Held, Taking, WasOffered, Alive, Waiting
  <1>8. OfferUnique
    BY <1>1, <1>2, <1>7 DEF OfferUnique
  <1>9. OfferExists
    BY <1>1, <1>2, <1>7 DEF OfferExists
  <1>10. Room
    <2>1. Takers = {} /\ IsFiniteSet(Unborn)
      BY ObjectsFinite, FS_Subset DEF Takers, Taking, Init, Unborn
    <2> QED
      BY <2>1, FS_EmptySet, FS_CardinalityType DEF Room
  <1>11. Ending
    BY DEF Init, Ending
  <1> QED
    BY <1>3, <1>5, <1>6, <1>8, <1>9, <1>10, <1>11 DEF IInv

-----------------------------------------------------------------------------
(* The theorems *)

\* The invariant holds in every reachable state.
LEMMA Inductive == Spec => []IInv
  <1>1. IInv /\ [Next]_vars => IInv'
    BY InvStep
  <1> QED
    BY InvInit, <1>1, PTL DEF Spec

\* Of an RPC that is served, exactly one object waits while the server is up.
LEMMA OneOffer == IInv => OneOfferPerRpc
  <1> SUFFICES ASSUME IInv, ~serverDown, NEW r \in {rpc[o] : o \in Objects} \ {"none"}
               PROVE  Cardinality({o \in Objects : rpc[o] = r /\ Waiting(o)}) = 1
    BY DEF OneOfferPerRpc
  <1>1. PICK w \in Objects : rpc[w] = r /\ Waiting(w)
    BY DEF IInv, OfferExists
  <1>2. \A o \in Objects : Waiting(o) => Held(o)
    <2> SUFFICES ASSUME NEW o \in Objects, Waiting(o) PROVE Held(o)
      OBVIOUS
    <2>1. Own(o)
      BY OwnParts DEF IInv
    <2> QED
      BY <2>1 DEF Waiting, Held, Taking, WasOffered, Alive, Own, LifeOf, Fresh
  <1>3. {o \in Objects : rpc[o] = r /\ Waiting(o)} = {w}
    BY <1>1, <1>2 DEF IInv, OfferUnique
  <1> QED
    BY <1>3, FS_Singleton

\* What the invariant says of the positions is what StreamsComplete says.
LEMMA PositionsComplete == IInv => StreamsComplete
  <1> SUFFICES ASSUME IInv, NEW o \in Objects, reply[o] = "OK"
               PROVE  LET s == IF rpc[o] = "ParamInfoRequest" /\ Len(sent[o]) > parts[o]
                               THEN SubSeq(sent[o], 1, parts[o]) ELSE sent[o] IN
                      /\ \A i \in 1..Len(s) - 1 : s[i] < s[i + 1]
                      /\ rpc[o] # "UpdateSubscriptions" => Len(s) = parts[o] /\ Len(sent[o]) <= parts[o] + 1
                      /\ \A i \in DOMAIN sent[o] : sent[o][i] <= parts[o]
    BY DEF StreamsComplete
  <1>1. Own(o) /\ TypeOK
    BY OwnParts DEF IInv
  <1>2. /\ sent[o] \in Seq(1..MaxParts) /\ parts[o] \in Nat /\ Len(sent[o]) \in Nat
        /\ DOMAIN sent[o] = 1..Len(sent[o])
        /\ \A i \in 1..Len(sent[o]) : sent[o][i] \in Nat
    BY <1>1, BoundsAssumption DEF TypeOK
  <1>3. CASE rpc[o] = "UpdateSubscriptions"
    <2>1. SelectiveOf(o)
      BY <1>1, <1>3 DEF Own
    <2> QED
      <3>1. \A i \in 1..Len(sent[o]) - 1 : sent[o][i] < sent[o][i + 1]
        BY <1>2, <2>1 DEF SelectiveOf
      <3>2. \A i \in 1..Len(sent[o]) : sent[o][i] <= parts[o]
        BY <2>1 DEF SelectiveOf
      <3> QED
        BY <1>2, <1>3, <3>1, <3>2
  <1>4. CASE rpc[o] \notin {"ParamInfoRequest", "UpdateSubscriptions"}
    <2>1. OrderlyOf(o)
      BY <1>1, <1>4 DEF Own
    <2> QED
      BY <1>2, <1>4, <2>1 DEF OrderlyOf
  <1>5. CASE rpc[o] = "ParamInfoRequest"
    <2>1. RepeatingOf(o)
      BY <1>1, <1>5 DEF Own
    <2>2. /\ \A i \in 1..Len(sent[o]) : sent[o][i] = IF i <= parts[o] THEN i ELSE parts[o]
          /\ Len(sent[o]) >= parts[o] /\ Len(sent[o]) <= parts[o] + 1
      BY <1>2, <2>1 DEF RepeatingOf
    <2>3. CASE Len(sent[o]) > parts[o]
      <3>1. /\ Len(SubSeq(sent[o], 1, parts[o])) = parts[o]
            /\ \A i \in 1..parts[o] : SubSeq(sent[o], 1, parts[o])[i] = i
        <4>1. \A i \in 1..parts[o] : sent[o][i] \in Nat /\ sent[o][i] = i
          BY <1>2, <2>2, <2>3
        <4>2. /\ Len(SubSeq(sent[o], 1, parts[o])) = IF 1 <= parts[o] THEN parts[o] - 1 + 1 ELSE 0
              /\ \A i \in 1..parts[o] - 1 + 1 : SubSeq(sent[o], 1, parts[o])[i] = sent[o][1 + i - 1]
          BY <1>2, <4>1, SubSeqProperties
        <4> QED
          BY <1>2, <4>1, <4>2
      <3> QED
        <4> DEFINE s == SubSeq(sent[o], 1, parts[o])
        <4>1. \A i \in 1..Len(s) - 1 : s[i] < s[i + 1]
          BY <1>2, <3>1
        <4>2. \A i \in DOMAIN sent[o] : sent[o][i] <= parts[o]
          BY <1>2, <2>2
        <4> QED
          BY <1>5, <2>2, <2>3, <3>1, <4>1, <4>2
    <2>4. CASE ~(Len(sent[o]) > parts[o])
      BY <1>2, <1>5, <2>2, <2>4
    <2> QED
      BY <2>3, <2>4
  <1> QED
    BY <1>3, <1>4, <1>5

\* The registry stays sound: every object in it is driven by one operation or one
\* thread, on every path through every proceed(), and while the server is up every
\* RPC has one object that waits for a client or is about to create the next. Only
\* a Connect whose client has gone away may be driven by a second thread, the one
\* that calls proceed(false) by hand, or be gone while gRPC has its operation.
THEOREM GrpcObjectsDriven == Spec => []ObjectsDriven
  <1>1. IInv => ObjectsDriven
    BY OneOffer DEF IInv, ObjectsDriven
  <1> QED
    BY Inductive, <1>1, PTL

\* A stream that ends with OK has sent its responses completely and in order, a
\* ParamInfoRequest perhaps the last of them twice.
THEOREM GrpcStreamsComplete == Spec => []StreamsComplete
  BY Inductive, PositionsComplete, PTL

\* The service with its registry, its completion queue and its threads implements
\* what its clients are promised: RpcService.
THEOREM GrpcImplements == Spec => ImplementsRpcService
  <1>1. Init => Abstract!Init
    <2> SUFFICES ASSUME Init PROVE Abstract!Init
      OBVIOUS
    <2>1. IInv
      BY InvInit
    <2>2. \A o \in Objects : (Phases[o] = "offered" => Held(o) /\ rpc[o] # "none")
                             /\ Phases[o] \in {"offered", "unborn", "gone"} /\ sent[o] = <<>>
      <3> SUFFICES ASSUME NEW o \in Objects
                   PROVE  (Phase(o) = "offered" => Held(o) /\ rpc[o] # "none")
                          /\ Phase(o) \in {"offered", "unborn", "gone"} /\ sent[o] = <<>>
        BY DEF Phases
      <3>1. Own(o)
        BY <2>1, OwnParts DEF IInv
      <3>2. /\ status[o] \in {"kProcess", "unborn", "gone"} /\ sent[o] = <<>> /\ o \notin cancelled
            /\ status[o] = "kProcess" => op[o] = "request" /\ rpc[o] # "none"
            /\ reply[o] = "none"
        <4>1. status[o] = "kProcess" => op[o] = "request"
          BY DEF Init
        <4> QED
          BY <3>1, <4>1 DEF Init, Own, LifeOf
      <3> QED
        BY <3>2 DEF Phase, WasOffered, Held, Alive
    <2>3. \A o, p \in Objects : Phases[o] = "offered" /\ rpc[o] = rpc[p] => o = p
      <3> SUFFICES ASSUME NEW o \in Objects, NEW p \in Objects, Phases[o] = "offered", rpc[o] = rpc[p]
                   PROVE  o = p
        OBVIOUS
      <3>1. Held(o) /\ rpc[o] # "none"
        BY <2>2
      <3>2. Held(p)
        <4>1. status[p] = "kProcess" /\ op[p] = "request" /\ p \notin cancelled /\ reply[p] = "none"
          BY <3>1 DEF Init
        <4> QED
          BY <4>1 DEF Held, WasOffered, Alive
      <3> QED
        BY <2>1, <3>1, <3>2 DEF IInv, OfferUnique
    <2>4. DOMAIN Phases = Objects
      BY DEF Phases
    <2>5. cancelled = {} /\ serverDown = FALSE /\ (events = "returned") = FALSE
      BY DEF Init
    <2> QED
      BY <2>2, <2>3, <2>4, <2>5 DEF Abstract!Init
  <1>2. IInv /\ [Next]_vars => [Abstract!Next]_Abstract!vars
    BY InvStep DEF Refined
  <1> QED
    BY Inductive, <1>1, <1>2, PTL DEF Spec, ImplementsRpcService, Abstract!Spec

=============================================================================
