---------------------------- MODULE Subscriptions ----------------------------
(***************************************************************************)
(* catena::common::SubscriptionManager and the calls that meet in it: the  *)
(* UpdateSubscriptions calls of clients, which add, remove and then list   *)
(* subscriptions, and the calls that set a value, whose signal asks        *)
(* isSubscribed() on behalf of every client that is connected with detail  *)
(* level SUBSCRIPTIONS. All clients share the one set of subscriptions.    *)
(*                                                                         *)
(* Two mutexes are involved: the manager's mtx_ and the device's mutex().  *)
(* A step is a critical section of one of them; a section that takes the   *)
(* other mutex while it holds the first is two.                            *)
(*                                                                         *)
(* The names are apart from those of PushConnect, the call on whose behalf *)
(* isSubscribed() is asked: ConnectProofs speaks of both.                  *)
(***************************************************************************)
EXTENDS Integers, FiniteSets

CONSTANTS Oids,       \* the oids of the parameters (not of array elements)
          Root,       \* what stands before "/*" in the wildcard for all
          Subtree,    \* Subtree[o]: o and the oids of its sub-parameters
          PrefixedBy, \* PrefixedBy[o]: the oids that begin with o, as strings
          Callers,    \* threads, one per call in progress
          Nobody      \* holder of a free mutex

Bases == Oids \cup {Root}

ASSUME OidsAssumption ==
    /\ Root \notin Oids
    /\ Subtree \in [Bases -> SUBSET Oids] /\ PrefixedBy \in [Bases -> SUBSET Oids]
    /\ Subtree[Root] = Oids
    /\ \A o \in Oids : o \in Subtree[o]
    /\ \A o \in Bases : Subtree[o] \subseteq PrefixedBy[o]
ASSUME CallersAssumption == Nobody \notin Callers

VARIABLES
    subscriptions, \* subscriptions_ of the device
    managerMutex,  \* holder of the manager's mutex, mtx_
    deviceMutex,   \* holder of the device's mutex
    at,            \* where each call is
    removing,      \* the name that a call in "remove" is about to remove
    answer,        \* subbedOids_: what it has yet to write to its client
    subscribersListen \* a client is connected with detail level SUBSCRIPTIONS

subscriptionsVars == <<subscriptions, managerMutex, deviceMutex, at, removing, answer,
                       subscribersListen>>

\* An oid, or one followed by "/*"
Names == [base : Oids, wild : {FALSE}] \cup [base : Bases, wild : {TRUE}]
NoName == [base |-> Root, wild |-> FALSE]

Proceeds(t, l) == at' = [at EXCEPT ![t] = l]

\* The oids that the name stands for: ParamVisitor::traverseParams goes down
\* as long as the client may read what it meets.
Expansion(name, readable) ==
    IF name.wild
    THEN {o \in Subtree[name.base] :
             \A a \in Subtree[name.base] : o \in Subtree[a] => a \in readable}
    ELSE {name.base} \cap readable

\* Mutant of Matching: the wildcard matches nothing.
MatchingLiterally(name) == {name.base} \cap Oids

\* The subscriptions that removeSubscription removes.
Matching(name) == IF name.wild THEN PrefixedBy[name.base] ELSE {name.base}

-----------------------------------------------------------------------------
(* UpdateSubscriptions *)

\* A call with a name to add and one to remove. (One with more of them goes
\* through the steps of several calls with one each.)
UpdateSubscriptions(t) ==
    /\ at[t] = "idle"
    /\ Proceeds(t, "add")
    /\ UNCHANGED <<subscriptions, managerMutex, deviceMutex, removing, answer, subscribersListen>>

\* addSubscription locks mtx_,
LockForAdd(t) ==
    /\ at[t] = "add"
    /\ managerMutex = Nobody
    /\ managerMutex' = t
    /\ Proceeds(t, "lookup")
    /\ UNCHANGED <<subscriptions, deviceMutex, removing, answer, subscribersListen>>

\* Mutant of AddSubscription: a name that is not found leaves mtx_ locked.
AddSubscriptionHolding(t, added, readable) ==
    /\ at[t] = "lookup"
    /\ deviceMutex = Nobody
    /\ subscriptions' = subscriptions \cup Expansion(added, readable)
    /\ managerMutex' = IF Expansion(added, readable) = {} THEN t ELSE Nobody
    /\ \E name \in Names : removing' = [removing EXCEPT ![t] = name]
    /\ Proceeds(t, "remove")
    /\ UNCHANGED <<deviceMutex, answer, subscribersListen>>

\* and then, for as long as it looks the parameters up, the device's mutex. The
\* client names added and may read the oids in readable.
AddSubscription(t, added, readable) ==
    /\ at[t] = "lookup"
    /\ deviceMutex = Nobody
    /\ subscriptions' = subscriptions \cup Expansion(added, readable)
    /\ managerMutex' = Nobody
    /\ \E name \in Names : removing' = [removing EXCEPT ![t] = name]
    /\ Proceeds(t, "remove")
    /\ UNCHANGED <<deviceMutex, answer, subscribersListen>>

RemoveSubscription(t) ==
    /\ at[t] = "remove"
    /\ managerMutex = Nobody
    /\ subscriptions' = subscriptions \ Matching(removing[t])
    /\ removing' = [removing EXCEPT ![t] = NoName]
    /\ Proceeds(t, "list")
    /\ UNCHANGED <<managerMutex, deviceMutex, answer, subscribersListen>>

GetAllSubscribedOids(t) ==
    /\ at[t] = "list"
    /\ managerMutex = Nobody
    /\ answer' = [answer EXCEPT ![t] = subscriptions]
    /\ Proceeds(t, "write")
    /\ UNCHANGED <<subscriptions, managerMutex, deviceMutex, removing, subscribersListen>>

\* kWrite: the next oid of the copy is looked up and written.
WriteNext(t) ==
    /\ at[t] = "write"
    /\ deviceMutex = Nobody
    /\ \E o \in answer[t] : answer' = [answer EXCEPT ![t] = @ \ {o}]
    /\ UNCHANGED <<subscriptions, managerMutex, deviceMutex, at, removing, subscribersListen>>

Finish(t) ==
    /\ at[t] = "write" /\ answer[t] = {}
    /\ Proceeds(t, "idle")
    /\ UNCHANGED <<subscriptions, managerMutex, deviceMutex, removing, answer, subscribersListen>>

-----------------------------------------------------------------------------
(* SetValue and MultiSetValue *)

SetValue(t) ==
    /\ at[t] = "idle"
    /\ Proceeds(t, "set")
    /\ UNCHANGED <<subscriptions, managerMutex, deviceMutex, removing, answer, subscribersListen>>

\* The device is locked, the value is validated and written,
LockForSet(t) ==
    /\ at[t] = "set"
    /\ deviceMutex = Nobody
    /\ deviceMutex' = t
    /\ Proceeds(t, "emit")
    /\ UNCHANGED <<subscriptions, managerMutex, removing, answer, subscribersListen>>

\* Mutant of EmitValueSet: isSubscribed() is asked whatever the detail level.
EmitValueSetAlwaysAsking(t) ==
    /\ at[t] = "emit"
    /\ managerMutex = Nobody
    /\ deviceMutex' = Nobody
    /\ Proceeds(t, "idle")
    /\ UNCHANGED <<subscriptions, managerMutex, removing, answer, subscribersListen>>

\* valueSetByClient_ is emitted, whose slot asks isSubscribed() for a client
\* that listens, and the device is unlocked.
EmitValueSet(t) ==
    /\ at[t] = "emit"
    /\ subscribersListen => managerMutex = Nobody
    /\ deviceMutex' = Nobody
    /\ Proceeds(t, "idle")
    /\ UNCHANGED <<subscriptions, managerMutex, removing, answer, subscribersListen>>

-----------------------------------------------------------------------------
SubscriptionsInit ==
    /\ subscriptions = {}
    /\ managerMutex = Nobody /\ deviceMutex = Nobody
    /\ at = [t \in Callers |-> "idle"]
    /\ removing = [t \in Callers |-> NoName]
    /\ answer = [t \in Callers |-> {}]
    /\ subscribersListen \in BOOLEAN

\* A call that has begun goes on.
Continue(t) ==
    \/ LockForAdd(t)
    \/ \E added \in Names, readable \in SUBSET Oids : AddSubscription(t, added, readable)
    \/ RemoveSubscription(t)
    \/ GetAllSubscribedOids(t) \/ WriteNext(t) \/ Finish(t)
    \/ LockForSet(t) \/ EmitValueSet(t)

SubscriptionsNext == \E t \in Callers :
    \/ UpdateSubscriptions(t)
    \/ SetValue(t)
    \/ Continue(t)

SubscriptionsSpec == SubscriptionsInit /\ [][SubscriptionsNext]_subscriptionsVars

\* A thread that waits for a mutex which is released again and again gets it.
FairSubscriptionsSpec == SubscriptionsSpec /\ \A t \in Callers : SF_subscriptionsVars(Continue(t))

-----------------------------------------------------------------------------
(* Properties *)

\* The types of the variables; a mutex is held by a call that needs it.
SubscriptionsTypeOK ==
    /\ subscriptions \subseteq Oids
    /\ at \in [Callers -> {"idle", "add", "lookup", "remove", "list", "write", "set", "emit"}]
    /\ \A t \in Callers : (managerMutex = t <=> at[t] = "lookup")
                         /\ (deviceMutex = t <=> at[t] = "emit")
    /\ {managerMutex, deviceMutex} \subseteq Callers \cup {Nobody}
    /\ removing \in [Callers -> Names \cup {NoName}]
    /\ answer \in [Callers -> SUBSET Oids]
    /\ subscribersListen \in BOOLEAN

\* A call that adds a subscription and one that sets a value hold a mutex each
\* and wait for the other's.
LockOrderInversion ==
    \E t, u \in Callers : at[t] = "lookup" /\ at[u] = "emit" /\ subscribersListen

\* The calls in progress never all wait for each other, except in one way: the
\* lock order of addSubscription is the opposite of the one of a SetValue whose
\* signal has a listener with detail level SUBSCRIPTIONS.
StuckOnlyByLockOrder ==
    (\E t \in Callers : at[t] # "idle") /\ ~LockOrderInversion
        => \E t \in Callers : ENABLED Continue(t)

\* The two mutexes exclude, and block calls for good in that one way only.
LocksSound == SubscriptionsTypeOK /\ StuckOnlyByLockOrder

\* As long as no client listens with detail level SUBSCRIPTIONS, every call
\* returns, however many others compete with it for the two mutexes.
CallsReturn ==
    \A t \in Callers : (at[t] # "idle" /\ ~subscribersListen) ~> (at[t] = "idle")

\* A removal leaves no subscription to an oid that its name stands for.
RemovesWhatItNames ==
    [][\A t \in Callers :
          at[t] = "remove" /\ at'[t] = "list"
             => subscriptions' \cap Expansion(removing[t], Oids) = {}]_subscriptionsVars

\* "Update if OID is subscribed or in minimal set": the question gets answered.
SubscribedUpdatesAreSent ==
    \A t \in Callers : (at[t] = "emit") ~> (at[t] = "idle")

\* "Expand wildcard and remove all matching OIDs": only those.
RemovesOnlyWhatItNames ==
    [][\A t \in Callers :
          at[t] = "remove" /\ at'[t] = "list"
             => subscriptions \ subscriptions' \subseteq Expansion(removing[t], Oids)]_subscriptionsVars
=============================================================================
