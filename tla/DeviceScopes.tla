----------------------------- MODULE DeviceScopes -----------------------------
(***************************************************************************)
(* What all requests to a device of the C++ SDK share: the descriptors of  *)
(* its parameters with the scopes they inherit, the Authorizer of a        *)
(* client, the status codes, and the state of the parameters.              *)
(***************************************************************************)
EXTENDS Integers, Sequences, FiniteSets, SequencesExt

CONSTANTS Descriptors,         \* the ParamDescriptors, by name
          DefaultScope         \* Device::default_scope_

\* fields has the oids of the sub-params in the order of StructInfo or alternativeNames.
ASSUME DescriptorsAssumption ==
    \A d \in DOMAIN Descriptors : LET r == Descriptors[d] IN
        /\ r.parent \in DOMAIN Descriptors \cup {"none"}
        /\ ToSet(r.fields) = {Descriptors[s].oid : s \in {x \in DOMAIN Descriptors : Descriptors[x].parent = d}}

VARIABLES values,     \* the native values of the top-level params, by descriptor
          read_only   \* read_only_ of each descriptor

OK == 0
INVALID_ARGUMENT == 3
NOT_FOUND == 5
PERMISSION_DENIED == 7
OUT_OF_RANGE == 11
UNIMPLEMENTED == 12
INTERNAL == 13

NoValue == <<"none", 0>>
Ok(v) == [code |-> OK, value |-> v]
Fail(code) == [code |-> code, value |-> NoValue]
-----------------------------------------------------------------------------
\* A descriptor without a scope has the scope of the one above it.
getScope(pd) ==
    LET scope[d \in DOMAIN Descriptors] ==
          IF Descriptors[d].scope # "" THEN Descriptors[d].scope
          ELSE IF Descriptors[d].parent # "none" THEN scope[Descriptors[d].parent] ELSE DefaultScope
    IN  scope[pd]

\* An Authorizer is the set of the scopes of its token, each with whether it ends in ":w".
kAuthzDisabled == {<<"", FALSE>>}
hasAuthz_(authz, scope, w) == authz = kAuthzDisabled \/ <<scope, w>> \in authz
writeAuthzScope(authz, scope) == hasAuthz_(authz, scope, TRUE)
readAuthzScope(authz, scope) == hasAuthz_(authz, scope, FALSE) \/ writeAuthzScope(authz, scope)
readAuthz(authz, pd) == readAuthzScope(authz, getScope(pd))
=============================================================================
