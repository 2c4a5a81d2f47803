--------------------------- MODULE MCSubscriptions ---------------------------
(* Model-checking instance of Subscriptions: "/foo" with the sub-parameter    *)
(* "/foo/bar", and "/foobar", whose oid begins with the string "/foo".        *)
EXTENDS Subscriptions

CONSTANTS foo, fooBar, foobar

MCOids == {foo, fooBar, foobar}
MCSubtree == [o \in MCOids \cup {Root} |->
                 IF o = Root THEN MCOids ELSE IF o = foo THEN {foo, fooBar} ELSE {o}]
MCPrefixedBy == [o \in MCOids \cup {Root} |->
                 IF o \in {Root, foo} THEN MCOids ELSE {o}]
=============================================================================
