CONSTANTS
    foo = foo
    fooBar = fooBar
    foobar = foobar
    Oids <- MCOids
    Root = Root
    Subtree <- MCSubtree
    PrefixedBy <- MCPrefixedBy
    Callers = {t1, t2}
    Nobody = Nobody
SPECIFICATION FairSubscriptionsSpec
INVARIANTS
    LocksSound
PROPERTIES
    CallsReturn
    RemovesWhatItNames
\* Two calls may wait for each other, which LocksSound is about.
CHECK_DEADLOCK FALSE
