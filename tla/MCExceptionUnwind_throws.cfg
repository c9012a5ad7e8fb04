\* Throws from bodies, handlers, @finally blocks and called functions
SPECIFICATION FairSpec
CONSTANTS
    c1 = c1
    c2 = c2
    Class = {c1, c2}
    Nil = Nil
    AnyType = AnyType
    NoBuf = NoBuf
    Dangling = Dangling
    Catches <- ClauseLists
    ReturnsInTry = FALSE
    MaxDepth = 3
    MaxLocals = 1
    MaxReleases = 2
INVARIANT TypeOK
INVARIANT BufIsInnermost
PROPERTY ReleasedWhenLeft
PROPERTY FinallyOutlivesThrows
PROPERTY ImplementsMeaning
PROPERTY Handled
\* The program may end.
CHECK_DEADLOCK FALSE
