\* A release by ARC and a release of the shadow
SPECIFICATION Spec
CONSTANTS
    c1 = c1
    c2 = c2
    Class = {c1, c2}
    Nil = Nil
    AnyType = AnyType
    NoBuf = NoBuf
    Dangling = Dangling
    Catches <- ClauseLists
    ReturnsInTry = FALSE
    MaxDepth = 3
    MaxLocals = 1
    MaxReleases = 1
INVARIANT NoDoubleRelease
\* The program may end.
CHECK_DEADLOCK FALSE
