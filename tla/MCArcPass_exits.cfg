\* Branches, loops, and exits anywhere
SPECIFICATION Spec
SYMMETRY Symmetry
CONSTANTS
    Var = {x, y}
    Obj = {o1, o2}
    Null = Null
    None = None
    ReturnReads = FALSE
    MaxDepth = 3
INVARIANT TypeOK
INVARIANT ReleasedOnce
INVARIANT OwnedTracked
INVARIANT VarsLive
INVARIANT ReturnsLive
\* The function returns.
CHECK_DEADLOCK FALSE
