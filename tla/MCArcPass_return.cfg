\* A returned expression that reads released locals
SPECIFICATION Spec
SYMMETRY Symmetry
CONSTANTS
    Var = {x, y}
    Obj = {o1, o2}
    Null = Null
    None = None
    ReturnReads = TRUE
    MaxDepth = 3
INVARIANT ReturnsLive
\* The function returns.
CHECK_DEADLOCK FALSE
