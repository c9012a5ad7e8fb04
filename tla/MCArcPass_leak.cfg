\* A return in a branch that is not taken
SPECIFICATION Spec
SYMMETRY Symmetry
CONSTANTS
    Var = {x, y}
    Obj = {o1, o2}
    Null = Null
    None = None
    ReturnReads = FALSE
    MaxDepth = 3
INVARIANT NoLeak
\* The function returns.
CHECK_DEADLOCK FALSE
