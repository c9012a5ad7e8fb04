\* Weak references when exceptions leave their blocks
SPECIFICATION SpecThrow
SYMMETRY Symmetry
CONSTANTS
    Obj = {o1, o2, o3}
    WeakHolder = {o1}
    Local = {l1}
    Null = Null
    MAX_WEAK_ENTRIES = 3
    MaxRC = 1
    MaxItems = 0
    MaxPools = 0
    MaxPoolLen = 0
    MaxSlots = 3
INVARIANT WeakRefsLive
INVARIANT WeakInv
\* A program may end: user code need not take another step.
CHECK_DEADLOCK FALSE
