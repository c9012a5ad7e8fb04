\* Assignment to a declared weak local
SPECIFICATION SpecReassign
CONSTANTS
    Obj = {o1, o2}
    WeakHolder = {}
    Local = {l1}
    Null = Null
    MAX_WEAK_ENTRIES = 3
    MaxRC = 2
    MaxItems = 0
    MaxPools = 0
    MaxPoolLen = 0
    MaxSlots = 2
INVARIANT WeakRefsLive
\* A program may end: user code need not take another step.
CHECK_DEADLOCK FALSE
