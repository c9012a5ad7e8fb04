\* A weak ivar outlives its object in the weak table
SPECIFICATION Spec
CONSTANTS
    Obj = {o1, o2}
    WeakHolder = {o1}
    Local = {}
    Null = Null
    MAX_WEAK_ENTRIES = 3
    MaxRC = 2
    MaxItems = 0
    MaxPools = 0
    MaxPoolLen = 0
    MaxSlots = 2
PROPERTY ClearsOnlyAllocated
\* A program may end: user code need not take another step.
CHECK_DEADLOCK FALSE
