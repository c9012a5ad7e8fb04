\* An @autoreleasepool block left by return
SPECIFICATION Spec
CONSTANTS
    Obj = {o1, o2}
    WeakHolder = {}
    Local = {}
    Null = Null
    MAX_WEAK_ENTRIES = 3
    MaxRC = 2
    MaxItems = 0
    MaxPools = 2
    MaxPoolLen = 2
    MaxSlots = 2
PROPERTY OutermostPopLosesNothing
\* A program may end: user code need not take another step.
CHECK_DEADLOCK FALSE
