\* Pools left early, arrays, and deallocs that run user code
SPECIFICATION Spec
CONSTANTS
    Obj = {o1, o2}
    WeakHolder = {o1}
    Local = {}
    Null = Null
    MAX_WEAK_ENTRIES = 3
    MaxRC = 2
    MaxItems = 2
    MaxPools = 2
    MaxPoolLen = 1
    MaxSlots = 2
INVARIANT TypeOK
INVARIANT RcIsOwners
INVARIANT StrongRefsLive
INVARIANT CallsWellNested
INVARIANT DeallocsDistinct
PROPERTY ImplementsLifetime
\* A program may end: user code need not take another step.
CHECK_DEADLOCK FALSE
