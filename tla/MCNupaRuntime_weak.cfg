\* Weak locals and ivars of programs that leave their blocks normally
SPECIFICATION Spec
CONSTANTS
    Obj = {o1, o2}
    WeakHolder = {o1, o2}
    Local = {l1, l2}
    Null = Null
    MAX_WEAK_ENTRIES = 3
    MaxRC = 2
    MaxItems = 0
    MaxPools = 0
    MaxPoolLen = 0
    MaxSlots = 4
INVARIANT RegisteredOnce
INVARIANT RegisteredLocalsInScope
PROPERTY ImplementsLifetime
\* A program may end: user code need not take another step.
CHECK_DEADLOCK FALSE
