---------------------------- MODULE NupaRuntime ----------------------------
(***************************************************************************)
(* The nupa-lang runtime (src/include/nupa/runtime.c) together with the    *)
(* one library class that owns other objects, NPArray / NPMutableArray     *)
(* (src/include/Foundation), and the code the transpiler emits around      *)
(* weak references and autorelease pools.                                  *)
(*                                                                         *)
(* The program is single threaded; what makes it hard is re-entrancy.      *)
(* nupa_release calls the dealloc of the class, which runs user code,      *)
(* which calls the runtime again while a pop or a removeAllObjects further *)
(* up the C stack is in the middle of its loop.  "stack" is that C stack:  *)
(* the runtime and library activations that can be interrupted by user     *)
(* code.  Between two calls of a dealloc every runtime function is atomic. *)
(*                                                                         *)
(* User code is any code that keeps the ownership rules: it releases or    *)
(* autoreleases only a reference it owns, and uses an object only through  *)
(* a reference it has (Referenced).                                        *)
(***************************************************************************)
EXTENDS Integers, Sequences, FiniteSets

CONSTANTS
    Obj,             \* heap addresses; an address is reused once it is freed
    WeakHolder,      \* addresses of objects whose class has a weak ivar
    Local,           \* stack addresses of __weak local variables
    Null,            \* nil
    MAX_WEAK_ENTRIES,\* size of the weak side table
    MaxRC,           \* bound: references to one object at a time
    MaxItems,        \* bound: elements of an array
    MaxPools,        \* bound: autorelease pools at a time
    MaxPoolLen,      \* bound: autoreleased references of one pool
    MaxSlots         \* bound: registered weak locations of one object

ASSUME DisjointAddresses ==
    /\ WeakHolder \subseteq Obj
    /\ Obj \cap Local = {} /\ Null \notin Obj \cup Local
ASSUME BoundsAreNat ==
    {MAX_WEAK_ENTRIES, MaxRC, MaxItems, MaxPools, MaxPoolLen, MaxSlots}
        \subseteq Nat

VARIABLES
    heap,        \* allocated addresses
    rc,          \* retain_count of the object at an address
    items,       \* _items[0 .. _count-1] of an array object
    cell,        \* the pointer stored at a weak location
    weak_table,  \* weak_table[0 .. weak_entries-1]
    scope,       \* stack depth of the block that declares a weak local, or Out
    pools,       \* the list from current_pool along next, innermost last
    stack,       \* activations of dealloc, autoreleasepoolPop, removeAllObjects
    held,        \* references (+1) that variables of user code own
    lost         \* references that nothing will ever release

vars == <<heap, rc, items, cell, weak_table, scope, pools, stack, held, lost>>

-----------------------------------------------------------------------------
(* Locations and values *)

\* A weak location is a __weak local, or the weak ivar of the object at
\* address o, which is named o as well (&o->_w).
Loc == Local \cup WeakHolder
Out == -1
Id == Obj \cup {Null}

Elements(q) == {q[i] : i \in DOMAIN q}
Entry == [object : Obj, slots : Seq(Loc)]
Pool == [objs : Seq(Obj), depth : Nat, left : BOOLEAN]
Frame == [fn : {"dealloc", "removeAll", "pop"}, obj : Id, pool : Nat, i : Nat]

TypeOK ==
    /\ heap \subseteq Obj
    /\ rc \in [Obj -> Nat]
    /\ items \in [Obj -> Seq(Obj)]
    /\ cell \in [Loc -> Id]
    /\ weak_table \in Seq(Entry)
    /\ scope \in [Local -> Nat \cup {Out}]
    /\ pools \in Seq(Pool)
    /\ stack \in Seq(Frame)
    /\ held \in [Obj -> Nat]
    /\ lost \in [Obj -> Nat]

Live(o) == o \in heap /\ rc[o] > 0

Top == stack[Len(stack)]
Caller == SubSeq(stack, 1, Len(stack) - 1)
Resume(i) == [stack EXCEPT ![Len(stack)].i = i]

\* User code runs in main and in the part of a dealloc override that comes
\* before [super dealloc].
UserRuns == stack # <<>> => Top.fn = "dealloc" /\ Top.i = 0
Self == IF stack = <<>> THEN Null ELSE Top.obj

-----------------------------------------------------------------------------
(* The weak side table *)

\* A name with an underscore and a suffix is a faulty variant of the definition
\* that follows it: the runs show that a property notices the fault.
SwapRemove_DropsLast(q, j) == SubSeq(q, 1, Len(q) - 1)

\* arr[j] = arr[--count]
SwapRemove(q, j) ==
    [k \in 1 .. Len(q) - 1 |-> IF k = j THEN q[Len(q)] ELSE q[k]]

HasEntry(t, o) == \E i \in DOMAIN t : t[i].object = o

find_entry(t, o) ==
    CHOOSE i \in DOMAIN t :
        t[i].object = o /\ \A k \in 1 .. i - 1 : t[k].object # o

weakRegister_NoNilCheck(t, loc, o) ==
    IF HasEntry(t, o) THEN [t EXCEPT ![find_entry(t, o)].slots = Append(@, loc)]
    ELSE IF Len(t) >= MAX_WEAK_ENTRIES THEN t
    ELSE Append(t, [object |-> o, slots |-> <<loc>>])

weakRegister(t, loc, o) ==
    IF o = Null THEN t
    ELSE IF HasEntry(t, o)
         THEN [t EXCEPT ![find_entry(t, o)].slots = Append(@, loc)]
    ELSE IF Len(t) >= MAX_WEAK_ENTRIES THEN t
    ELSE Append(t, [object |-> o, slots |-> <<loc>>])

\* The first registration of loc, in table order and then slot order.
RegisteredAt(t, loc, i, j) ==
    i \in DOMAIN t /\ j \in DOMAIN t[i].slots /\ t[i].slots[j] = loc
IsFirstAt(t, loc, i, j) ==
    /\ RegisteredAt(t, loc, i, j)
    /\ \A k \in 1 .. i - 1 : loc \notin Elements(t[k].slots)
    /\ \A k \in 1 .. j - 1 : t[i].slots[k] # loc

weakUnregister_DoesNothing(t, loc) == t

weakUnregister(t, loc) ==
    IF \A i \in DOMAIN t : loc \notin Elements(t[i].slots) THEN t
    ELSE LET i == CHOOSE i \in DOMAIN t :
                      \E j \in DOMAIN t[i].slots : IsFirstAt(t, loc, i, j)
             j == CHOOSE j \in DOMAIN t[i].slots : IsFirstAt(t, loc, i, j)
         IN  [t EXCEPT ![i].slots = SwapRemove(@, j)]

Cleared_None(t, o) == {}
weakClearAll_KeepsEntry(t, o) == t

\* nupa_weakClearAll: the locations it overwrites, and the table it leaves.
Cleared(t, o) ==
    IF HasEntry(t, o) THEN Elements(t[find_entry(t, o)].slots) ELSE {}
weakClearAll(t, o) ==
    IF HasEntry(t, o) THEN SwapRemove(t, find_entry(t, o)) ELSE t

-----------------------------------------------------------------------------
(* References *)

Draining(c) == \E f \in Elements(stack) : f.fn = "removeAll" /\ f.obj = c

\* The caller of removeAllObjects keeps a reference to the array until it
\* returns, unless the array calls it from its own dealloc.
Pinned(c) ==
    \E p \in DOMAIN stack :
        /\ stack[p].fn = "removeAll" /\ stack[p].obj = c
        /\ \A q \in 1 .. p - 1 : stack[q].fn = "dealloc" => stack[q].obj # c

\* Entry j of pool k, and element j of array c, is still to be released: no
\* loop over that pool or array has passed it.
PendingEntry(k, j) ==
    /\ k \in DOMAIN pools /\ j \in DOMAIN pools[k].objs
    /\ \A f \in Elements(stack) : f.fn = "pop" /\ f.pool = k => j >= f.i
PendingItem(c, j) ==
    /\ c \in heap /\ j \in DOMAIN items[c]
    /\ \A f \in Elements(stack) :
          f.fn \in {"dealloc", "removeAll"} /\ f.obj = c => j >= f.i

\* Ways user code can come by a strong, respectively a weak, pointer to o.
StrongRef(o) ==
    \/ held[o] > 0
    \/ \E k \in DOMAIN pools : \E j \in DOMAIN pools[k].objs :
          PendingEntry(k, j) /\ pools[k].objs[j] = o
    \/ \E c \in heap : \E j \in DOMAIN items[c] :
          PendingItem(c, j) /\ items[c][j] = o
    \/ Pinned(o)
Readable(x) == IF x \in Local THEN scope[x] # Out ELSE x \in heap
WeakRef(o) == \E x \in Loc : Readable(x) /\ cell[x] = o
Referenced == {o \in Obj \ {Self} : StrongRef(o) \/ WeakRef(o)}

-----------------------------------------------------------------------------
(* runtime.c *)

Init ==
    /\ heap = {}
    /\ rc = [o \in Obj |-> 0]
    /\ items = [o \in Obj |-> <<>>]
    /\ cell = [x \in Loc |-> Null]
    /\ weak_table = <<>>
    /\ scope = [l \in Local |-> Out]
    /\ pools = <<>>
    /\ stack = <<>>
    /\ held = [o \in Obj |-> 0]
    /\ lost = [o \in Obj |-> 0]

\* calloc: every ivar of the new object is zero, the weak one included.
nupa_alloc(o) ==
    /\ UserRuns /\ o \notin heap
    /\ heap' = heap \cup {o}
    /\ rc' = [rc EXCEPT ![o] = 1]
    /\ held' = [held EXCEPT ![o] = 1]
    /\ items' = [items EXCEPT ![o] = <<>>]
    /\ cell' = [x \in Loc |-> IF x = o THEN Null ELSE cell[x]]
    /\ UNCHANGED <<weak_table, scope, pools, stack, lost>>

nupa_retain(o) ==
    /\ UserRuns /\ o \in Referenced /\ rc[o] < MaxRC
    /\ rc' = [rc EXCEPT ![o] = @ + 1]
    /\ held' = [held EXCEPT ![o] = @ + 1]
    /\ UNCHANGED <<heap, items, cell, weak_table, scope, pools, stack, lost>>

\* The body of nupa_release up to the call of isa->dealloc: "counts" are the
\* retain counts it finds, "rest" is the C stack the call returns to.
ReleaseRef(counts, o, rest) ==
    \/ /\ counts[o] > 1
       /\ rc' = [counts EXCEPT ![o] = @ - 1]
       /\ stack' = rest
       /\ UNCHANGED <<cell, weak_table>>
    \/ /\ counts[o] <= 1
       /\ rc' = [counts EXCEPT ![o] = 0]
       /\ cell' = [x \in Loc |-> IF x \in Cleared(weak_table, o)
                                   THEN Null ELSE cell[x]]
       /\ weak_table' = weakClearAll(weak_table, o)
       /\ stack' = Append(rest, [fn |-> "dealloc", obj |-> o, pool |-> 0, i |-> 0])

nupa_release(o) ==
    /\ UserRuns /\ held[o] > 0
    /\ held' = [held EXCEPT ![o] = @ - 1]
    /\ ReleaseRef(rc, o, stack)
    /\ UNCHANGED <<heap, items, scope, pools, lost>>

\* With no pool the object is returned as it is and its reference stays.
nupa_autorelease(o) ==
    /\ UserRuns /\ held[o] > 0
    /\ held' = [held EXCEPT ![o] = @ - 1]
    /\ \/ /\ pools = <<>>
          /\ lost' = [lost EXCEPT ![o] = @ + 1]
          /\ UNCHANGED pools
       \/ /\ pools # <<>> /\ Len(pools[Len(pools)].objs) < MaxPoolLen
          /\ pools' = [pools EXCEPT ![Len(pools)].objs = Append(@, o)]
          /\ UNCHANGED lost
    /\ UNCHANGED <<heap, rc, items, cell, weak_table, scope, stack>>

nupa_autoreleasepoolPush ==
    /\ UserRuns /\ Len(pools) < MaxPools
    /\ pools' = Append(pools, [objs |-> <<>>, depth |-> Len(stack), left |-> FALSE])
    /\ UNCHANGED <<heap, rc, items, cell, weak_table, scope, stack, held, lost>>

OpenPool_CurrentPool(k) == k = Len(pools) /\ k \in DOMAIN pools

\* The @autoreleasepool block of the running code that encloses it.
OpenPool(k) ==
    /\ k \in DOMAIN pools
    /\ pools[k].depth = Len(stack) /\ ~pools[k].left
    /\ \A m \in k + 1 .. Len(pools) : pools[m].left

\* return, break or @throw out of @autoreleasepool { }: the emitted
\* nupa_autoreleasepoolPop at the end of the block is skipped.
LeavePool(k) ==
    /\ UserRuns /\ OpenPool(k)
    /\ pools' = [pools EXCEPT ![k].left = TRUE]
    /\ UNCHANGED <<heap, rc, items, cell, weak_table, scope, stack, held, lost>>

nupa_autoreleasepoolPop(k) ==
    /\ UserRuns /\ OpenPool(k)
    /\ stack' = Append(stack, [fn |-> "pop", obj |-> Null, pool |-> k, i |-> 1])
    /\ UNCHANGED <<heap, rc, items, cell, weak_table, scope, pools, held, lost>>

\* pool->count is read again in every round.
PopStep ==
    /\ stack # <<>> /\ Top.fn = "pop" /\ Top.i <= Len(pools[Top.pool].objs)
    /\ ReleaseRef(rc, pools[Top.pool].objs[Top.i], Resume(Top.i + 1))
    /\ UNCHANGED <<heap, items, scope, pools, held, lost>>

\* current_pool = pool->next also drops every pool pushed after this one.
DroppedWith(k, o) ==
    Cardinality({e \in (k + 1 .. Len(pools)) \X (1 .. MaxPoolLen) :
                    e[2] \in DOMAIN pools[e[1]].objs /\ pools[e[1]].objs[e[2]] = o})
PopEnd_NotUnlinked ==
    /\ stack # <<>> /\ Top.fn = "pop" /\ Top.i > Len(pools[Top.pool].objs)
    /\ stack' = Caller
    /\ UNCHANGED <<heap, rc, items, cell, weak_table, scope, pools, held, lost>>

PopEnd ==
    /\ stack # <<>> /\ Top.fn = "pop" /\ Top.i > Len(pools[Top.pool].objs)
    /\ lost' = [o \in Obj |-> lost[o] + DroppedWith(Top.pool, o)]
    /\ pools' = SubSeq(pools, 1, Top.pool - 1)
    /\ stack' = Caller
    /\ UNCHANGED <<heap, rc, items, cell, weak_table, scope, held>>

-----------------------------------------------------------------------------
(* dealloc: the override's own code, then the loop of NPArray's dealloc     *)
(* (no round for an object that is no array), then free in nupa_release.    *)

\* The override's blocks are closed before it calls [super dealloc].
SuperDealloc ==
    /\ stack # <<>> /\ Top.fn = "dealloc" /\ Top.i = 0
    /\ \A k \in DOMAIN pools : pools[k].depth = Len(stack) => pools[k].left
    /\ \A l \in Local : scope[l] # Len(stack)
    /\ stack' = Resume(1)
    /\ UNCHANGED <<heap, rc, items, cell, weak_table, scope, pools, held, lost>>

DeallocStep ==
    /\ stack # <<>> /\ Top.fn = "dealloc" /\ Top.i > 0
    /\ Top.i <= Len(items[Top.obj])
    /\ ReleaseRef(rc, items[Top.obj][Top.i], Resume(Top.i + 1))
    /\ UNCHANGED <<heap, items, scope, pools, held, lost>>

DeallocEnd ==
    /\ stack # <<>> /\ Top.fn = "dealloc" /\ Top.i > Len(items[Top.obj])
    /\ Top.i > 0
    /\ items' = [items EXCEPT ![Top.obj] = <<>>]
    /\ heap' = heap \ {Top.obj}
    /\ stack' = Caller
    /\ UNCHANGED <<rc, cell, weak_table, scope, pools, held, lost>>

-----------------------------------------------------------------------------
(* NPMutableArray.  User code sends to an array it has a reference to, or   *)
(* to self; it does not use an array that is inside removeAllObjects.       *)

Receiver(c) == UserRuns /\ c \in Referenced \cup {Self} /\ ~Draining(c)

DeleteAt_NotShifted(q, j) == SubSeq(q, 1, Len(q) - 1)

InsertAt(q, j, o) == SubSeq(q, 1, j - 1) \o <<o>> \o SubSeq(q, j, Len(q))
DeleteAt(q, j) == SubSeq(q, 1, j - 1) \o SubSeq(q, j + 1, Len(q))

\* addObject: is the case of index _count (a larger index is clamped to it).
insertObject(c, j, o) ==
    /\ Receiver(c) /\ o \in Referenced /\ rc[o] < MaxRC
    /\ Len(items[c]) < MaxItems
    /\ j \in 1 .. Len(items[c]) + 1
    /\ rc' = [rc EXCEPT ![o] = @ + 1]
    /\ items' = [items EXCEPT ![c] = InsertAt(@, j, o)]
    /\ UNCHANGED <<heap, cell, weak_table, scope, pools, stack, held, lost>>

removeObjectAtIndex(c, j) ==
    /\ Receiver(c) /\ j \in DOMAIN items[c]
    /\ items' = [items EXCEPT ![c] = DeleteAt(@, j)]
    /\ ReleaseRef(rc, items[c][j], stack)
    /\ UNCHANGED <<heap, scope, pools, held, lost>>

replaceObjectAtIndex_NotRetained(c, j, o) ==
    /\ Receiver(c) /\ o \in Referenced /\ rc[o] < MaxRC /\ j \in DOMAIN items[c]
    /\ items' = [items EXCEPT ![c][j] = o]
    /\ ReleaseRef(rc, items[c][j], stack)
    /\ UNCHANGED <<heap, scope, pools, held, lost>>

\* The new element is retained before the old one is released, so replacing
\* an element by itself is harmless.
replaceObjectAtIndex(c, j, o) ==
    /\ Receiver(c) /\ o \in Referenced /\ rc[o] < MaxRC /\ j \in DOMAIN items[c]
    /\ items' = [items EXCEPT ![c][j] = o]
    /\ ReleaseRef([rc EXCEPT ![o] = @ + 1], items[c][j], stack)
    /\ UNCHANGED <<heap, scope, pools, held, lost>>

exchangeObjectAtIndex(c, a, b) ==
    /\ Receiver(c) /\ {a, b} \subseteq DOMAIN items[c]
    /\ items' = [items EXCEPT ![c][a] = items[c][b], ![c][b] = items[c][a]]
    /\ UNCHANGED <<heap, rc, cell, weak_table, scope, pools, stack, held, lost>>

\* The caller's reference is set aside until the call returns (see Pinned).
removeAllObjects(c) ==
    /\ Receiver(c) /\ c \in {o \in Obj : held[o] > 0} \cup {Self}
    /\ held' = [held EXCEPT ![c] = IF c = Self THEN @ ELSE @ - 1]
    /\ stack' = Append(stack, [fn |-> "removeAll", obj |-> c, pool |-> 0, i |-> 1])
    /\ UNCHANGED <<heap, rc, items, cell, weak_table, scope, pools, lost>>

\* _count is only reset at the end: until then the released elements are
\* still in the array.
RemoveAllStep ==
    /\ stack # <<>> /\ Top.fn = "removeAll" /\ Top.i <= Len(items[Top.obj])
    /\ ReleaseRef(rc, items[Top.obj][Top.i], Resume(Top.i + 1))
    /\ UNCHANGED <<heap, items, scope, pools, held, lost>>

RemoveAllEnd ==
    /\ stack # <<>> /\ Top.fn = "removeAll" /\ Top.i > Len(items[Top.obj])
    /\ items' = [items EXCEPT ![Top.obj] = <<>>]
    /\ held' = [held EXCEPT ![Top.obj] = IF Pinned(Top.obj) THEN @ + 1 ELSE @]
    /\ stack' = Caller
    /\ UNCHANGED <<heap, rc, cell, weak_table, scope, pools, lost>>

-----------------------------------------------------------------------------
(* Weak references, as codegen.rs emits them *)

RoomFor(o) == HasEntry(weak_table, o) =>
    Len(weak_table[find_entry(weak_table, o)].slots) < MaxSlots

\* __weak T *l = o;  with  __attribute__((cleanup(nupa_weakAutoCleanup))).
WeakDecl(l, o) ==
    /\ UserRuns /\ scope[l] = Out /\ o \in Referenced \cup {Null} /\ RoomFor(o)
    /\ scope' = [scope EXCEPT ![l] = Len(stack)]
    /\ cell' = [cell EXCEPT ![l] = o]
    /\ weak_table' = weakRegister(weak_table, l, o)
    /\ UNCHANGED <<heap, rc, items, pools, stack, held, lost>>

\* The block of l ends (or is left by return, break, continue): the cleanup
\* attribute calls nupa_weakAutoCleanup.
WeakScopeEnd(l) ==
    /\ UserRuns /\ scope[l] = Len(stack)
    /\ scope' = [scope EXCEPT ![l] = Out]
    /\ weak_table' = weakUnregister(weak_table, l)
    /\ UNCHANGED <<heap, rc, items, cell, pools, stack, held, lost>>

\* The block of l is left by @throw: longjmp runs no cleanup.
WeakUnwind(l) ==
    /\ UserRuns /\ scope[l] = Len(stack)
    /\ scope' = [scope EXCEPT ![l] = Out]
    /\ UNCHANGED <<heap, rc, items, cell, weak_table, pools, stack, held, lost>>

\* obj._w = o through the synthesized setter, and _w = o in a method.
WeakIvarStore(c, o) ==
    /\ UserRuns /\ c \in Referenced \cup {Self}
    /\ o \in Referenced \cup {Null} /\ RoomFor(o)
    /\ cell' = [cell EXCEPT ![c] = o]
    /\ weak_table' = weakRegister(weakUnregister(weak_table, c), c, o)
    /\ UNCHANGED <<heap, rc, items, scope, pools, stack, held, lost>>

\* l = o; for a declared __weak local: a plain C assignment.
WeakReassign(l, o) ==
    /\ UserRuns /\ scope[l] = Len(stack) /\ o \in Referenced \cup {Null}
    /\ cell' = [cell EXCEPT ![l] = o]
    /\ UNCHANGED <<heap, rc, items, weak_table, scope, pools, stack, held, lost>>

-----------------------------------------------------------------------------
(* Specifications *)

Runtime ==
    PopStep \/ PopEnd \/ SuperDealloc \/ DeallocStep \/ DeallocEnd
    \/ RemoveAllStep \/ RemoveAllEnd

User ==
    \/ \E o \in Obj : \/ nupa_alloc(o) \/ nupa_retain(o)
                      \/ nupa_release(o) \/ nupa_autorelease(o)
    \/ nupa_autoreleasepoolPush
    \/ \E k \in 1 .. MaxPools : nupa_autoreleasepoolPop(k) \/ LeavePool(k)
    \/ \E c \in Obj : removeAllObjects(c)
    \/ \E c, o \in Obj : \E j \in 1 .. MaxItems :
          insertObject(c, j, o) \/ replaceObjectAtIndex(c, j, o)
    \/ \E c \in Obj : \E j \in 1 .. MaxItems : removeObjectAtIndex(c, j)
    \/ \E c \in Obj : \E a, b \in 1 .. MaxItems : exchangeObjectAtIndex(c, a, b)
    \/ \E l \in Local, o \in Id : WeakDecl(l, o)
    \/ \E l \in Local : WeakScopeEnd(l)
    \/ \E c \in WeakHolder, o \in Id : WeakIvarStore(c, o)

Next == Runtime \/ User
Spec == Init /\ [][Next]_vars

\* Programs that also throw out of blocks that declare weak locals.
NextThrow == Next \/ \E l \in Local : WeakUnwind(l)
SpecThrow == Init /\ [][NextThrow]_vars

\* Programs that also assign to weak locals after their declaration.
NextReassign == Next \/ \E l \in Local, o \in Id : WeakReassign(l, o)
SpecReassign == Init /\ [][NextReassign]_vars

-----------------------------------------------------------------------------
(* Properties *)

\* References to o that some variable, pool or array is still to release.
Owners(o) ==
    held[o] + lost[o]
    + (IF Pinned(o) THEN 1 ELSE 0)
    + Cardinality({e \in (DOMAIN pools) \X (1 .. MaxPoolLen) :
                      PendingEntry(e[1], e[2]) /\ pools[e[1]].objs[e[2]] = o})
    + Cardinality({e \in heap \X (1 .. MaxItems) :
                      PendingItem(e[1], e[2]) /\ items[e[1]][e[2]] = o})

\* The retain count of an object is the number of references that are still
\* to be released, across every re-entrant release, pop and array operation;
\* nothing refers to freed memory.  (nupa_retain, nupa_release and everything
\* that calls them.)
RcIsOwners == \A o \in Obj : Owners(o) = IF o \in heap THEN rc[o] ELSE 0

\* Whatever a variable, a pool or an array still has to release is an
\* allocated object whose dealloc has not begun; so every nupa_release that
\* the runtime, a pool or an array performs finds a live object, and no object
\* is deallocated twice.
StrongRefsLive == \A o \in Obj : StrongRef(o) => Live(o)

\* Activations are well nested: a pop in progress works on a pool that is
\* still in the list, pushed by the very block that pops it, and pops further
\* up the C stack work on pools further down the list.  Pools of code that has
\* returned are abandoned ones.  (LeavePool leaves entries in the list that
\* only the pop of an enclosing pool removes.)
WellNested(stk, pls) ==
    /\ \A k \in DOMAIN pls : ~pls[k].left => pls[k].depth <= Len(stk)
    /\ \A i, j \in DOMAIN pls :
          i < j /\ ~pls[i].left /\ ~pls[j].left => pls[i].depth <= pls[j].depth
    /\ \A p \in DOMAIN stk : stk[p].fn = "pop" =>
          /\ stk[p].pool \in DOMAIN pls
          /\ pls[stk[p].pool].depth = p - 1 /\ ~pls[stk[p].pool].left
    /\ \A p \in DOMAIN stk : /\ stk[p].fn # "pop" => stk[p].obj \in Obj
                             /\ stk[p].fn # "dealloc" => stk[p].i >= 1
    /\ \A p \in DOMAIN stk, k \in DOMAIN pls :
          pls[k].depth = p /\ ~pls[k].left => stk[p].fn = "dealloc" /\ stk[p].i = 0
CallsWellNested == WellNested(stack, pools)

\* An object whose dealloc runs is still allocated, has no references, and is
\* in its dealloc only once; the loops over the elements of an array are not
\* nested.
Distinct(stk, allocated, counts) ==
    /\ \A p \in DOMAIN stk : stk[p].fn = "dealloc" =>
          stk[p].obj \in allocated /\ counts[stk[p].obj] = 0
    /\ \A p, q \in DOMAIN stk :
          p # q /\ stk[p].fn # "pop" /\ stk[q].fn # "pop" /\ stk[p].obj = stk[q].obj
             => (stk[p].i = 0 \/ stk[q].i = 0) /\ stk[p].fn # stk[q].fn
DeallocsDistinct == Distinct(stack, heap, rc)

\* Zeroing weak references: a weak variable or ivar that user code can read
\* holds nil or an object whose dealloc has not begun.  (nupa_weakRegister,
\* nupa_weakUnregister, nupa_weakClearAll and the code emitted around them.)
WeakRefsLive == \A o \in Obj : WeakRef(o) => Live(o)

\* The weak table has at most one entry for an object, and entries only for
\* objects whose dealloc has not begun: an address that is freed and allocated
\* again never inherits the registrations of its predecessor.
EntriesWellFormed ==
    /\ \A i, j \in DOMAIN weak_table :
          weak_table[i].object = weak_table[j].object => i = j
    /\ \A i \in DOMAIN weak_table : Live(weak_table[i].object)

\* A weak location that holds an object is registered under that object: this
\* is what makes WeakRefsLive inductive.
Registered ==
    \A x \in Loc : Readable(x) /\ cell[x] # Null =>
        \E i \in DOMAIN weak_table :
            weak_table[i].object = cell[x] /\ x \in Elements(weak_table[i].slots)

WeakInv == TypeOK /\ EntriesWellFormed /\ Registered

\* A location is registered at most once, so that the one registration that
\* nupa_weakUnregister removes is the only one.
RegisteredOnce ==
    \A i, j \in DOMAIN weak_table :
        \A m \in DOMAIN weak_table[i].slots, n \in DOMAIN weak_table[j].slots :
            weak_table[i].slots[m] = weak_table[j].slots[n] => i = j /\ m = n

\* nupa_weakClearAll never writes to a stack frame that is gone: a registered
\* local is in scope.
RegisteredLocalsInScope ==
    \A i \in DOMAIN weak_table :
        \A x \in Elements(weak_table[i].slots) \cap Local : scope[x] # Out

\* nupa_weakClearAll never writes to freed memory: when the last reference to
\* an object goes, every weak ivar it zeroes is inside an allocated object.
\* runtime.c:202-204 says that zeroing before dealloc avoids a use-after-free.
ClearsOnlyAllocated ==
    [][\A o \in Obj : rc[o] > 0 /\ rc'[o] = 0 =>
          Cleared(weak_table, o) \cap WeakHolder \subseteq heap]_vars

\* README.md:277-279: what is autoreleased in an @autoreleasepool block is
\* released when the pool pops; so popping the outermost pool loses nothing.
OutermostPopLosesNothing ==
    [][pools # <<>> /\ pools' = <<>> => lost' = lost]_vars

\* The runtime implements ObjectLifetime: counts, side table, pools, arrays and
\* re-entrant deallocs together make every object live exactly as long as it
\* has references, and weak references become nil exactly when their object
\* dies.  A weak ivar of freed memory is no reference.
Lifetime == INSTANCE ObjectLifetime WITH
    Ref <- Loc,
    refs <- rc,
    weak <- [x \in Loc |-> IF Readable(x) THEN cell[x] ELSE Null]
ImplementsLifetime == Lifetime!Spec

=============================================================================
